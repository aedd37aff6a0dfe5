------------------------------- MODULE MCLive -------------------------------
(* Instances for TLC of what must come to an end: the print service and    *)
(* its exit (PrintQueue), delayed sets (TimeSet), pipes of a child         *)
(* (ExecPipe) and relays (Relay), and of what they keep on the way.  They  *)
(* share no state: part is the one that moves, and the others stay as they *)
(* begin (in one of their initial states, so that none is explored twice). *)
EXTENDS PrintQueue, TimeSet, ExecPipe, Relay

CONSTANTS r1, r2

(* One delayed set that is due at once and one that waits.                 *)
SoonAndLater == {<<r1, 0>>, <<r2, 2>>}

VARIABLE part

AllInit ==
  /\ part \in {"print", "time set", "pipe", "relay"}
  /\ Init /\ SetInit /\ EpInit /\ RelayInit
  /\ part # "pipe" => iWait
  /\ part # "relay" => \A s \in Sides : rest[s] = << >>

AllNext ==
  \/ part = "print" /\ Next /\ UNCHANGED <<part, setVars, epVars, relayVars>>
  \/ part = "time set" /\ SetNext /\ UNCHANGED <<part, vars, epVars, relayVars>>
  \/ part = "pipe" /\ EpNext /\ UNCHANGED <<part, vars, setVars, relayVars>>
  \/ part = "relay" /\ RelayNext /\ UNCHANGED <<part, vars, setVars, epVars>>

(* The temporal properties name the fairness they assume.                  *)
AllSpec == AllInit /\ [][AllNext]_<<part, vars, setVars, epVars, relayVars>>
=============================================================================
