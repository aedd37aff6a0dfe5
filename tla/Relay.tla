-------------------------------- MODULE Relay --------------------------------
(***************************************************************************)
(* stlTcpConnectConsLog and stlTcpConnectSocketsLogCrypt of stl_tcpbase.c: *)
(* two connections, 1 and 2, are tied together.  Each direction has one    *)
(* buffer, and reads again only when it is empty.                          *)
(*                                                                         *)
(* A side that is gone has closed its socket ("closed": what it sent is    *)
(* read first) or lost it ("reset").  How much a socket takes or gives,    *)
(* and which sockets select finds ready, is external.  The ciphers and the *)
(* files of the log, which get what the counters count, are left out.      *)
(***************************************************************************)
EXTENDS Integers, Sequences

CONSTANTS
  BufLen,                (* bytes of buf1 and buf2, 2048 in the code       *)
  MaxSent,               (* BOUND: bytes each side sends                   *)
  MaxRelays,             (* BOUND: calls                                   *)
  WithTimeout            (* connectSocketTimeoutSec > 0                    *)

ASSUME RelayAssumption ==
  /\ BufLen \in Nat \ {0} /\ MaxSent \in Nat \ {0} /\ MaxRelays \in Nat
  /\ WithTimeout \in BOOLEAN

Sides == {1, 2}
Other(s) == 3 - s

VARIABLES
  alive,                 (* of a side: "open", "closed", "reset"           *)
  coming,                (* bytes of a side that are not received yet      *)
  rest,                  (* rBuf of a side: received before the relay      *)
  buf,                   (* bytes for a side, read and not yet sent        *)
  out,                   (* bytes sent to a side                           *)
  count,                 (* iByteUp and iByteDown                          *)
  relay,                 (* "idle", "rest 1", "rest 2", "loop"             *)
  relays,
  endedBy,               (* HISTORY: why the last call returned            *)
  resent                 (* HISTORY: calls that found a rest that an       *)
                         (* earlier one had sent                           *)

relayVars == <<alive, coming, rest, buf, out, count, relay, relays, endedBy, resent>>

RelayInit ==
  /\ alive = [s \in Sides |-> "open"]
  /\ \E k \in [Sides -> 0 .. 1] :
       /\ rest = [s \in Sides |-> [i \in 1 .. k[s] |-> i]]
       /\ coming = [s \in Sides |-> [i \in 1 .. MaxSent - k[s] |-> k[s] + i]]
  /\ buf = [s \in Sides |-> << >>] /\ out = [s \in Sides |-> << >>]
  /\ count = [s \in Sides |-> 0]
  /\ relay = "idle" /\ relays = 0 /\ endedBy = "none" /\ resent = FALSE

RelayCall ==
  /\ relay = "idle" /\ relays < MaxRelays
  /\ relay' = "rest 1" /\ relays' = relays + 1
  /\ resent' = (resent \/ (relays > 0 /\ \E s \in Sides : rest[s] # << >>))
  /\ UNCHANGED <<alive, coming, rest, buf, out, count, endedBy>>

RelayReturn(why) == relay' = "idle" /\ endedBy' = why

(* The rest of rBuf is written first; it stays in rBuf.                    *)
SendRest(s) ==
  /\ relay = (IF s = 1 THEN "rest 1" ELSE "rest 2")
  /\ \/ /\ rest[s] = << >> \/ alive[Other(s)] # "reset"
        /\ out' = [out EXCEPT ![Other(s)] = @ \o rest[s]]
        /\ count' = [count EXCEPT ![Other(s)] = @ + Len(rest[s])]
        /\ relay' = (IF s = 1 THEN "rest 2" ELSE "loop")
        /\ UNCHANGED endedBy
     \/ /\ rest[s] # << >>
        /\ RelayReturn("write")
        /\ UNCHANGED <<out, count>>
  /\ UNCHANGED <<alive, coming, rest, buf, relays, resent>>

-----------------------------------------------------------------------------
(* The loop.  select: what is waited for of the direction to side s.       *)

MustWrite_Never(s) == FALSE                                  \* mutant
MustWrite(s) == buf[s] # << >>
ReadReady_Data(s) == ~MustWrite(s) /\ coming[Other(s)] # << >>  \* mutant
ReadReady(s) ==
  ~MustWrite(s) /\ (coming[Other(s)] # << >> \/ alive[Other(s)] # "open")

(* A part of the buffer is sent; a send that fails is made again.          *)
SendBuf(s) ==
  /\ relay = "loop" /\ MustWrite(s) /\ alive[s] # "reset"
  /\ \E k \in 1 .. Len(buf[s]) :
       /\ out' = [out EXCEPT ![s] = @ \o SubSeq(buf[s], 1, k)]
       /\ buf' = [buf EXCEPT ![s] = SubSeq(@, k + 1, Len(@))]
  /\ UNCHANGED <<alive, coming, rest, count, relay, relays, endedBy, resent>>

SentAtOnce_All(n, k) == n                                    \* mutant
SentAtOnce_None(n, k) == 0                                   \* mutant
SentAtOnce(n, k) == k

(* What is received is counted, and sent at once as far as it goes.        *)
ReadBuf(s) ==
  /\ relay = "loop" /\ ReadReady(s) /\ coming[Other(s)] # << >>
  /\ \E n \in 1 .. BufLen :
       /\ n <= Len(coming[Other(s)])
       /\ coming' = [coming EXCEPT ![Other(s)] = SubSeq(@, n + 1, Len(@))]
       /\ count' = [count EXCEPT ![s] = @ + n]
       /\ \E k \in 0 .. n :
            /\ alive[s] = "reset" => k = 0
            /\ LET read == SubSeq(coming[Other(s)], 1, n)
               IN /\ out' = [out EXCEPT ![s] = @ \o SubSeq(read, 1, k)]
                  /\ buf' = [buf EXCEPT ![s] = SubSeq(read, SentAtOnce(n, k) + 1, n)]
  /\ UNCHANGED <<alive, rest, relay, relays, endedBy, resent>>

(* recv gives 0 or fails: the call returns and its buffers are gone.       *)
ReadEnd(s) ==
  /\ relay = "loop" /\ ReadReady(s) /\ coming[Other(s)] = << >>
  /\ RelayReturn(IF s = 2 THEN "side 1" ELSE "side 2")
  /\ buf' = [d \in Sides |-> << >>]
  /\ UNCHANGED <<alive, coming, rest, out, count, relays, resent>>

(* Nothing was ready for connectSocketTimeoutSec.                          *)
RelayTimeout ==
  /\ relay = "loop" /\ WithTimeout
  /\ \A s \in Sides : ~ReadReady(s)
  /\ RelayReturn("timeout")
  /\ buf' = [d \in Sides |-> << >>]
  /\ UNCHANGED <<alive, coming, rest, out, count, relays, resent>>

-----------------------------------------------------------------------------
(* The peers.                                                              *)

SideGoes(s) ==
  /\ alive[s] = "open"
  /\ \/ alive' = [alive EXCEPT ![s] = "closed"] /\ UNCHANGED coming
     \/ alive' = [alive EXCEPT ![s] = "reset"] /\ coming' = [coming EXCEPT ![s] = << >>]
  /\ UNCHANGED <<rest, buf, out, count, relay, relays, endedBy, resent>>

-----------------------------------------------------------------------------

RelayStep ==
  \/ \E s \in Sides : SendRest(s) \/ SendBuf(s) \/ ReadBuf(s) \/ ReadEnd(s)
  \/ RelayTimeout
RelayNext == RelayCall \/ RelayStep \/ \E s \in Sides : SideGoes(s)

RelaySpec == RelayInit /\ [][RelayNext]_relayVars

(* select answers when a socket is ready, and a side that is not reset     *)
(* goes on taking what is sent to it.                                      *)
RelayFairness ==
  \A s \in Sides :
    /\ WF_relayVars(SendRest(s)) /\ WF_relayVars(SendBuf(s))
    /\ WF_relayVars(ReadBuf(s)) /\ WF_relayVars(ReadEnd(s))
RelayFairSpec == RelaySpec /\ RelayFairness

-----------------------------------------------------------------------------
(* Properties.                                                             *)

(* Type invariant.                                                         *)
RelayTypeOK ==
  /\ alive \in [Sides -> {"open", "closed", "reset"}]
  /\ relay \in {"idle", "rest 1", "rest 2", "loop"}
  /\ \A s \in Sides : Len(buf[s]) <= BufLen /\ (relay = "idle" => buf[s] = << >>)
  /\ endedBy \in {"none", "write", "side 1", "side 2", "timeout"}

(* A side gets what the other sent, in order and without a gap, as long as *)
(* one call lasts: a call after it sends the rest of rBuf again.           *)
RelayedInOrder ==
  \A s \in Sides :
    ~resent /\ relays <= 1 => \A i \in DOMAIN out[s] : out[s][i] = i

(* Every call sends again what rBuf held before the first one, and that is *)
(* all that is ever sent twice.                                            *)
OnlyRestTwice ==
  \A s \in Sides : \A i, j \in DOMAIN out[s] :
    i < j /\ out[s][i] = out[s][j]
      => resent /\ out[s][i] \in {rest[Other(s)][k] : k \in DOMAIN rest[Other(s)]}

(* A call that ends because a side closed has sent on all that this side   *)
(* sent: only what goes to that side may be lost.                          *)
ClosedSideIsComplete ==
  \A s \in Sides :
    /\ relay = "idle" /\ relays = 1 /\ alive[s] = "closed"
    /\ endedBy = (IF s = 1 THEN "side 1" ELSE "side 2")
    => Len(out[Other(s)]) = MaxSent

(* A call returns when a side is gone; but when both were reset while both *)
(* buffers held data it goes on trying to send.                            *)
RelayEnds ==
  RelayFairness =>
    ((\E s \in Sides : alive[s] # "open")
       ~> \/ relay = "idle"
          \/ \A s \in Sides : alive[s] = "reset" /\ buf[s] # << >>)

(* All of it: what one side sends comes to the other.                      *)
RelayKept ==
  /\ RelayTypeOK /\ RelayedInOrder /\ OnlyRestTwice
  /\ ClosedSideIsComplete
=============================================================================
