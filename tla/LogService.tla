----------------------------- MODULE LogService -----------------------------
(***************************************************************************)
(* What the background print service of stl_daemon.c promises its callers, *)
(* whatever the ring buffer, the flags and the thread behind it do:        *)
(*   - a message is written once, or rejected when Limit messages wait;    *)
(*   - accepted messages are written in the order they were accepted;      *)
(*   - a message written by its caller passes the waiting ones by.         *)
(* PrintQueue implements this specification.                               *)
(***************************************************************************)
EXTENDS Naturals, Sequences

CONSTANTS
  Messages,   (* every message a caller may hand over                      *)
  Limit       (* the number of waiting messages from which one may be      *)
              (* rejected                                                  *)

VARIABLES
  waiting,    (* accepted and not yet written, oldest first                *)
  log,        (* written, in the order of writing                          *)
  rejected    (* number of rejected messages                               *)

vars == <<waiting, log, rejected>>

IsNew(m) ==
  /\ \A i \in DOMAIN waiting : waiting[i] # m
  /\ \A i \in DOMAIN log : log[i] # m

Init == waiting = <<>> /\ log = <<>> /\ rejected = 0

Accept(m) ==
  /\ IsNew(m)
  /\ Len(waiting) <= Limit
  /\ waiting' = Append(waiting, m)
  /\ UNCHANGED <<log, rejected>>

Reject ==
  /\ Len(waiting) >= Limit
  /\ rejected' = rejected + 1
  /\ UNCHANGED <<waiting, log>>

WriteNext ==
  /\ waiting # <<>>
  /\ log' = Append(log, Head(waiting))
  /\ waiting' = Tail(waiting)
  /\ UNCHANGED rejected

WriteDirect(m) ==
  /\ IsNew(m)
  /\ log' = Append(log, m)
  /\ UNCHANGED <<waiting, rejected>>

Next ==
  \/ \E m \in Messages : Accept(m) \/ WriteDirect(m)
  \/ Reject
  \/ WriteNext

Spec == Init /\ [][Next]_vars

=============================================================================
