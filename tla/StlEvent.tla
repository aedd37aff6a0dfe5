------------------------------ MODULE StlEvent ------------------------------
(***************************************************************************)
(* One Linux event of stl_thread_p.cpp (lines 55-241): a manual or auto    *)
(* reset event made of two pthread mutexes and three flag bits.  mWait is  *)
(* used as a signal: locked means that the event is down, and a thread     *)
(* that waits locks it.  Whoever raises the event unlocks it, whether he   *)
(* has locked it or not; glibc's normal mutex allows that, so mWait is a   *)
(* BOOLEAN here and unlocking makes it FALSE.  mux is locked and unlocked  *)
(* by the same thread.                                                     *)
(*                                                                         *)
(* iFlags |= bit and iFlags &= ~bit are a load and a store: stlEvent1Shot  *)
(* changes iFlags before it has mux.  The table of handles (stlEventCreate *)
(* and stlEventDelete) is left out: the event exists all the time.         *)
(***************************************************************************)
EXTENDS Integers, FiniteSets

CONSTANTS
  Threads, None,
  Cases,        (* how the event is made and used: manual and initial are  *)
                (* the arguments of stlEventCreate, calls the calls each   *)
                (* thread makes, again whether an event that is set is set *)
                (* again                                                   *)
  Timeouts,     (* the values of iTimeOut, in ticks                        *)
  SecTicks,     (* the ticks in a second                                   *)
  MaxClock,     (* BOUND: ticks that pass                                  *)
  MaxCalls      (* BOUND: calls of one thread                              *)

ASSUME StlEventAssumption ==
  /\ Cases \subseteq
       [manual : BOOLEAN, initial : BOOLEAN, again : BOOLEAN,
        calls : [Threads -> SUBSET {"set", "reset", "wait", "waitto", "shot"}]]
  /\ Timeouts \subseteq Nat /\ SecTicks \in Nat \ {0}
  /\ MaxClock \in Nat /\ MaxCalls \in Nat
  /\ None \notin Threads

(* How an event can be used so that it does what stl_thread.h says of it:  *)
(* an auto reset event is never reset; a manual event is set and reset by  *)
(* one thread, set only when it is down, and not shot; an event is shot by *)
(* one thread, and neither set nor waited for with a time.                 *)
ShotBy(c, u) ==
  c.calls[u] \subseteq {"shot", "wait"} /\ \A t \in Threads \ {u} : c.calls[t] \subseteq {"wait"}
Resetless(c) ==
  \/ ~c.manual /\ \A t \in Threads : c.calls[t] \subseteq {"set", "wait", "waitto"}
  \/ \E u \in Threads : ShotBy(c, u)
SteeredBy(c, u) ==
  ~c.again /\ c.calls[u] \subseteq {"set", "reset", "wait", "waitto"}
    /\ \A t \in Threads \ {u} : c.calls[t] \subseteq {"wait", "waitto"}
UsualCase(c) == Resetless(c) \/ (c.manual /\ \E u \in Threads : SteeredBy(c, u))
UsualUse == \A c \in Cases : UsualCase(c)

Signaled == "signaled"          (* _EvtFlgSignaled_                        *)
OneShot == "oneshot"            (* _EvtFlgOneShot_                         *)

VARIABLES
  case,             (* the member of Cases: never changes                  *)
  mux, mWait, iFlags,
  pc, reg, tmo,     (* per thread: where it is, the flags it has loaded,   *)
                    (* the time its call gives up                          *)
  clock, calls,
  raised, passed,   (* HISTORY: times mWait was released by a raise, times *)
                    (* a waiter got it                                     *)
  down, begunDown,  (* HISTORY: the event was reset and no raise began     *)
                    (* since; the waits that began in that time            *)
  got               (* HISTORY: passes of each thread since the last shot  *)
                    (* released mWait and while it waits to lock it again  *)

event == <<mux, mWait, iFlags>>
hist  == <<raised, passed, down, begunDown, got>>
vars  == <<case, event, pc, reg, tmo, clock, calls, hist>>

Init ==
  /\ case \in Cases
  /\ mux = None
  /\ mWait = ~case.initial
  /\ iFlags = IF case.initial THEN {Signaled} ELSE {}
  /\ pc = [t \in Threads |-> "idle"]
  /\ reg = [t \in Threads |-> {}]
  /\ tmo = [t \in Threads |-> [sec |-> 0, ticks |-> 0]]
  /\ clock = 0
  /\ calls = [t \in Threads |-> 0]
  /\ raised = (IF case.initial THEN 1 ELSE 0) /\ passed = 0
  /\ down = ~case.initial /\ begunDown = {}
  /\ got = [t \in Threads |-> 0]

Tick ==
  /\ clock < MaxClock
  /\ clock' = clock + 1
  /\ UNCHANGED <<case, event, pc, reg, tmo, calls, hist>>

At(t, label) == pc[t] = label
Goto(t, label) == pc' = [pc EXCEPT ![t] = label]

(* A call begins; HISTORY: a raise ends the time the event is down.        *)
Begin(t, op) ==
  /\ At(t, "idle") /\ calls[t] < MaxCalls
  /\ calls' = [calls EXCEPT ![t] = @ + 1]
  /\ Goto(t, op)
  /\ IF op \in {"set", "shot"}
     THEN down' = FALSE /\ begunDown' = {}
     ELSE /\ begunDown' = IF down THEN begunDown \cup {t} ELSE begunDown
          /\ UNCHANGED down
  /\ UNCHANGED <<case, event, reg, clock, raised, passed, got>>

LockMux(t, from, to) ==
  /\ At(t, from) /\ mux = None
  /\ mux' = t
  /\ Goto(t, to)
  /\ UNCHANGED <<case, mWait, iFlags, reg, tmo, clock, calls, hist>>

Raising ==
  \E t \in Threads :
    pc[t] \in {"set", "set1", "set2", "set3", "set4", "set5",
              "shot", "shot1", "shot2", "shot3", "shot4", "shot5", "shot6", "shot7"}

UnlockMux(t, from) ==
  /\ At(t, from)
  /\ mux' = None
  /\ Goto(t, "idle")
  /\ down' = IF from = "reset5" THEN ~Raising ELSE down
  /\ begunDown' = begunDown \ {t}
  /\ UNCHANGED <<case, mWait, iFlags, reg, tmo, clock, calls, raised, passed, got>>

Load(t, from, to) ==
  /\ At(t, from)
  /\ reg' = [reg EXCEPT ![t] = iFlags]
  /\ Goto(t, to)
  /\ UNCHANGED <<case, event, tmo, clock, calls, hist>>

Store(t, from, to, flags) ==
  /\ At(t, from)
  /\ iFlags' = flags
  /\ Goto(t, to)
  /\ UNCHANGED <<case, mux, mWait, reg, tmo, clock, calls, hist>>

Skip(t, from, to) ==
  /\ At(t, from)
  /\ Goto(t, to)
  /\ UNCHANGED <<case, event, reg, tmo, clock, calls, hist>>

(* The owner of mux takes mWait: the event goes down.                      *)
Lower(t, from, to) ==
  /\ At(t, from) /\ ~mWait
  /\ mWait' = TRUE
  /\ Goto(t, to)
  /\ UNCHANGED <<case, mux, iFlags, reg, tmo, clock, calls, hist>>

-----------------------------------------------------------------------------
(* stlEventSet                                                             *)

SetRelease(t) ==
  /\ At(t, "set4")
  /\ mWait' = FALSE
  /\ raised' = raised + 1
  /\ Goto(t, "set5")
  /\ UNCHANGED <<case, mux, iFlags, reg, tmo, clock, calls, passed, down, begunDown,
                 got>>

stlEventSet(t) ==
  \/ LockMux(t, "set", "set1")
  \/ case.manual /\ Signaled \notin iFlags /\ Skip(t, "set1", "set2")
  \/ ~(case.manual /\ Signaled \notin iFlags) /\ Skip(t, "set1", "set4")
  \/ Load(t, "set2", "set3")
  \/ Store(t, "set3", "set4", reg[t] \cup {Signaled})
  \/ SetRelease(t)
  \/ UnlockMux(t, "set5")

-----------------------------------------------------------------------------
(* stlEventReset: nothing but for a manual event that is set.              *)

ResetHold_NotWaiting(t) == Skip(t, "reset4", "reset5")    \* mutant
ResetHold(t) == Lower(t, "reset4", "reset5")

(* iFlags ^= bit                                                           *)
Toggled(flags) == IF Signaled \in flags THEN flags \ {Signaled} ELSE flags \cup {Signaled}

stlEventReset(t) ==
  \/ LockMux(t, "reset", "reset1")
  \/ case.manual /\ Signaled \in iFlags /\ Skip(t, "reset1", "reset2")
  \/ ~(case.manual /\ Signaled \in iFlags) /\ Skip(t, "reset1", "reset5")
  \/ Load(t, "reset2", "reset3")
  \/ Store(t, "reset3", "reset4", Toggled(reg[t]))
  \/ ResetHold(t)
  \/ UnlockMux(t, "reset5")

-----------------------------------------------------------------------------
(* stlEventWait and stlEventWaitTo                                         *)

Pass(t, from, to) ==
  /\ At(t, from) /\ ~mWait
  /\ mWait' = TRUE
  /\ passed' = passed + 1
  /\ got' = IF \E s \in Threads : pc[s] = "shot4" THEN [got EXCEPT ![t] = @ + 1] ELSE got
  /\ Goto(t, to)
  /\ UNCHANGED <<case, mux, iFlags, reg, tmo, clock, calls, raised, down, begunDown>>

PassOn(t, from, to) ==  (* a manual event stays up                         *)
  /\ At(t, from)
  /\ mWait' = FALSE
  /\ Goto(t, to)
  /\ begunDown' = IF to = "idle" THEN begunDown \ {t} ELSE begunDown
  /\ UNCHANGED <<case, mux, iFlags, reg, tmo, clock, calls, raised, passed, down, got>>

Finish(t, from) ==
  /\ At(t, from)
  /\ Goto(t, "idle")
  /\ begunDown' = begunDown \ {t}
  /\ UNCHANGED <<case, event, reg, tmo, clock, calls, raised, passed, down, got>>

InShot_Never == FALSE                                     \* mutant
InShot == OneShot \in iFlags

PassesOn_Always == TRUE                                   \* mutant
PassesOn_Never == FALSE                                   \* mutant
PassesOn == case.manual

(* In a shot every waiter meets whoever shoots before it goes on.          *)
AfterPass ==
  IF PassesOn THEN IF InShot THEN "shared" ELSE "release"
  ELSE IF InShot THEN "meet" ELSE "taken"

stlEventWait(t) ==
  \/ Pass(t, "wait", "test")
  \/ Skip(t, "test", AfterPass)
  \/ PassOn(t, "shared", "meet")
  \/ LockMux(t, "meet", "met")
  \/ UnlockMux(t, "met")
  \/ PassOn(t, "release", "idle")
  \/ Finish(t, "taken")

(* The time to give up: seconds and ticks are added apart; their sum is    *)
(* below two seconds, so the loop that carries runs at most once.          *)
Deadline_NoCarry(now, iTimeOut) ==                        \* mutant
  [sec |-> (now \div SecTicks) + (iTimeOut \div SecTicks),
   ticks |-> (now % SecTicks) + (iTimeOut % SecTicks)]

Deadline(now, iTimeOut) ==
  LET sec == (now \div SecTicks) + (iTimeOut \div SecTicks)
      ticks == (now % SecTicks) + (iTimeOut % SecTicks)
  IN  IF ticks > SecTicks THEN [sec |-> sec + 1, ticks |-> ticks - SecTicks]
      ELSE [sec |-> sec, ticks |-> ticks]

BeginTo(t, iTimeOut) ==
  /\ Begin(t, "waitto")
  /\ tmo' = [tmo EXCEPT ![t] = Deadline(clock, iTimeOut)]

(* pthread_mutex_timedlock gives up at that time, and at once when the     *)
(* ticks are no part of a second (EINVAL).                                 *)
GivesUp(t) ==
  \/ tmo[t].ticks >= SecTicks
  \/ clock >= tmo[t].sec * SecTicks + tmo[t].ticks

Timeout(t) ==
  /\ At(t, "waitto") /\ mWait /\ GivesUp(t)
  /\ Goto(t, "idle")
  /\ begunDown' = begunDown \ {t}
  /\ UNCHANGED <<case, event, reg, tmo, clock, calls, raised, passed, down, got>>

stlEventWaitTo(t) ==
  \/ PassesOn /\ Pass(t, "waitto", "release")
  \/ ~PassesOn /\ Pass(t, "waitto", "taken")
  \/ Timeout(t)

-----------------------------------------------------------------------------
(* stlEvent1Shot                                                           *)

ShotRelease(t) ==
  /\ At(t, "shot3")
  /\ mWait' = FALSE
  /\ raised' = raised + 1
  /\ got' = [w \in Threads |-> 0]
  /\ Goto(t, "shot4")
  /\ UNCHANGED <<case, mux, iFlags, reg, tmo, clock, calls, passed, down, begunDown>>

stlEvent1Shot(t) ==
  \/ Load(t, "shot", "shot1")
  \/ Store(t, "shot1", "shot2", reg[t] \cup {OneShot})
  \/ LockMux(t, "shot2", "shot3")
  \/ ShotRelease(t)
  \/ Lower(t, "shot4", "shot5")
  \/ Load(t, "shot5", "shot6")
  \/ Store(t, "shot6", "shot7", reg[t] \ {OneShot})
  \/ UnlockMux(t, "shot7")

-----------------------------------------------------------------------------

Call(t) ==
  \/ \E op \in case.calls[t] \ {"waitto"} :
       /\ op = "set" => case.again \/ Signaled \notin iFlags
       /\ Begin(t, op)
       /\ UNCHANGED tmo
  \/ "waitto" \in case.calls[t] /\ \E iTimeOut \in Timeouts : BeginTo(t, iTimeOut)

Step(t) == stlEventSet(t) \/ stlEventReset(t) \/ stlEventWait(t) \/ stlEventWaitTo(t) \/ stlEvent1Shot(t)

Next == Tick \/ \E t \in Threads : Call(t) \/ Step(t)

Spec == Init /\ [][Next]_vars

(* A thread inside a call goes on, and gets a mutex that is free again and *)
(* again; a mutex held for ever, or an event that stays down, may stop it. *)
FairSpec == Spec /\ \A t \in Threads : SF_vars(Step(t))

-----------------------------------------------------------------------------
(* Properties.                                                             *)

(* Type invariant.                                                         *)
TypeOK ==
  /\ mux \in Threads \cup {None} /\ mWait \in BOOLEAN
  /\ iFlags \subseteq {Signaled, OneShot}
  /\ reg \in [Threads -> SUBSET {Signaled, OneShot}]
  /\ tmo \in [Threads -> [sec : Nat, ticks : 0 .. SecTicks]]
  /\ raised \in Nat /\ passed \in Nat /\ down \in BOOLEAN
  /\ begunDown \subseteq Threads
  /\ got \in [Threads -> Nat]

Woken == {"test", "shared", "meet", "met", "release", "taken"}

(* stl_thread.h:191 "Deactivate (lower) event": a wait that begins after   *)
(* stlEventReset has returned does not pass before the event is raised.    *)
NoWakeAfterReset == down => \A t \in begunDown : pc[t] \notin Woken

(* An auto reset event lets one waiter pass for each time it is raised:    *)
(* no raise is seen by two waiters.                                        *)
AutoWakesOne == ~case.manual => passed <= raised

(* A manual event that is set lets every waiter pass, however many pass    *)
(* with it, unless it is reset meanwhile.                                  *)
WaitersReturn ==
  \A t \in Threads :
    (pc[t] = "wait" /\ Signaled \in iFlags) ~> (pc[t] = "idle" \/ Signaled \notin iFlags)

(* stl_thread.h:185, 191 and 210: setting, resetting and shooting an event *)
(* return; none of them waits for somebody to raise the event.             *)
ControlReturns ==
  \A t \in Threads : (pc[t] \in {"set", "reset", "shot"}) ~> (pc[t] = "idle")

(* stl_thread.h:210 "exactly 1 time": no waiter goes around twice in the   *)
(* same shot.                                                              *)
OncePerShot == \A t \in Threads : got[t] <= 1

(* All of it: whom a raise, a reset and a shot let pass.                   *)
EventKept == TypeOK /\ NoWakeAfterReset /\ AutoWakesOne /\ OncePerShot
=============================================================================
