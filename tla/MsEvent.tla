------------------------------ MODULE MsEvent -------------------------------
(***************************************************************************)
(* The millisecond events of stl_event.c (lines 65-418): worker threads    *)
(* (three in the code) share a list of nodes; one of them at a time counts *)
(* the elapsed milliseconds down (tmrMux), each of them then walks the     *)
(* list and runs what is due (runMux of the node).  User threads add,      *)
(* delete and adjust events; adding and adjusting is under evMux, deleting *)
(* is under no lock, and the workers read the nodes under neither.         *)
(*                                                                         *)
(* Nodes are numbered in the order of creation: a new node is put in front *)
(* of the list and none is ever taken out, so next of node i is i - 1, 0   *)
(* is NULL and evFirst is the newest node.  iRunCnt++, iRunCnt-- and the   *)
(* subtraction from iMsCounter are a load and a store: the writers hold    *)
(* different locks.  Names, warnings and their rate limit are left out.    *)
(***************************************************************************)
EXTENDS Integers, FiniteSets

CONSTANTS
  Workers,      (* the event threads: three in the code                    *)
  Users,        (* threads that call the interface                         *)
  None,         (* no owner of a mutex, no function, no data               *)
  Events,       (* the <<function, data>> pairs users register             *)
  Intervals,    (* the intervals they ask for, in ms                       *)
  MaxBehind,    (* pending runs kept per event: 7 in the code              *)
  MaxElapsed,   (* ms above which a measured time is not believed: 100     *)
  Ops,          (* the calls users make: of "add", "del", "set", "exit"    *)
  MallocFails,  (* whether malloc may return NULL                          *)
  MaxNodes,     (* BOUND: nodes allocated                                  *)
  MaxClock,     (* BOUND: ms that pass                                     *)
  MaxCalls      (* BOUND: interface calls of one user                      *)

ASSUME EventAssumption ==
  /\ Intervals \subseteq Nat \ {0}
  /\ MaxBehind \in Nat \ {0} /\ MaxElapsed \in Nat \ {0}
  /\ MaxNodes \in Nat /\ MaxClock \in Nat /\ MaxCalls \in Nat
  /\ None \notin Workers \cup Users
  /\ \A e \in Events : e[1] # None /\ e[2] # None
  /\ MallocFails \in BOOLEAN

Nodes == 1 .. MaxNodes

VARIABLES
  evFirst, pEventFx, pEventData, iMsCounter, iIntervalTime, iRunCnt, runMux,
  evMux, tmrMux, iUsTimer,
  runThread,    (* _eventRunThread_                                        *)
  started,      (* _initEvents has started the workers                     *)
  clock,        (* the time in ms                                          *)
  wpc, ed, Fx, iDone, reg, slot,    (* locals of a worker; slot counts its *)
                                    (* runs of the node it holds           *)
  arg,          (* what a worker's running callback was called with        *)
  upc, call, calls,                 (* locals of a user                    *)
  due, ran, born                    (* HISTORY per node: intervals counted *)
                                    (* and calls made since it was set, and *)
                                    (* the ms from which it was counted    *)

node   == <<pEventFx, pEventData, iMsCounter, iIntervalTime, iRunCnt>>
timer  == <<tmrMux, iUsTimer>>
life   == <<runThread, started, clock>>
worker == <<wpc, ed, Fx, iDone, reg, slot, arg>>
user   == <<upc, call, calls>>
hist   == <<due, ran, born>>
vars   == <<evFirst, node, runMux, evMux, timer, life, worker, user, hist>>

NoCall == [op |-> None, e |-> None, iv |-> 0, node |-> 0]

Init ==
  /\ evFirst = 0
  /\ pEventFx = [i \in Nodes |-> None]
  /\ pEventData = [i \in Nodes |-> None]
  /\ iMsCounter = [i \in Nodes |-> 0]
  /\ iIntervalTime = [i \in Nodes |-> 0]
  /\ iRunCnt = [i \in Nodes |-> 0]
  /\ runMux = [i \in Nodes |-> None]
  /\ evMux = None /\ tmrMux = None /\ iUsTimer = 0
  /\ runThread = TRUE /\ started = FALSE /\ clock = 0
  /\ wpc = [w \in Workers |-> "start"]
  /\ ed = [w \in Workers |-> 0]
  /\ Fx = [w \in Workers |-> None]
  /\ iDone = [w \in Workers |-> 0]
  /\ reg = [w \in Workers |-> 0]
  /\ slot = [w \in Workers |-> 0]
  /\ arg = [w \in Workers |-> None]
  /\ upc = [u \in Users |-> "idle"]
  /\ call = [u \in Users |-> NoCall]
  /\ calls = [u \in Users |-> 0]
  /\ due = [i \in Nodes |-> 0]
  /\ ran = [i \in Nodes |-> 0]
  /\ born = [i \in Nodes |-> 0]

Tick ==
  /\ clock < MaxClock
  /\ clock' = clock + 1
  /\ UNCHANGED <<evFirst, node, runMux, evMux, timer, runThread, started, worker, user, hist>>

-----------------------------------------------------------------------------
(* A worker: _EventTask.                                                   *)

At(w, label) == wpc[w] = label
Goto(w, label) == wpc' = [wpc EXCEPT ![w] = label]

(* Each starting worker sets the shared timer, under no lock.              *)
WorkerStart(w) ==
  /\ started /\ At(w, "start")
  /\ iUsTimer' = clock
  /\ Goto(w, "loop")
  /\ UNCHANGED <<evFirst, node, runMux, evMux, tmrMux, life,
                 ed, Fx, iDone, reg, slot, arg, user, hist>>

WorkerStop(w) ==
  /\ At(w, "loop") /\ ~runThread
  /\ Goto(w, "gone")
  /\ UNCHANGED <<evFirst, node, runMux, evMux, timer, life,
                 ed, Fx, iDone, reg, slot, arg, user, hist>>

(* The time since the last count; one that is too long is taken for 1 ms.  *)
Elapsed == clock - iUsTimer
Measured == IF Elapsed <= MaxElapsed THEN Elapsed ELSE 1

TimerBase_Kept == iUsTimer                     \* mutant
TimerBase == clock

(* Take the timer if nobody has it, else go on to the walk.                *)
TakeTimer(w) ==
  /\ At(w, "loop") /\ runThread
  /\ ed' = [ed EXCEPT ![w] = evFirst]
  /\ \/ /\ tmrMux = None
        /\ tmrMux' = w
        /\ iDone' = [iDone EXCEPT ![w] = Measured]
        /\ iUsTimer' = TimerBase
        /\ Goto(w, "count")
     \/ /\ tmrMux # None
        /\ Goto(w, "walk")
        /\ UNCHANGED <<timer, iDone>>
  /\ UNCHANGED <<evFirst, node, runMux, evMux, life, Fx, reg, slot, arg, user, hist>>

CountLoad(w) ==
  /\ At(w, "count") /\ ed[w] # 0
  /\ LET i == ed[w] IN
       IF pEventFx[i] # None /\ iIntervalTime[i] > 0
       THEN /\ reg' = [reg EXCEPT ![w] = iMsCounter[i] - iDone[w]]
            /\ Goto(w, "counted")
            /\ UNCHANGED ed
       ELSE /\ ed' = [ed EXCEPT ![w] = i - 1]
            /\ UNCHANGED <<reg, wpc>>
  /\ UNCHANGED <<evFirst, node, runMux, evMux, timer, life, Fx, iDone, slot, arg, user, hist>>

NextNode(w, done) ==    (* stay at the node until its counter is positive  *)
  /\ ed' = [ed EXCEPT ![w] = IF done THEN @ - 1 ELSE @]
  /\ Goto(w, IF done THEN "count" ELSE "overdue")

CountStore(w) ==
  /\ At(w, "counted")
  /\ iMsCounter' = [iMsCounter EXCEPT ![ed[w]] = reg[w]]
  /\ NextNode(w, reg[w] > 0)
  /\ UNCHANGED <<evFirst, pEventFx, pEventData, iIntervalTime, iRunCnt, runMux, evMux,
                 timer, life, Fx, iDone, reg, slot, arg, user, hist>>

RunCntIncLoad(w) ==
  /\ At(w, "overdue")
  /\ reg' = [reg EXCEPT ![w] = iRunCnt[ed[w]]]
  /\ Goto(w, "overdue2")
  /\ UNCHANGED <<evFirst, node, runMux, evMux, timer, life, ed, Fx, iDone, slot, arg, user, hist>>

RunCntIncStore(w) ==
  /\ At(w, "overdue2")
  /\ LET i == ed[w] IN
       /\ iRunCnt' = [iRunCnt EXCEPT ![i] = reg[w] + 1]
       /\ iMsCounter' = [iMsCounter EXCEPT ![i] = @ + iIntervalTime[i]]
       /\ due' = [due EXCEPT ![i] = @ + 1]
       /\ NextNode(w, iMsCounter'[i] > 0)
  /\ UNCHANGED <<evFirst, pEventFx, pEventData, iIntervalTime, runMux, evMux,
                 timer, life, Fx, iDone, reg, slot, arg, user, ran, born>>

CountEnd(w) ==
  /\ At(w, "count") /\ ed[w] = 0
  /\ tmrMux' = None
  /\ iDone' = [iDone EXCEPT ![w] = 0]
  /\ ed' = [ed EXCEPT ![w] = evFirst]
  /\ Goto(w, "walk")
  /\ UNCHANGED <<evFirst, node, runMux, evMux, iUsTimer, life, Fx, reg, slot, arg, user, hist>>

(* The walk: the function is read once, before anything is locked.         *)
Capture(w) ==
  /\ At(w, "walk")
  /\ IF ed[w] = 0 THEN Goto(w, "loop") /\ UNCHANGED <<Fx, ed>>
     ELSE /\ Fx' = [Fx EXCEPT ![w] = pEventFx[ed[w]]]
          /\ IF Fx'[w] = None THEN ed' = [ed EXCEPT ![w] = @ - 1] /\ UNCHANGED wpc
             ELSE Goto(w, "try") /\ UNCHANGED ed
  /\ UNCHANGED <<evFirst, node, runMux, evMux, timer, life, iDone, reg, slot, arg, user, hist>>

MayRun_NoLock(w) == iRunCnt[ed[w]] > 0                    \* mutant
MayRun(w) == iRunCnt[ed[w]] > 0 /\ runMux[ed[w]] = None

TryRun(w) ==
  /\ At(w, "try")
  /\ IF MayRun(w)
     THEN /\ runMux' = [runMux EXCEPT ![ed[w]] = w]
          /\ Goto(w, "recheck")
          /\ UNCHANGED <<ed, Fx>>
     ELSE /\ ed' = [ed EXCEPT ![w] = @ - 1]
          /\ Fx' = [Fx EXCEPT ![w] = None]
          /\ Goto(w, "walk")
          /\ UNCHANGED runMux
  /\ UNCHANGED <<evFirst, node, evMux, timer, life, iDone, reg, slot, arg, user, hist>>

Leave_NoUnlock(w) ==                                      \* mutant
  /\ ed' = [ed EXCEPT ![w] = @ - 1]
  /\ Fx' = [Fx EXCEPT ![w] = None]
  /\ slot' = [slot EXCEPT ![w] = 0]
  /\ Goto(w, "walk")
  /\ UNCHANGED runMux

Leave(w) ==             (* unlock the node and go to the next one          *)
  /\ runMux' = [runMux EXCEPT ![ed[w]] = None]
  /\ ed' = [ed EXCEPT ![w] = @ - 1]
  /\ Fx' = [Fx EXCEPT ![w] = None]
  /\ slot' = [slot EXCEPT ![w] = 0]
  /\ Goto(w, "walk")

(* Under runMux: nothing to do any more, or cut the backlog.               *)
Recheck(w) ==
  /\ At(w, "recheck")
  /\ IF iRunCnt[ed[w]] <= 0
     THEN Leave(w) /\ UNCHANGED iRunCnt
     ELSE /\ iRunCnt' = [iRunCnt EXCEPT ![ed[w]] = IF @ > MaxBehind THEN MaxBehind ELSE @]
          /\ Goto(w, "turn")
          /\ UNCHANGED <<runMux, ed, Fx, slot>>
  /\ UNCHANGED <<evFirst, pEventFx, pEventData, iMsCounter, iIntervalTime, evMux,
                 timer, life, iDone, reg, arg, user, hist>>

DueNow_Always(w) == TRUE                                  \* mutant
DueNow(w) == iRunCnt[ed[w]] > 0

RunsPerLoop_Three == 3                                    \* mutant
RunsPerLoop == 2

(* At most two runs: a turn begins only when a run is due.                 *)
Turn(w) ==
  /\ At(w, "turn")
  /\ \/ /\ slot[w] < RunsPerLoop /\ DueNow(w)
        /\ Goto(w, "dec")
        /\ UNCHANGED <<runMux, ed, Fx, slot>>
     \/ /\ slot[w] < RunsPerLoop /\ ~DueNow(w)
        /\ slot' = [slot EXCEPT ![w] = @ + 1]
        /\ UNCHANGED <<runMux, ed, Fx, wpc>>
     \/ slot[w] = RunsPerLoop /\ Leave(w)
  /\ UNCHANGED <<evFirst, node, evMux, timer, life, iDone, reg, arg, user, hist>>

RunCntDecLoad(w) ==
  /\ At(w, "dec")
  /\ reg' = [reg EXCEPT ![w] = iRunCnt[ed[w]]]
  /\ Goto(w, "dec2")
  /\ UNCHANGED <<evFirst, node, runMux, evMux, timer, life, ed, Fx, iDone, slot, arg, user, hist>>

RunCntDecStore(w) ==
  /\ At(w, "dec2")
  /\ iRunCnt' = [iRunCnt EXCEPT ![ed[w]] = reg[w] - 1]
  /\ Goto(w, "call")
  /\ UNCHANGED <<evFirst, pEventFx, pEventData, iMsCounter, iIntervalTime, runMux, evMux,
                 timer, life, ed, Fx, iDone, reg, slot, arg, user, hist>>

(* Fx(ed->pEventData): the function read before, the data read now.        *)
CallFx(w) ==
  /\ At(w, "call")
  /\ arg' = [arg EXCEPT ![w] = <<Fx[w], pEventData[ed[w]]>>]
  /\ ran' = [ran EXCEPT ![ed[w]] = @ + 1]
  /\ Goto(w, "busy")
  /\ UNCHANGED <<evFirst, node, runMux, evMux, timer, life, ed, Fx, iDone, reg, slot, user, due, born>>

FxReturns(w) ==
  /\ At(w, "busy")
  /\ arg' = [arg EXCEPT ![w] = None]
  /\ slot' = [slot EXCEPT ![w] = @ + 1]
  /\ Goto(w, "turn")
  /\ UNCHANGED <<evFirst, node, runMux, evMux, timer, life, ed, Fx, iDone, reg, user, hist>>

-----------------------------------------------------------------------------
(* A user: stlTimeEventAddN, stlTimeEventIntervalSet, stlTimeEventDel.     *)

UGoto(u, label) == upc' = [upc EXCEPT ![u] = label]

(* _initEvents, then (not for Del) the wait for evMux.                     *)
Begin(u, op, e, iv) ==
  /\ upc[u] = "idle" /\ calls[u] < MaxCalls /\ op \in Ops
  /\ calls' = [calls EXCEPT ![u] = @ + 1]
  /\ call' = [call EXCEPT ![u] = [op |-> op, e |-> e, iv |-> iv, node |-> 0]]
  /\ UGoto(u, "lock")
  /\ started' = TRUE
  /\ UNCHANGED <<evFirst, node, runMux, evMux, timer, runThread, clock, worker, hist>>

LockEv(u) ==
  /\ upc[u] = "lock" /\ evMux = None
  /\ evMux' = u
  /\ UGoto(u, call[u].op)
  /\ UNCHANGED <<evFirst, node, runMux, timer, life, worker, call, calls, hist>>

Listed == 1 .. evFirst
IsEvent(i, e) == pEventFx[i] = e[1] /\ pEventData[i] = e[2]
Newest(S) == CHOOSE i \in S : \A j \in S : j <= i
Free == {i \in Listed : pEventFx[i] = None}

Return(u) ==
  /\ UGoto(u, "idle")
  /\ call' = [call EXCEPT ![u] = NoCall]
  /\ UNCHANGED calls

(* HISTORY: a node set now is counted from the last measured time.         *)
Reborn(i) ==
  /\ due' = [due EXCEPT ![i] = 0]
  /\ ran' = [ran EXCEPT ![i] = 0]
  /\ born' = [born EXCEPT ![i] = iUsTimer]

AddFound_NoUnlock(u) ==                                   \* mutant
  /\ upc[u] = "add"
  /\ \E i \in Listed : IsEvent(i, call[u].e)
  /\ Return(u)
  /\ UNCHANGED <<evFirst, node, runMux, evMux, timer, life, worker, hist>>

(* stlTimeEventAddN: already there.                                        *)
AddFound(u) ==
  /\ upc[u] = "add"
  /\ \E i \in Listed : IsEvent(i, call[u].e)
  /\ evMux' = None
  /\ Return(u)
  /\ UNCHANGED <<evFirst, node, runMux, timer, life, worker, hist>>

(* Reuse the first node without function: its fields are set one by one,   *)
(* the function last.                                                      *)
AddReuse(u) ==
  /\ upc[u] = "add"
  /\ ~\E i \in Listed : IsEvent(i, call[u].e)
  /\ Free # {}
  /\ iRunCnt' = [iRunCnt EXCEPT ![Newest(Free)] = 0]
  /\ call' = [call EXCEPT ![u].node = Newest(Free)]
  /\ UGoto(u, "fill")
  /\ UNCHANGED <<evFirst, pEventFx, pEventData, iMsCounter, iIntervalTime, runMux, evMux,
                 timer, life, worker, calls, hist>>

AddFill(u) ==
  /\ upc[u] = "fill"
  /\ LET i == call[u].node IN
       /\ iMsCounter' = [iMsCounter EXCEPT ![i] = call[u].iv]
       /\ iIntervalTime' = [iIntervalTime EXCEPT ![i] = call[u].iv]
       /\ pEventData' = [pEventData EXCEPT ![i] = call[u].e[2]]
  /\ UGoto(u, "publish")
  /\ UNCHANGED <<evFirst, pEventFx, iRunCnt, runMux, evMux, timer, life, worker, call, calls, hist>>

AddPublish(u) ==
  /\ upc[u] = "publish"
  /\ pEventFx' = [pEventFx EXCEPT ![call[u].node] = call[u].e[1]]
  /\ Reborn(call[u].node)
  /\ evMux' = None
  /\ Return(u)
  /\ UNCHANGED <<evFirst, pEventData, iMsCounter, iIntervalTime, iRunCnt, runMux,
                 timer, life, worker>>

(* A new node is filled before it is put in front of the list.             *)
AddNew(u) ==
  /\ upc[u] = "add"
  /\ ~\E i \in Listed : IsEvent(i, call[u].e)
  /\ Free = {} /\ evFirst < MaxNodes
  /\ evFirst' = evFirst + 1
  /\ iMsCounter' = [iMsCounter EXCEPT ![evFirst'] = call[u].iv]
  /\ iIntervalTime' = [iIntervalTime EXCEPT ![evFirst'] = call[u].iv]
  /\ pEventData' = [pEventData EXCEPT ![evFirst'] = call[u].e[2]]
  /\ pEventFx' = [pEventFx EXCEPT ![evFirst'] = call[u].e[1]]
  /\ Reborn(evFirst')
  /\ evMux' = None
  /\ Return(u)
  /\ UNCHANGED <<iRunCnt, runMux, timer, life, worker>>

(* malloc returns NULL: -1 is returned and evMux is not given back.        *)
AddNoMemory(u) ==
  /\ upc[u] = "add" /\ MallocFails
  /\ ~\E i \in Listed : IsEvent(i, call[u].e)
  /\ Free = {}
  /\ Return(u)
  /\ UNCHANGED <<evFirst, node, runMux, evMux, timer, life, worker, hist>>

(* stlTimeEventIntervalSet: the counter and the reload value, if found.    *)
IntervalSet(u) ==
  /\ upc[u] = "set"
  /\ LET found == {i \in Listed : IsEvent(i, call[u].e)} IN
       IF found = {} THEN UNCHANGED <<iMsCounter, iIntervalTime, hist>>
       ELSE /\ iMsCounter' = [iMsCounter EXCEPT ![Newest(found)] = call[u].iv]
            /\ iIntervalTime' = [iIntervalTime EXCEPT ![Newest(found)] = call[u].iv]
            /\ Reborn(Newest(found))
  /\ evMux' = None
  /\ Return(u)
  /\ UNCHANGED <<evFirst, pEventFx, pEventData, iRunCnt, runMux, timer, life, worker>>

(* stlTimeEventDel: no lock; without data (NULL) every entry of the        *)
(* function goes.                                                          *)
Delete(u, fx, data) ==
  /\ upc[u] = "idle" /\ calls[u] < MaxCalls /\ "del" \in Ops
  /\ calls' = [calls EXCEPT ![u] = @ + 1]
  /\ pEventFx' = [i \in Nodes |->
       IF i \in Listed /\ pEventFx[i] = fx /\ (data = None \/ pEventData[i] = data)
       THEN None ELSE pEventFx[i]]
  /\ UNCHANGED <<evFirst, pEventData, iMsCounter, iIntervalTime, iRunCnt, runMux, evMux,
                 timer, life, worker, upc, call, hist>>

stlTimeEventsExit ==
  /\ "exit" \in Ops /\ runThread
  /\ runThread' = FALSE
  /\ UNCHANGED <<evFirst, node, runMux, evMux, timer, started, clock, worker, user, hist>>

-----------------------------------------------------------------------------

WorkerStep(w) ==
  \/ WorkerStart(w) \/ WorkerStop(w) \/ TakeTimer(w)
  \/ CountLoad(w) \/ CountStore(w) \/ RunCntIncLoad(w) \/ RunCntIncStore(w) \/ CountEnd(w)
  \/ Capture(w) \/ TryRun(w) \/ Recheck(w) \/ Turn(w)
  \/ RunCntDecLoad(w) \/ RunCntDecStore(w) \/ CallFx(w) \/ FxReturns(w)

UserStep(u) ==
  \/ LockEv(u) \/ AddFound(u) \/ AddReuse(u) \/ AddFill(u) \/ AddPublish(u)
  \/ AddNew(u) \/ AddNoMemory(u) \/ IntervalSet(u)

UserCall(u) ==
  \E e \in Events :
    \/ \E iv \in Intervals, op \in {"add", "set"} : Begin(u, op, e, iv)
    \/ Delete(u, e[1], e[2]) \/ Delete(u, e[1], None)

Next ==
  \/ Tick
  \/ \E w \in Workers : WorkerStep(w)
  \/ \E u \in Users : UserStep(u) \/ UserCall(u)
  \/ stlTimeEventsExit

Spec == Init /\ [][Next]_vars

(* A worker keeps running (callbacks return, the thread wakes from its     *)
(* wait) and a user that is inside a call goes on; a user waiting for      *)
(* evMux gets it when it is free again and again.  Nobody has to call.     *)
FairSpec ==
  /\ Spec
  /\ \A w \in Workers : WF_vars(WorkerStep(w))
  /\ \A u \in Users : WF_vars(UserStep(u)) /\ SF_vars(LockEv(u))

-----------------------------------------------------------------------------
(* Properties.                                                             *)

(* Type invariant.                                                         *)
TypeOK ==
  /\ evFirst \in 0 .. MaxNodes
  /\ pEventFx \in [Nodes -> {e[1] : e \in Events} \cup {None}]
  /\ pEventData \in [Nodes -> {e[2] : e \in Events} \cup {None}]
  /\ iMsCounter \in [Nodes -> Int]
  /\ iIntervalTime \in [Nodes -> Intervals \cup {0}]
  /\ iRunCnt \in [Nodes -> Int]
  /\ runMux \in [Nodes -> Workers \cup {None}]
  /\ evMux \in Users \cup {None} /\ tmrMux \in Workers \cup {None}
  /\ iUsTimer \in 0 .. clock /\ clock \in 0 .. MaxClock
  /\ wpc \in [Workers -> {"start", "loop", "gone", "count", "counted", "overdue", "overdue2",
                          "walk", "try", "recheck", "turn", "dec", "dec2", "call", "busy"}]
  /\ ed \in [Workers -> 0 .. MaxNodes]
  /\ slot \in [Workers -> 0 .. 2]

HoldsNode(w) == wpc[w] \in {"recheck", "turn", "dec", "dec2", "call", "busy"}

(* The callback of a node is never run by two event threads at once: a     *)
(* callback need not be reentrant, although every worker walks the list.   *)
OneRunAtATime ==
  \A v, w \in Workers : v # w /\ HoldsNode(v) /\ HoldsNode(w) => ed[v] # ed[w]

(* As long as no event is deleted (a node that is reused is zeroed while a *)
(* worker may hold it), a pending count never goes below zero, although it *)
(* is tested, loaded and stored in separate steps while another thread     *)
(* counts: below zero an event would miss its next runs.                   *)
RunCntNotNegative == "del" \notin Ops => \A i \in Nodes : iRunCnt[i] >= 0

(* No millisecond is counted twice for an event that is neither deleted    *)
(* nor adjusted: whatever threads take the timer and however late they     *)
(* are, it is not due more often than its interval fits in the time since  *)
(* it was added.                                                           *)
NeverFast ==
  Ops \cap {"del", "set"} = {} => \A i \in Nodes : due[i] * iIntervalTime[i] <= clock - born[i]

(* The counters keep their ranges and never run ahead of the clock.        *)
TimeKept == TypeOK /\ NeverFast

(* stl_event.c:296 says of an event that its interval is exact and does    *)
(* not depend on the load of the system.  Then the runs made and the runs  *)
(* pending are the intervals counted, as long as no backlog was cut.       *)
IntervalExact ==
  (\A w \in Workers : wpc[w] \in {"start", "loop"}) =>
    \A i \in Nodes : due[i] <= MaxBehind => ran[i] + iRunCnt[i] = due[i]

(* stl_event.c:299 says that the user data is handed to the function again: *)
(* a function is only ever called with data it was registered with.        *)
CalledWithOwnData == \A w \in Workers : arg[w] # None => arg[w] \in Events

(* A call of the interface gets evMux and returns, as long as malloc does  *)
(* not fail (then evMux is never given back).                              *)
CallsReturn == \A u \in Users : (upc[u] = "lock") ~> (upc[u] = "idle")

(* What is due is run in the end, unless the event is deleted or the       *)
(* service is stopped.                                                     *)
DueIsRun ==
  \A i \in Nodes :
    (iRunCnt[i] > 0) ~> (iRunCnt[i] <= 0 \/ pEventFx[i] = None \/ ~runThread)

=============================================================================
