--------------------------- MODULE MsEvent_proofs ---------------------------
(***************************************************************************)
(* Proofs about MsEvent, for any number of event threads, users, events,   *)
(* nodes, milliseconds and calls: the callback of a node is never run by   *)
(* two event threads at once, and without deletes no pending count is ever *)
(* negative.                                                               *)
(***************************************************************************)
EXTENDS MsEvent, TLAPS

Holding == {"recheck", "turn", "dec", "dec2", "call", "busy"}
AtNode == Holding \cup {"counted", "overdue", "overdue2", "try"}
Labels == AtNode \cup {"start", "loop", "gone", "count", "walk"}

(* The part of the types the argument needs ...                            *)
RunTypes ==
  /\ evFirst \in 0 .. MaxNodes
  /\ runMux \in [Nodes -> Workers \cup {None}]
  /\ wpc \in [Workers -> Labels]
  /\ ed \in [Workers -> 0 .. MaxNodes]

(* ... and the inductive invariant: a worker at a node has a real one (not *)
(* NULL), and is the owner of its mutex from the test that takes it until  *)
(* Leave.  OneRunAtATime follows, because a mutex has one owner.           *)
OwnsNode ==
  \A w \in Workers :
    /\ wpc[w] \in AtNode => ed[w] \in Nodes
    /\ wpc[w] \in Holding => runMux[ed[w]] = w

RunInv == RunTypes /\ OwnsNode

(* What a step of a worker may do to the node it is at: leave its mutex    *)
(* alone (and hold the node only if it did before), take it while nobody   *)
(* has it, or give back the one it has.                                    *)
Keeps(w, l, n) ==
  runMux' = runMux /\ (l \in Holding => wpc[w] \in Holding /\ n = ed[w])
Takes(w, n) ==
  /\ wpc[w] = "try" /\ runMux[ed[w]] = None
  /\ runMux' = [runMux EXCEPT ![ed[w]] = w] /\ n = ed[w]
GivesBack(w, l) ==
  /\ wpc[w] \in Holding /\ l \notin AtNode
  /\ runMux' = [runMux EXCEPT ![ed[w]] = None]

-----------------------------------------------------------------------------
(* The initial states.                                                     *)
LEMMA InitRunInv == Init => RunInv
  BY EventAssumption DEF Init, RunInv, RunTypes, OwnsNode, AtNode, Holding, Labels

(* A step that takes a worker to another label, at the same or another     *)
(* node, and is one of the three above, preserves the invariant: of the    *)
(* other workers it disturbs none, since it takes no mutex that has an     *)
(* owner and gives back none but its own.                                  *)
LEMMA WorkerMoves ==
  ASSUME RunInv, NEW w \in Workers, NEW l \in Labels, NEW n \in 0 .. MaxNodes,
         evFirst' = evFirst,
         wpc' = [wpc EXCEPT ![w] = l],
         ed' = [ed EXCEPT ![w] = n],
         l \in AtNode => n \in Nodes,
         Keeps(w, l, n) \/ Takes(w, n) \/ GivesBack(w, l)
  PROVE  RunInv'
<1> USE EventAssumption DEF RunInv
<1>1. RunTypes'
  <2>1. runMux' \in [Nodes -> Workers \cup {None}]
    BY DEF RunTypes, Keeps, Takes, GivesBack
  <2>2. QED
    BY <2>1 DEF RunTypes
<1>2. wpc'[w] = l /\ ed'[w] = n
  BY DEF RunTypes
<1>3. (l \in Holding => runMux'[n] = w)
  <2>1. CASE Keeps(w, l, n)
    BY <2>1 DEF Keeps, OwnsNode
  <2>2. CASE Takes(w, n)
    <3>1. n \in Nodes
      BY <2>2 DEF Takes, OwnsNode, AtNode
    <3>2. QED
      BY <2>2, <3>1 DEF Takes, RunTypes
  <2>3. CASE GivesBack(w, l)
    BY <2>3 DEF GivesBack, AtNode
  <2>4. QED
    BY <2>1, <2>2, <2>3
<1>4. ASSUME NEW v \in Workers, v # w
      PROVE  /\ wpc'[v] \in AtNode => ed'[v] \in Nodes
             /\ wpc'[v] \in Holding => runMux'[ed'[v]] = v
  <2>1. wpc'[v] = wpc[v] /\ ed'[v] = ed[v]
    BY <1>4 DEF RunTypes
  <2>2. ASSUME wpc[v] \in Holding PROVE runMux'[ed[v]] = v
    <3>1. runMux[ed[v]] = v /\ ed[v] \in Nodes
      BY <2>2 DEF OwnsNode, AtNode
    <3>2. CASE Keeps(w, l, n)
      BY <3>1, <3>2 DEF Keeps
    <3>3. CASE Takes(w, n)
      <4>1. ed[v] # ed[w]
        BY <3>1, <3>3 DEF Takes
      <4>2. QED
        BY <3>1, <3>3, <4>1 DEF Takes, RunTypes
    <3>4. CASE GivesBack(w, l)
      <4>1. ed[v] # ed[w]
        BY <1>4, <3>1, <3>4 DEF GivesBack, OwnsNode
      <4>2. QED
        BY <3>1, <3>4, <4>1 DEF GivesBack, RunTypes
    <3>5. QED
      BY <3>2, <3>3, <3>4
  <2>3. QED
    BY <2>1, <2>2 DEF OwnsNode
<1>5. OwnsNode'
  BY <1>2, <1>3, <1>4 DEF OwnsNode
<1>6. QED
  BY <1>1, <1>5

(* Every step of a worker is one of these.                                 *)
LEMMA WorkerKeepsRunInv ==
  ASSUME RunInv, NEW w \in Workers, WorkerStep(w)
  PROVE  RunInv'
<1> DEFINE Moves(l, n) ==
      /\ l \in Labels /\ n \in 0 .. MaxNodes
      /\ evFirst' = evFirst
      /\ wpc' = [wpc EXCEPT ![w] = l]
      /\ ed' = [ed EXCEPT ![w] = n]
      /\ l \in AtNode => n \in Nodes
      /\ Keeps(w, l, n) \/ Takes(w, n) \/ GivesBack(w, l)
<1>1. SUFFICES \E l, n : Moves(l, n)
  BY WorkerMoves
<1>2. /\ ed[w] \in 0 .. MaxNodes /\ wpc[w] \in Labels
      /\ wpc = [wpc EXCEPT ![w] = wpc[w]] /\ ed = [ed EXCEPT ![w] = ed[w]]
      /\ wpc[w] \in AtNode => ed[w] \in Nodes
  BY DEF RunInv, RunTypes, OwnsNode
<1>3. /\ evFirst \in 0 .. MaxNodes /\ MaxNodes \in Nat
      /\ ed[w] # 0 => ed[w] \in Nodes /\ ed[w] - 1 \in 0 .. MaxNodes
      /\ ed[w] \in Nodes => ed[w] - 1 \in 0 .. MaxNodes
  BY <1>2, EventAssumption DEF RunInv, RunTypes, Nodes
<1> HIDE DEF Moves
<1> USE <1>2, <1>3 DEF At, Goto, timer, node, worker
<1> DEFINE SameNode(l) ==
      l \in Labels /\ wpc' = [wpc EXCEPT ![w] = l] /\ UNCHANGED <<evFirst, ed, runMux>>
<1>4. ASSUME NEW l, SameNode(l), l \in AtNode => ed[w] \in Nodes,
             l \in Holding => wpc[w] \in Holding
      PROVE  Moves(l, ed[w])
  BY <1>4 DEF Moves, Keeps
<1>5. ASSUME NEW l \in {"count", "walk"}, NEW n \in 0 .. MaxNodes,
             wpc' = [wpc EXCEPT ![w] = l], ed' = [ed EXCEPT ![w] = n],
             UNCHANGED <<evFirst, runMux>>
      PROVE  Moves(l, n)
  BY <1>5 DEF Moves, Keeps, Labels, AtNode, Holding
<1>6. ASSUME Leave(w), evFirst' = evFirst, wpc[w] \in Holding
      PROVE  Moves("walk", ed[w] - 1)
  BY <1>6 DEF Leave, Moves, GivesBack, Labels, AtNode, Holding
<1> USE DEF Labels, AtNode, Holding
<1>7. CASE WorkerStart(w)
  <2>1. Moves("loop", ed[w])
    BY <1>4, <1>7 DEF WorkerStart
  <2>2. QED
    BY <2>1
<1>8. CASE WorkerStop(w)
  <2>1. Moves("gone", ed[w])
    BY <1>4, <1>8 DEF WorkerStop
  <2>2. QED
    BY <2>1
<1>9. CASE TakeTimer(w)
  <2>1. Moves("count", evFirst) \/ Moves("walk", evFirst)
    BY <1>5, <1>9 DEF TakeTimer
  <2>2. QED
    BY <2>1
<1>10. CASE CountLoad(w)
  <2>1. Moves("counted", ed[w]) \/ Moves("count", ed[w] - 1)
    BY <1>4, <1>5, <1>10 DEF CountLoad
  <2>2. QED
    BY <2>1
<1>11. ASSUME NEW done, NextNode(w, done), ed[w] \in Nodes, UNCHANGED <<evFirst, runMux>>
       PROVE  Moves("count", ed[w] - 1) \/ Moves("overdue", ed[w])
  <2>1. CASE done
    BY <1>5, <1>11, <2>1 DEF NextNode
  <2>2. CASE ~done
    BY <1>4, <1>11, <2>2 DEF NextNode
  <2>3. QED
    BY <2>1, <2>2
<1>12. CASE CountStore(w)
  <2>1. Moves("count", ed[w] - 1) \/ Moves("overdue", ed[w])
    BY <1>11, <1>12 DEF CountStore
  <2>2. QED
    BY <2>1
<1>13. CASE RunCntIncLoad(w)
  <2>1. Moves("overdue2", ed[w])
    BY <1>4, <1>13 DEF RunCntIncLoad
  <2>2. QED
    BY <2>1
<1>14. CASE RunCntIncStore(w)
  <2>1. Moves("count", ed[w] - 1) \/ Moves("overdue", ed[w])
    BY <1>11, <1>14 DEF RunCntIncStore
  <2>2. QED
    BY <2>1
<1>15. CASE CountEnd(w)
  <2>1. Moves("walk", evFirst)
    BY <1>5, <1>15 DEF CountEnd
  <2>2. QED
    BY <2>1
<1>16. CASE Capture(w)
  <2>1. CASE ed[w] = 0
    <3>1. Moves("loop", ed[w])
      BY <1>4, <1>16, <2>1 DEF Capture
    <3>2. QED
      BY <3>1
  <2>2. CASE ed[w] # 0
    <3>1. Moves("walk", ed[w] - 1) \/ Moves("try", ed[w])
      BY <1>4, <1>5, <1>16, <2>2 DEF Capture
    <3>2. QED
      BY <3>1
  <2>3. QED
    BY <2>1, <2>2
<1>17. CASE TryRun(w)
  <2>1. CASE MayRun(w)
    <3>1. Moves("recheck", ed[w])
      BY <1>17, <2>1 DEF TryRun, MayRun, Moves, Takes
    <3>2. QED
      BY <3>1
  <2>2. CASE ~MayRun(w)
    <3>1. Moves("walk", ed[w] - 1)
      BY <1>5, <1>17, <2>2 DEF TryRun
    <3>2. QED
      BY <3>1
  <2>3. QED
    BY <2>1, <2>2
<1>18. CASE Recheck(w)
  <2>1. Moves("walk", ed[w] - 1) \/ Moves("turn", ed[w])
    BY <1>4, <1>6, <1>18 DEF Recheck
  <2>2. QED
    BY <2>1
<1>19. CASE Turn(w)
  <2>1. Moves("walk", ed[w] - 1) \/ Moves("turn", ed[w]) \/ Moves("dec", ed[w])
    BY <1>4, <1>6, <1>19 DEF Turn
  <2>2. QED
    BY <2>1
<1>20. CASE RunCntDecLoad(w)
  <2>1. Moves("dec2", ed[w])
    BY <1>4, <1>20 DEF RunCntDecLoad
  <2>2. QED
    BY <2>1
<1>21. CASE RunCntDecStore(w)
  <2>1. Moves("call", ed[w])
    BY <1>4, <1>21 DEF RunCntDecStore
  <2>2. QED
    BY <2>1
<1>22. CASE CallFx(w)
  <2>1. Moves("busy", ed[w])
    BY <1>4, <1>22 DEF CallFx
  <2>2. QED
    BY <2>1
<1>23. CASE FxReturns(w)
  <2>1. Moves("turn", ed[w])
    BY <1>4, <1>23 DEF FxReturns
  <2>2. QED
    BY <2>1
<1>24. QED
  BY ONLY WorkerStep(w), <1>7, <1>8, <1>9, <1>10, <1>12, <1>13, <1>14, <1>15, <1>16,
     <1>17, <1>18, <1>19, <1>20, <1>21, <1>22, <1>23 DEF WorkerStep

(* A user touches no local of a worker and no node's mutex: only the list  *)
(* it walks may get a new first node.                                      *)
LEMMA OthersKeepRunInv ==
  ASSUME RunInv,
         \/ \E u \in Users : UserStep(u) \/ UserCall(u)
         \/ Tick \/ stlTimeEventsExit \/ UNCHANGED vars
  PROVE  RunInv'
<1>1. UNCHANGED <<runMux, worker>> /\ evFirst' \in 0 .. MaxNodes
  <2>1. evFirst \in 0 .. MaxNodes /\ MaxNodes \in Nat
    BY EventAssumption DEF RunInv, RunTypes
  <2>2. ASSUME NEW u \in Users, UserStep(u)
        PROVE  UNCHANGED <<runMux, worker>> /\ evFirst' \in 0 .. MaxNodes
    <3>1. CASE AddNew(u)
      BY <2>1, <3>1 DEF AddNew
    <3>2. CASE ~AddNew(u)
      BY <2>1, <2>2, <3>2 DEF UserStep, LockEv, AddFound, AddReuse, AddFill, AddPublish,
         AddNoMemory, IntervalSet
    <3>3. QED
      BY <3>1, <3>2
  <2>3. ASSUME NEW u \in Users, UserCall(u)
        PROVE  UNCHANGED <<runMux, worker>> /\ evFirst' \in 0 .. MaxNodes
    BY <2>1, <2>3 DEF UserCall, Begin, Delete
  <2>4. QED
    BY <2>1, <2>2, <2>3 DEF Tick, stlTimeEventsExit, vars
<1>2. QED
  BY <1>1 DEF RunInv, RunTypes, OwnsNode, worker

-----------------------------------------------------------------------------
(* Pending counts, where nothing is deleted.                               *)

(* No node is without a function, so none is reused, and a user inside a   *)
(* call has its event.                                                     *)
NoReuse ==
  /\ pEventFx = [i \in Nodes |-> pEventFx[i]]
  /\ \A i \in Listed : pEventFx[i] # None
  /\ upc \in [Users -> {"idle", "lock", "add", "set"}]
  /\ call = [u \in Users |-> call[u]]
  /\ \A u \in Users : upc[u] # "idle" => call[u].e \in Events /\ call[u].op \in {"add", "set"}

(* A worker about to store a raised count has read one that is not         *)
(* negative, and one that lowers it knows, from its test in Turn to its    *)
(* store, that it is positive: between them another thread only raises it. *)
CountsKnown ==
  /\ iRunCnt \in [Nodes -> Nat]
  /\ reg = [w \in Workers |-> reg[w]]
  /\ \A w \in Workers :
       /\ wpc[w] = "overdue2" => reg[w] \in Nat
       /\ wpc[w] = "dec" => iRunCnt[ed[w]] >= 1
       /\ wpc[w] = "dec2" => reg[w] \in Nat \ {0}

CountInv == RunInv /\ NoReuse /\ CountsKnown

LEMMA InitCountInv == Init => CountInv
<1>1. Init => NoReuse /\ CountsKnown
  BY EventAssumption DEF Init, NoReuse, Listed, CountsKnown
<1>2. QED
  BY <1>1, InitRunInv DEF CountInv

(* A step of a worker that writes at most the count of its own node, to a  *)
(* positive value unless it holds the node.                                *)
LEMMA CountMoves ==
  ASSUME RunInv, CountsKnown, NEW w \in Workers, NEW l, NEW r, NEW c \in Nat,
         wpc' = [wpc EXCEPT ![w] = l],
         \A v \in Workers \ {w} : ed'[v] = ed[v],
         reg' = [reg EXCEPT ![w] = r],
         \/ iRunCnt' = iRunCnt
         \/ /\ iRunCnt' = [iRunCnt EXCEPT ![ed[w]] = c]
            /\ c >= 1 \/ wpc[w] \in Holding,
         l = "overdue2" => r \in Nat,
         l = "dec" => iRunCnt'[ed'[w]] >= 1,
         l = "dec2" => r \in Nat \ {0}
  PROVE  CountsKnown'
<1>1. iRunCnt' \in [Nodes -> Nat]
  BY DEF CountsKnown
<1>2. wpc'[w] = l /\ reg'[w] = r
  BY DEF CountsKnown, RunInv, RunTypes
<1>3. ASSUME NEW v \in Workers, v # w
      PROVE  /\ wpc'[v] = "overdue2" => reg'[v] \in Nat
             /\ wpc'[v] = "dec" => iRunCnt'[ed'[v]] >= 1
             /\ wpc'[v] = "dec2" => reg'[v] \in Nat \ {0}
  <2>1. wpc'[v] = wpc[v] /\ reg'[v] = reg[v] /\ ed'[v] = ed[v]
    BY <1>3 DEF CountsKnown, RunInv, RunTypes
  <2>2. ASSUME wpc[v] = "dec" PROVE iRunCnt'[ed[v]] >= 1
    <3>1. ed[v] \in Nodes /\ runMux[ed[v]] = v /\ iRunCnt[ed[v]] >= 1
      BY <2>2 DEF CountsKnown, RunInv, OwnsNode, AtNode, Holding
    <3>2. CASE iRunCnt' = iRunCnt
      BY <3>1, <3>2
    <3>3. CASE iRunCnt' = [iRunCnt EXCEPT ![ed[w]] = c] /\ c >= 1
      BY <3>1, <3>3 DEF CountsKnown
    <3>4. CASE iRunCnt' = [iRunCnt EXCEPT ![ed[w]] = c] /\ wpc[w] \in Holding
      <4>1. ed[w] # ed[v]
        BY <1>3, <3>1, <3>4 DEF RunInv, OwnsNode
      <4>2. QED
        BY <3>1, <3>4, <4>1 DEF CountsKnown
    <3>5. QED
      BY <3>2, <3>3, <3>4
  <2>3. QED
    BY <2>1, <2>2 DEF CountsKnown
<1>4. QED
  BY <1>1, <1>2, <1>3 DEF CountsKnown

(* Every step of a worker is of that kind: of the writers, Recheck and     *)
(* RunCntDecStore hold the node, and RunCntIncStore stores one more than a *)
(* count that was not negative.                                            *)
LEMMA WorkerKeepsCounts ==
  ASSUME RunInv, CountsKnown, NEW w \in Workers, WorkerStep(w)
  PROVE  CountsKnown'
<1> DEFINE Moves(l, r, c) ==
      /\ c \in Nat
      /\ wpc' = [wpc EXCEPT ![w] = l]
      /\ \A v \in Workers \ {w} : ed'[v] = ed[v]
      /\ reg' = [reg EXCEPT ![w] = r]
      /\ \/ iRunCnt' = iRunCnt
         \/ /\ iRunCnt' = [iRunCnt EXCEPT ![ed[w]] = c]
            /\ c >= 1 \/ wpc[w] \in Holding
      /\ l = "overdue2" => r \in Nat
      /\ l = "dec" => iRunCnt'[ed'[w]] >= 1
      /\ l = "dec2" => r \in Nat \ {0}
<1>1. SUFFICES \E l, r, c : Moves(l, r, c)
  BY CountMoves
<1>2. /\ ed = [v \in Workers |-> ed[v]] /\ reg = [reg EXCEPT ![w] = reg[w]]
      /\ wpc = [wpc EXCEPT ![w] = wpc[w]] /\ wpc[w] \in Labels
      /\ wpc[w] \in AtNode => ed[w] \in Nodes
      /\ iRunCnt \in [Nodes -> Nat]
  BY DEF RunInv, RunTypes, OwnsNode, CountsKnown
<1>3. MaxBehind \in Nat \ {0}
  BY EventAssumption
<1> HIDE DEF Moves
<1> USE <1>2 DEF At, Goto, timer, node, worker
(* Steps that write neither a count nor reg, and do not go to a label at   *)
(* which something is known.                                               *)
<1>4. ASSUME NEW l \in Labels \ {"dec", "dec2", "overdue2"}, wpc' = [wpc EXCEPT ![w] = l],
             ed' = ed \/ (\E n : ed' = [ed EXCEPT ![w] = n]), UNCHANGED <<reg, iRunCnt>>
      PROVE  \E r, c : Moves(l, r, c)
  <2>1. Moves(l, reg[w], 0)
    BY <1>4 DEF Moves
  <2>2. QED
    BY <2>1
<1> USE DEF Labels, AtNode, Holding
<1>5. CASE WorkerStart(w)
  BY <1>4, <1>5 DEF WorkerStart
<1>6. CASE WorkerStop(w)
  BY <1>4, <1>6 DEF WorkerStop
<1>7. CASE TakeTimer(w)
  BY <1>4, <1>7 DEF TakeTimer
<1>8. CASE CountLoad(w)
  <2>1. CASE reg' = reg
    BY <1>4, <1>8, <2>1 DEF CountLoad
  <2>2. CASE ed' = ed
    <3>1. Moves("counted", iMsCounter[ed[w]] - iDone[w], 0) \/ reg' = reg
      BY <1>8, <2>2 DEF CountLoad, Moves
    <3>2. QED
      BY <2>1, <3>1
  <2>3. QED
    BY <1>8, <2>1, <2>2 DEF CountLoad
<1>9. CASE CountStore(w)
  BY <1>4, <1>9 DEF CountStore, NextNode
<1>10. CASE RunCntIncLoad(w)
  <2>1. Moves("overdue2", iRunCnt[ed[w]], 0)
    BY <1>10 DEF RunCntIncLoad, Moves
  <2>2. QED
    BY <2>1
<1>11. CASE RunCntIncStore(w)
  <2>1. reg[w] \in Nat
    BY <1>11 DEF RunCntIncStore, CountsKnown
  <2>2. /\ iRunCnt' = [iRunCnt EXCEPT ![ed[w]] = reg[w] + 1]
        /\ reg' = reg
        /\ \E done : NextNode(w, done)
    BY <1>11 DEF RunCntIncStore
  <2>3. PICK done : NextNode(w, done)
    BY <2>2
  <2>4. CASE done
    <3>1. wpc' = [wpc EXCEPT ![w] = "count"] /\ ed' = [ed EXCEPT ![w] = ed[w] - 1]
      BY <2>3, <2>4 DEF NextNode
    <3>2. Moves("count", reg[w], reg[w] + 1)
      BY <2>1, <2>2, <3>1 DEF Moves
    <3>3. QED
      BY <3>2
  <2>5. CASE ~done
    <3>1. wpc' = [wpc EXCEPT ![w] = "overdue"] /\ ed' = [ed EXCEPT ![w] = ed[w]]
      BY <2>3, <2>5 DEF NextNode
    <3>2. Moves("overdue", reg[w], reg[w] + 1)
      BY <2>1, <2>2, <3>1 DEF Moves
    <3>3. QED
      BY <3>2
  <2>6. QED
    BY <2>4, <2>5
<1>12. CASE CountEnd(w)
  BY <1>4, <1>12 DEF CountEnd
<1>13. CASE Capture(w)
  BY <1>4, <1>13 DEF Capture
<1>14. CASE TryRun(w)
  BY <1>4, <1>14 DEF TryRun
<1>15. CASE Recheck(w)
  <2>1. CASE iRunCnt[ed[w]] <= 0
    BY <1>4, <1>15, <2>1 DEF Recheck, Leave
  <2>2. CASE ~(iRunCnt[ed[w]] <= 0)
    <3>1. Moves("turn", reg[w], IF iRunCnt[ed[w]] > MaxBehind THEN MaxBehind ELSE iRunCnt[ed[w]])
      BY <1>3, <1>15, <2>2 DEF Recheck, Moves
    <3>2. QED
      BY <3>1
  <2>3. QED
    BY <2>1, <2>2
<1>16. CASE Turn(w)
  <2>1. CASE Leave(w) /\ UNCHANGED <<iRunCnt, reg>>
    BY <1>4, <2>1 DEF Leave
  <2>2. CASE wpc' = wpc /\ UNCHANGED <<iRunCnt, reg, ed>> /\ At(w, "turn")
    BY <1>4, <2>2
  <2>3. CASE DueNow(w) /\ Goto(w, "dec") /\ UNCHANGED <<iRunCnt, reg, ed>> /\ At(w, "turn")
    <3>1. Moves("dec", reg[w], 0)
      BY <2>3 DEF DueNow, Moves
    <3>2. QED
      BY <3>1
  <2>4. QED
    BY <1>16, <2>1, <2>2, <2>3 DEF Turn
<1>17. CASE RunCntDecLoad(w)
  <2>1. Moves("dec2", iRunCnt[ed[w]], 0)
    BY <1>17 DEF RunCntDecLoad, CountsKnown, Moves
  <2>2. QED
    BY <2>1
<1>18. CASE RunCntDecStore(w)
  <2>1. reg[w] \in Nat \ {0}
    BY <1>18 DEF RunCntDecStore, CountsKnown
  <2>2. Moves("call", reg[w], reg[w] - 1)
    BY <1>18, <2>1 DEF RunCntDecStore, Moves
  <2>3. QED
    BY <2>2
<1>19. CASE CallFx(w)
  BY <1>4, <1>19 DEF CallFx
<1>20. CASE FxReturns(w)
  BY <1>4, <1>20 DEF FxReturns
<1>21. QED
  BY ONLY WorkerStep(w), <1>5, <1>6, <1>7, <1>8, <1>9, <1>10, <1>11, <1>12, <1>13, <1>14,
     <1>15, <1>16, <1>17, <1>18, <1>19, <1>20 DEF WorkerStep

(* A worker does not touch what users write, but for the counters.         *)
LEMMA WorkerKeepsNoReuse ==
  ASSUME NoReuse, NEW w \in Workers, WorkerStep(w)
  PROVE  NoReuse'
<1>1. UNCHANGED <<evFirst, pEventFx, user>>
  BY DEF WorkerStep, WorkerStart, WorkerStop, TakeTimer, CountLoad, CountStore, RunCntIncLoad,
     RunCntIncStore, CountEnd, Capture, TryRun, Recheck, Turn, RunCntDecLoad, RunCntDecStore,
     CallFx, FxReturns, node, user
<1>2. QED
  BY <1>1 DEF NoReuse, Listed, user

(* Without deletes a user adds, finds or adjusts a node, and writes no     *)
(* count.                                                                  *)
LEMMA UserKeepsCounts ==
  ASSUME CountInv, "del" \notin Ops, NEW u \in Users, UserStep(u) \/ UserCall(u)
  PROVE  NoReuse' /\ UNCHANGED <<iRunCnt, worker>>
<1> USE DEF CountInv
<1>1. Free = {}
  BY DEF NoReuse, Free
<1>2. ASSUME Return(u), UNCHANGED <<evFirst, pEventFx>> PROVE NoReuse'
  BY <1>2 DEF Return, UGoto, NoReuse, Listed
<1>3. CASE LockEv(u)
  BY <1>3 DEF LockEv, UGoto, NoReuse, Listed, node
<1>4. CASE AddFound(u)
  BY <1>2, <1>4 DEF AddFound, node
<1>5. CASE AddReuse(u)
  BY <1>1, <1>5 DEF AddReuse
<1>6. CASE AddFill(u) \/ AddPublish(u)
  BY <1>6 DEF AddFill, AddPublish, NoReuse
<1>7. CASE AddNew(u)
  <2>1. call[u].e[1] # None
    BY <1>7, EventAssumption DEF AddNew, NoReuse
  <2>2. /\ evFirst' \in Nodes /\ Listed' = Listed \cup {evFirst'}
        /\ pEventFx' = [pEventFx EXCEPT ![evFirst'] = call[u].e[1]]
    BY <1>7, EventAssumption DEF AddNew, Listed, Nodes, RunInv, RunTypes
  <2>3. \A i \in Listed' : pEventFx'[i] # None
    BY <2>1, <2>2 DEF NoReuse
  <2>4. pEventFx' = [i \in Nodes |-> pEventFx'[i]]
    BY <2>2 DEF NoReuse
  <2>5. QED
    BY <1>7, <2>3, <2>4 DEF AddNew, Return, UGoto, NoReuse
<1>8. CASE AddNoMemory(u)
  BY <1>2, <1>8 DEF AddNoMemory, node
<1>9. CASE IntervalSet(u)
  BY <1>2, <1>9 DEF IntervalSet
<1>10. ASSUME NEW e \in Events, NEW iv \in Intervals, NEW op \in {"add", "set"}, Begin(u, op, e, iv)
       PROVE  NoReuse' /\ UNCHANGED <<iRunCnt, worker>>
  BY <1>10 DEF Begin, UGoto, NoReuse, Listed, node
<1>11. ASSUME NEW fx, NEW data PROVE ~Delete(u, fx, data)
  BY DEF Delete
<1>12. CASE UserCall(u)
  BY <1>10, <1>11, <1>12 DEF UserCall
<1>13. CASE UserStep(u)
  BY <1>3, <1>4, <1>5, <1>6, <1>7, <1>8, <1>9, <1>13
     DEF UserStep, LockEv, AddFound, AddNew, AddNoMemory, IntervalSet, node
<1>14. QED
  BY <1>12, <1>13

LEMMA NextCountInv ==
  ASSUME CountInv, "del" \notin Ops, [Next]_vars
  PROVE  CountInv'
<1> SUFFICES RunInv' /\ NoReuse' /\ CountsKnown'
  BY DEF CountInv
<1>1. RunInv'
  BY WorkerKeepsRunInv, OthersKeepRunInv DEF CountInv, Next
<1>2. ASSUME NEW w \in Workers, WorkerStep(w) PROVE NoReuse' /\ CountsKnown'
  BY <1>2, WorkerKeepsCounts, WorkerKeepsNoReuse DEF CountInv
<1>3. ASSUME NEW u \in Users, UserStep(u) \/ UserCall(u) PROVE NoReuse' /\ CountsKnown'
  BY <1>3, UserKeepsCounts DEF CountInv, CountsKnown, worker
<1>4. ASSUME Tick \/ stlTimeEventsExit \/ UNCHANGED vars PROVE NoReuse' /\ CountsKnown'
  BY <1>4 DEF Tick, stlTimeEventsExit, vars, node, worker, user, CountInv, NoReuse, Listed,
     CountsKnown
<1>5. NoReuse' /\ CountsKnown'
  <2>1. CASE \E w \in Workers : WorkerStep(w)
    BY <1>2, <2>1
  <2>2. CASE \E u \in Users : UserStep(u) \/ UserCall(u)
    BY <1>3, <2>2
  <2>3. QED
    BY <1>4, <2>1, <2>2 DEF Next
<1>6. QED
  BY <1>1, <1>5

-----------------------------------------------------------------------------
(* The callback of a node is never run by two event threads at once: a     *)
(* callback of the millisecond events (_EventTask calls it under runMux of *)
(* its node) need not be reentrant.                                        *)
THEOREM CallbackNotReentered == Spec => []OneRunAtATime
<1>1. RunInv => OneRunAtATime
  BY DEF RunInv, OwnsNode, OneRunAtATime, HoldsNode, AtNode, Holding
<1>2. RunInv /\ [Next]_vars => RunInv'
  BY WorkerKeepsRunInv, OthersKeepRunInv DEF Next
<1>3. QED
  BY InitRunInv, <1>1, <1>2, PTL DEF Spec

(* Where no event is deleted, a pending count is never negative, although  *)
(* _EventTask tests, loads and stores it in separate steps (lines 159 to   *)
(* 196) and other threads count meanwhile.                                 *)
THEOREM CountNeverNegative == Spec => []RunCntNotNegative
<1>1. CASE "del" \in Ops
  <2>1. RunCntNotNegative
    BY <1>1 DEF RunCntNotNegative
  <2>2. QED
    BY <2>1, PTL
<1>2. CASE "del" \notin Ops
  <2>1. CountInv => RunCntNotNegative
    BY DEF CountInv, CountsKnown, RunCntNotNegative
  <2>2. CountInv /\ [Next]_vars => CountInv'
    BY <1>2, NextCountInv
  <2>3. QED
    BY InitCountInv, <2>1, <2>2, PTL DEF Spec
<1>3. QED
  BY <1>1, <1>2

=============================================================================
