-------------------------- MODULE ThreadTable_proofs --------------------------
(***************************************************************************)
(* That the slots of the table of threads, the functions they call and     *)
(* their names do not get mixed up, for any number of slots, calls, names  *)
(* and pids.  The inductive invariant TtInv says what ThreadsAreOwn leaves *)
(* out: the lock keeps one caller in the scan, a slot has one holder from  *)
(* the claim until the flag is cleared, and a thread that still clears the *)
(* rest of a slot that was claimed again is remembered in early.           *)
(*                                                                         *)
(* The proof first says what each action does place by place (CallDoes to  *)
(* ExitDoes), so that the steps for the parts of the invariant need no     *)
(* more than that.                                                         *)
(***************************************************************************)
EXTENDS ThreadTable, TLAPS

-----------------------------------------------------------------------------
(* The types, with those of what is only remembered.                       *)
SlotType == [iFlgs : BOOLEAN, iPid : Pids \cup {0}, start : Actors, sName : Actors \X (0 .. MaxNames)]
StartTypes ==
  /\ spc \in [Actors -> {"idle", "lock", "scan", "claim", "fill", "create"}]
  /\ stTD \in [Actors -> 0 .. MaxThread + 1] /\ made \in [Actors -> Actors]
  /\ asked \in Actors
ThreadTypes ==
  /\ tpc \in [Starts -> {"none", "new", "call", "run", "clear rest", "clear flag",
                        "then rest", "then flag", "exit"}]
  /\ TD \in [Starts -> 0 .. MaxThread] /\ pid \in [Starts -> Pids \cup {0}]
  /\ ttRan \in [Starts -> {-1} \cup Actors]
  /\ names \in [Starts -> 0 .. MaxNames]
  /\ name \in [Starts -> Actors \X (0 .. MaxNames)]
HistTypes == early \subseteq Starts /\ lost \subseteq Table /\ allUsed \in [Actors -> BOOLEAN]
LockTypes == mtxThTbl \in 0 .. MaxStarts + 1
TtTypes ==
  /\ tIDT \in [Table -> SlotType] /\ LockTypes /\ fatal \in BOOLEAN
  /\ StartTypes /\ ThreadTypes /\ HistTypes

(* The number of a call is its own until its thread is made, and the       *)
(* thread of a call does not exist before.                                 *)
CallMade ==
  /\ \A a \in Actors : made[a] <= asked /\ (spc[a] = "idle" <=> made[a] = 0)
  /\ \A a, b \in Actors : made[a] = made[b] /\ made[a] # 0 => a = b
SlotChosen ==
  \A a \in Actors : /\ spc[a] \in {"claim", "fill", "create"} => stTD[a] \in Table
                    /\ spc[a] = "scan" => stTD[a] >= 1
ThreadMade ==
  \A t \in Starts : tpc[t] # "none" =>
    /\ t <= asked /\ \A a \in Actors : made[a] # t
    /\ TD[t] \in Table /\ pid[t] \in Pids
CallsAreOwn == CallMade /\ SlotChosen /\ ThreadMade

(* The table is scanned and claimed by one.                                *)
TableLocked ==
  ~fatal => \A a \in Actors : spc[a] \in {"scan", "claim"} <=> mtxThTbl = a + 1

(* Threads that are there have a pid of their own, and a pid in the table  *)
(* is that of a thread whose slot it is.                                   *)
PidsDiffer ==
  \A t, u \in Starts : tpc[t] # "none" /\ tpc[u] # "none" /\ pid[t] = pid[u] => t = u
PidInTable ==
  \A s \in Table : tIDT[s].iPid # 0 =>
    \E t \in Starts : /\ tpc[t] \in {"call", "run", "clear rest", "clear flag", "then rest"}
                      /\ TD[t] = s /\ pid[t] = tIDT[s].iPid

(* A slot has one holder: a call that fills it, or a thread until it has   *)
(* given up the flag.  A lost slot has none.                               *)
Filling(a) == spc[a] \in {"fill", "create"}
Holding(t) == TtAlive(t) \/ tpc[t] \in {"clear rest", "clear flag", "then flag"}
OneFiller == \A a, b \in Actors : Filling(a) /\ Filling(b) /\ stTD[a] = stTD[b] => a = b
OneThread == \A t, u \in Starts : Holding(t) /\ Holding(u) /\ TD[t] = TD[u] => t = u
NotBoth == \A a \in Actors, t \in Starts : Filling(a) /\ Holding(t) => stTD[a] # TD[t]
LostIsLost ==
  /\ \A a \in Actors : Filling(a) => stTD[a] \notin lost
  /\ \A t \in Starts : Holding(t) => TD[t] \notin lost
OneHolder == OneFiller /\ OneThread /\ NotBoth /\ LostIsLost

(* A slot that is claimed is still free.                                   *)
ClaimsFree == \A a \in Actors : spc[a] = "claim" => ~tIDT[stTD[a]].iFlgs

(* Whose slot was claimed before it was cleared is in early.               *)
CallEarly ==
  \A u \in Starts, a \in Actors :
    tpc[u] = "then rest" /\ Filling(a) /\ stTD[a] = TD[u] => made[a] \in early
ThreadEarly ==
  \A u, t \in Starts :
    tpc[u] = "then rest" /\ Holding(t) /\ TD[t] = TD[u] => t \in early
ClearedEarly == CallEarly /\ ThreadEarly

(* What a slot says is what its holder was started with and called.        *)
CallSays ==
  \A a \in Actors : spc[a] = "create" /\ made[a] \notin early =>
    tIDT[stTD[a]].start = made[a] /\ tIDT[stTD[a]].sName = <<made[a], 0>>
ThreadSays ==
  \A t \in Starts : TtAlive(t) /\ t \notin early =>
    /\ tIDT[TD[t]].start = t /\ tIDT[TD[t]].sName = name[t]
    /\ tpc[t] # "new" => tIDT[TD[t]].iPid = pid[t]
SlotSays == CallSays /\ ThreadSays

(* A slot that was free when the scan began is still ahead of it.          *)
ScanFinds ==
  \A a \in Actors : spc[a] = "scan" /\ ~allUsed[a] =>
    \E s \in Table : stTD[a] <= s /\ ~tIDT[s].iFlgs

TtInv ==
  /\ TtTypes /\ CallsAreOwn /\ TableLocked /\ PidsDiffer /\ PidInTable
  /\ OneHolder /\ UsedSlots /\ ClaimsFree /\ ClearedEarly /\ SlotSays
  /\ RunsWhatWasAsked /\ (~fatal => ScanFinds) /\ FatalWhenFull

(* What is written to a slot.                                              *)
LEMMA SlotChanges ==
  ASSUME NEW r \in SlotType, NEW n \in Actors \X (0 .. MaxNames), NEW c \in Actors,
         NEW p \in Pids \cup {0}
  PROVE  /\ [r EXCEPT !.sName = n] \in SlotType /\ [r EXCEPT !.iPid = p] \in SlotType
         /\ [r EXCEPT !.start = c, !.sName = n] \in SlotType
         /\ [EmptySlot EXCEPT !.iFlgs = TRUE] \in SlotType
         /\ ClearedRest(r) \in SlotType /\ ClearedFlag(r) \in SlotType
<1>1. [r EXCEPT !.sName = n] \in SlotType /\ [r EXCEPT !.iPid = p] \in SlotType
  BY DEF SlotType
<1>2. [r EXCEPT !.start = c, !.sName = n] \in SlotType
  BY DEF SlotType
<1>3. 0 \in Actors /\ NoName \in Actors \X (0 .. MaxNames)
  BY ThreadTableAssumption DEF Actors, MainThread, NoName
<1>4. ASSUME NEW b \in BOOLEAN PROVE [EmptySlot EXCEPT !.iFlgs = b] \in SlotType
  <2>1. [EmptySlot EXCEPT !.iFlgs = b] = [iFlgs |-> b, iPid |-> 0, start |-> 0, sName |-> NoName]
    BY DEF EmptySlot
  <2>2. QED
    BY <1>3, <2>1 DEF SlotType
<1>5. ClearedRest(r) \in SlotType
  <2>1. r.iFlgs \in BOOLEAN
    BY DEF SlotType
  <2>2. QED
    BY <1>4, <2>1 DEF ClearedRest
<1>6. ClearedFlag(r) \in SlotType
  BY DEF SlotType, ClearedFlag
<1>7. QED
  BY <1>1, <1>2, <1>4, <1>5, <1>6

(* A number of names given, and the name after the next.                   *)
LEMMA NextName ==
  ASSUME NEW t \in Starts, NEW k \in 0 .. MaxNames, k < MaxNames
  PROVE  k + 1 \in 0 .. MaxNames /\ <<t, k + 1>> \in Actors \X (0 .. MaxNames)
<1>1. k + 1 \in 0 .. MaxNames
  BY ThreadTableAssumption
<1>2. t \in Actors
  BY DEF Actors
<1>3. QED
  BY <1>1, <1>2

(* The slot of a running thread is found by its pid, unless a late clearing*)
(* took the pid away.                                                      *)
LEMMA OwnSlotIs ==
  ASSUME TtInv, NEW t \in Starts, tpc[t] = "run"
  PROVE  /\ OwnSlot(t) = (IF tIDT[TD[t]].iPid = pid[t] THEN TD[t] ELSE 0)
         /\ TD[t] \in Table /\ pid[t] \in Pids /\ TD[t] # 0
<1>1. TD[t] \in Table /\ pid[t] \in Pids /\ TD[t] # 0 /\ pid[t] # 0
  BY ThreadTableAssumption DEF TtInv, CallsAreOwn, CallMade, SlotChosen, ThreadMade, Table
<1> DEFINE own == {s \in Table : tIDT[s].iPid = pid[t]}
<1>2. ASSUME NEW s \in own PROVE s = TD[t]
  BY <1>1 DEF TtInv, PidInTable, PidsDiffer
<1>3. CASE tIDT[TD[t]].iPid = pid[t]
  <2>1. own = {TD[t]}
    BY <1>1, <1>2, <1>3
  <2>2. TD[t] <= TD[t]
    BY <1>1, ThreadTableAssumption DEF Table
  <2>3. (CHOOSE s \in own : \A r \in own : s <= r) = TD[t]
    BY <2>1, <2>2
  <2>4. QED
    BY <1>1, <1>3, <2>1, <2>3 DEF OwnSlot
<1>4. CASE tIDT[TD[t]].iPid # pid[t]
  <2>1. own = {}
    BY <1>2, <1>4
  <2>2. QED
    BY <1>1, <1>4, <2>1 DEF OwnSlot
<1>5. QED
  BY <1>3, <1>4

(* The part of a name or slot that changes keeps its type.                 *)
LEMMA TtNextTypes ==
  ASSUME TtInv, [TtNext]_ttVars
  PROVE  TtTypes'
<1>0. \A t \in Starts : tpc[t] = "run" => OwnSlot(t) \in {0, TD[t]} /\ TD[t] \in 0 .. MaxThread
  BY OwnSlotIs, ThreadTableAssumption DEF Table
<1> USE ThreadTableAssumption DEF TtInv, TtTypes, Starts, Actors, MainThread, Table
<1>1. ASSUME NEW a \in Actors, CallStart(a) PROVE TtTypes'
  <2>1. tIDT' \in [Table -> SlotType]
    BY <1>1 DEF CallStart, AtStart, GotoStart, AtThread, GotoThread, ttStart, ttThread, ttHist
  <2>2. fatal' \in BOOLEAN
    BY <1>1 DEF CallStart, AtStart, GotoStart, AtThread, GotoThread, ttStart, ttThread, ttHist
  <2>3. LockTypes'
    BY <1>1 DEF CallStart, LockTypes, AtStart, GotoStart, AtThread, GotoThread, ttStart, ttThread, ttHist
  <2>4. StartTypes'
    BY <1>1 DEF CallStart, StartTypes, AtStart, GotoStart, AtThread, GotoThread, ttStart, ttThread, ttHist
  <2>5. ThreadTypes'
    BY <1>1 DEF CallStart, ThreadTypes, AtStart, GotoStart, AtThread, GotoThread, ttStart, ttThread, ttHist
  <2>6. HistTypes'
    BY <1>1 DEF CallStart, HistTypes, AtStart, GotoStart, AtThread, GotoThread, ttStart, ttThread, ttHist
  <2>7. QED
    BY <2>1, <2>2, <2>3, <2>4, <2>5, <2>6
<1>2. ASSUME NEW a \in Actors, LockTable(a) PROVE TtTypes'
  <2>1. tIDT' \in [Table -> SlotType]
    BY <1>2 DEF LockTable, AtStart, GotoStart, AtThread, GotoThread, ttStart, ttThread, ttHist
  <2>2. fatal' \in BOOLEAN
    BY <1>2 DEF LockTable, AtStart, GotoStart, AtThread, GotoThread, ttStart, ttThread, ttHist
  <2>3. LockTypes'
    BY <1>2 DEF LockTable, LockTypes, AtStart, GotoStart, AtThread, GotoThread, ttStart, ttThread, ttHist
  <2>4. StartTypes'
    BY <1>2 DEF LockTable, StartTypes, AtStart, GotoStart, AtThread, GotoThread, ttStart, ttThread, ttHist
  <2>5. ThreadTypes'
    BY <1>2 DEF LockTable, ThreadTypes, AtStart, GotoStart, AtThread, GotoThread, ttStart, ttThread, ttHist
  <2>6. HistTypes'
    BY <1>2 DEF LockTable, HistTypes, AtStart, GotoStart, AtThread, GotoThread, ttStart, ttThread, ttHist
  <2>7. QED
    BY <2>1, <2>2, <2>3, <2>4, <2>5, <2>6
<1>3. ASSUME NEW a \in Actors, ScanTable(a) PROVE TtTypes'
  <2>1. tIDT' \in [Table -> SlotType]
    BY <1>3 DEF ScanTable, AtStart, GotoStart, AtThread, GotoThread, ttStart, ttThread, ttHist
  <2>2. fatal' \in BOOLEAN
    BY <1>3 DEF ScanTable, AtStart, GotoStart, AtThread, GotoThread, ttStart, ttThread, ttHist
  <2>3. LockTypes'
    BY <1>3 DEF ScanTable, LockTypes, AtStart, GotoStart, AtThread, GotoThread, ttStart, ttThread, ttHist
  <2>4. StartTypes'
    <3>1. /\ \/ UNCHANGED stTD
             \/ stTD[a] <= MaxThread /\ stTD' = [stTD EXCEPT ![a] = stTD[a] + 1]
          /\ UNCHANGED spc \/ spc' = [spc EXCEPT ![a] = "claim"]
          /\ UNCHANGED <<made, asked>>
      BY <1>3 DEF ScanTable, GotoStart, LastThread
    <3>2. stTD' \in [Actors -> 0 .. MaxThread + 1]
      <4>1. stTD \in [Actors -> 0 .. MaxThread + 1]
        BY DEF StartTypes
      <4>2. stTD[a] <= MaxThread => stTD[a] + 1 \in 0 .. MaxThread + 1
        BY <4>1
      <4>3. QED
        BY <3>1, <4>1, <4>2
    <3>3. QED
      BY <3>1, <3>2 DEF StartTypes
  <2>5. ThreadTypes'
    BY <1>3 DEF ScanTable, ThreadTypes, AtStart, GotoStart, AtThread, GotoThread, ttStart, ttThread, ttHist
  <2>6. HistTypes'
    BY <1>3 DEF ScanTable, HistTypes, AtStart, GotoStart, AtThread, GotoThread, ttStart, ttThread, ttHist
  <2>7. QED
    BY <2>1, <2>2, <2>3, <2>4, <2>5, <2>6
<1>4. ASSUME NEW a \in Actors, ClaimSlot(a) PROVE TtTypes'
  <2>1. tIDT' \in [Table -> SlotType]
    <3>1. stTD[a] \in Table /\ tIDT' = [tIDT EXCEPT ![stTD[a]] = [EmptySlot EXCEPT !.iFlgs = TRUE]]
      BY <1>4 DEF ClaimSlot, CallsAreOwn, CallMade, SlotChosen, ThreadMade, AtStart
    <3>2. [EmptySlot EXCEPT !.iFlgs = TRUE] \in SlotType
      <4>1. tIDT[stTD[a]] \in SlotType /\ <<0, 0>> \in Actors \X (0 .. MaxNames) /\ 0 \in Actors
        BY <3>1
      <4>2. QED
        BY <4>1, SlotChanges
    <3>3. QED
      BY <3>1, <3>2
  <2>2. fatal' \in BOOLEAN
    BY <1>4 DEF ClaimSlot, AtStart, GotoStart, AtThread, GotoThread, ttStart, ttThread, ttHist
  <2>3. LockTypes'
    BY <1>4 DEF ClaimSlot, LockTypes, AtStart, GotoStart, AtThread, GotoThread, ttStart, ttThread, ttHist
  <2>4. StartTypes'
    BY <1>4 DEF ClaimSlot, StartTypes, AtStart, GotoStart, AtThread, GotoThread, ttStart, ttThread, ttHist
  <2>5. ThreadTypes'
    BY <1>4 DEF ClaimSlot, ThreadTypes, AtStart, GotoStart, AtThread, GotoThread, ttStart, ttThread, ttHist
  <2>6. HistTypes'
    BY <1>4 DEF ClaimSlot, HistTypes, AtStart, GotoStart, AtThread, GotoThread, ttStart, ttThread, ttHist, StartTypes, CallsAreOwn, CallMade, SlotChosen, ThreadMade
  <2>7. QED
    BY <2>1, <2>2, <2>3, <2>4, <2>5, <2>6
<1>5. ASSUME NEW a \in Actors, FillSlot(a) PROVE TtTypes'
  <2>1. tIDT' \in [Table -> SlotType]
    <3>1. stTD[a] \in Table /\ made[a] \in Actors /\ <<made[a], 0>> \in Actors \X (0 .. MaxNames)
      BY <1>5 DEF FillSlot, CallsAreOwn, CallMade, SlotChosen, ThreadMade, AtStart, StartTypes
    <3>2. /\ tIDT' = [tIDT EXCEPT ![stTD[a]] = [tIDT[stTD[a]] EXCEPT !.start = made[a],
                                                                   !.sName = <<made[a], 0>>]]
      BY <1>5, <3>1 DEF FillSlot, SlotType
    <3>3. [tIDT[stTD[a]] EXCEPT !.start = made[a], !.sName = <<made[a], 0>>] \in SlotType
      <4>1. tIDT[stTD[a]] \in SlotType
        BY <3>1
      <4>2. QED
        BY <3>1, <4>1, SlotChanges
    <3>4. QED
      BY <3>1, <3>2, <3>3
  <2>2. fatal' \in BOOLEAN
    BY <1>5 DEF FillSlot, AtStart, GotoStart, AtThread, GotoThread, ttStart, ttThread, ttHist
  <2>3. LockTypes'
    BY <1>5 DEF FillSlot, LockTypes, AtStart, GotoStart, AtThread, GotoThread, ttStart, ttThread, ttHist
  <2>4. StartTypes'
    BY <1>5 DEF FillSlot, StartTypes, AtStart, GotoStart, AtThread, GotoThread, ttStart, ttThread, ttHist
  <2>5. ThreadTypes'
    BY <1>5 DEF FillSlot, ThreadTypes, AtStart, GotoStart, AtThread, GotoThread, ttStart, ttThread, ttHist
  <2>6. HistTypes'
    BY <1>5 DEF FillSlot, HistTypes, AtStart, GotoStart, AtThread, GotoThread, ttStart, ttThread, ttHist
  <2>7. QED
    BY <2>1, <2>2, <2>3, <2>4, <2>5, <2>6
<1>6. ASSUME NEW a \in Actors, CreateThread(a) PROVE TtTypes'
  <2>1. tIDT' \in [Table -> SlotType]
    BY <1>6 DEF CreateThread, AtStart, GotoStart, AtThread, GotoThread, ttStart, ttThread, ttHist
  <2>2. fatal' \in BOOLEAN
    BY <1>6 DEF CreateThread, AtStart, GotoStart, AtThread, GotoThread, ttStart, ttThread, ttHist
  <2>3. LockTypes'
    BY <1>6 DEF CreateThread, LockTypes, AtStart, GotoStart, AtThread, GotoThread, ttStart, ttThread, ttHist
  <2>4. StartTypes'
    BY <1>6 DEF CreateThread, StartTypes, AtStart, GotoStart, AtThread, GotoThread, ttStart, ttThread, ttHist, FreePids
  <2>5. ThreadTypes'
    <3>1. made[a] \in Starts /\ <<made[a], 0>> \in Actors \X (0 .. MaxNames) /\ stTD[a] \in Table
      BY <1>6 DEF CreateThread, CallsAreOwn, CallMade, SlotChosen, ThreadMade, AtStart, StartTypes
    <3>2. CASE UNCHANGED <<tpc, TD, pid, name>>
      BY <1>6, <3>2 DEF CreateThread, ThreadTypes
    <3>3. CASE \E p \in FreePids :
                 /\ tpc' = [tpc EXCEPT ![made[a]] = "new"]
                 /\ TD' = [TD EXCEPT ![made[a]] = stTD[a]]
                 /\ pid' = [pid EXCEPT ![made[a]] = p]
                 /\ name' = [name EXCEPT ![made[a]] = <<made[a], 0>>]
      <4>1. PICK p \in Pids : /\ tpc' = [tpc EXCEPT ![made[a]] = "new"]
                              /\ TD' = [TD EXCEPT ![made[a]] = stTD[a]]
                              /\ pid' = [pid EXCEPT ![made[a]] = p]
                              /\ name' = [name EXCEPT ![made[a]] = <<made[a], 0>>]
        BY <3>3 DEF FreePids
      <4>2. tpc' \in [Starts -> {"none", "new", "call", "run", "clear rest", "clear flag",
                                 "then rest", "then flag", "exit"}]
        BY <4>1 DEF ThreadTypes
      <4>3. TD' \in [Starts -> 0 .. MaxThread]
        <5>1. stTD[a] \in 0 .. MaxThread
          BY <3>1
        <5>2. TD \in [Starts -> 0 .. MaxThread]
          BY DEF ThreadTypes
        <5>3. QED
          BY <4>1, <5>1, <5>2
      <4>4. pid' \in [Starts -> Pids \cup {0}]
        BY <4>1 DEF ThreadTypes
      <4>5. name' \in [Starts -> Actors \X (0 .. MaxNames)]
        BY <3>1, <4>1 DEF ThreadTypes
      <4>6. QED
        BY <1>6, <4>2, <4>3, <4>4, <4>5 DEF CreateThread, ThreadTypes
    <3>4. QED
      BY <1>6, <3>2, <3>3 DEF CreateThread
  <2>6. HistTypes'
    BY <1>6 DEF CreateThread, HistTypes, AtStart, GotoStart, AtThread, GotoThread, ttStart, ttThread, ttHist, StartTypes, CallsAreOwn, CallMade, SlotChosen, ThreadMade
  <2>7. QED
    BY <2>1, <2>2, <2>3, <2>4, <2>5, <2>6
<1>7. ASSUME NEW t \in Starts, WritePid(t) PROVE TtTypes'
  <2>1. tIDT' \in [Table -> SlotType]
    <3>1. TD[t] \in Table /\ pid[t] \in Pids
      BY <1>7 DEF WritePid, CallsAreOwn, CallMade, SlotChosen, ThreadMade, AtThread
    <3>2. tIDT' = [tIDT EXCEPT ![TD[t]] = [tIDT[TD[t]] EXCEPT !.iPid = pid[t]]]
      BY <1>7 DEF WritePid
    <3>3. [tIDT[TD[t]] EXCEPT !.iPid = pid[t]] \in SlotType
      <4>1. /\ tIDT[TD[t]] \in SlotType /\ pid[t] \in Pids \cup {0}
            /\ 0 \in Actors /\ <<0, 0>> \in Actors \X (0 .. MaxNames)
        BY <3>1
      <4>2. QED
        BY <4>1, SlotChanges
    <3>4. QED
      BY <3>1, <3>2, <3>3
  <2>2. fatal' \in BOOLEAN
    BY <1>7 DEF WritePid, AtStart, GotoStart, AtThread, GotoThread, ttStart, ttThread, ttHist
  <2>3. LockTypes'
    BY <1>7 DEF WritePid, LockTypes, AtStart, GotoStart, AtThread, GotoThread, ttStart, ttThread, ttHist
  <2>4. StartTypes'
    BY <1>7 DEF WritePid, StartTypes, AtStart, GotoStart, AtThread, GotoThread, ttStart, ttThread, ttHist
  <2>5. ThreadTypes'
    BY <1>7 DEF WritePid, ThreadTypes, AtStart, GotoStart, AtThread, GotoThread, ttStart, ttThread, ttHist
  <2>6. HistTypes'
    BY <1>7 DEF WritePid, HistTypes, AtStart, GotoStart, AtThread, GotoThread, ttStart, ttThread, ttHist
  <2>7. QED
    BY <2>1, <2>2, <2>3, <2>4, <2>5, <2>6
<1>8. ASSUME NEW t \in Starts, CallFunction(t) PROVE TtTypes'
  <2>1. tIDT' \in [Table -> SlotType]
    BY <1>8 DEF CallFunction, AtStart, GotoStart, AtThread, GotoThread, ttStart, ttThread, ttHist
  <2>2. fatal' \in BOOLEAN
    BY <1>8 DEF CallFunction, AtStart, GotoStart, AtThread, GotoThread, ttStart, ttThread, ttHist
  <2>3. LockTypes'
    BY <1>8 DEF CallFunction, LockTypes, AtStart, GotoStart, AtThread, GotoThread, ttStart, ttThread, ttHist
  <2>4. StartTypes'
    BY <1>8 DEF CallFunction, StartTypes, AtStart, GotoStart, AtThread, GotoThread, ttStart, ttThread, ttHist
  <2>5. ThreadTypes'
    <3>1. TD[t] \in Table
      BY <1>8 DEF CallFunction, CallsAreOwn, CallMade, SlotChosen, ThreadMade, AtThread
    <3>2. tIDT[TD[t]].start \in Actors
      BY <3>1 DEF SlotType
    <3>3. ttRan' \in [Starts -> {-1} \cup Actors]
      BY <1>8, <3>2 DEF CallFunction, ThreadTypes
    <3>4. QED
      BY <1>8, <3>3 DEF CallFunction, ThreadTypes, GotoThread
  <2>6. HistTypes'
    BY <1>8 DEF CallFunction, HistTypes, AtStart, GotoStart, AtThread, GotoThread, ttStart, ttThread, ttHist
  <2>7. QED
    BY <2>1, <2>2, <2>3, <2>4, <2>5, <2>6
<1>9. ASSUME NEW t \in Starts, stlThreadNameSet(t) PROVE TtTypes'
  <2>1. tIDT' \in [Table -> SlotType]
    <3>1. CASE OwnSlot(t) = 0
      BY <1>9, <3>1 DEF stlThreadNameSet
    <3>2. CASE OwnSlot(t) # 0
      <4>1. TD[t] \in Table /\ OwnSlot(t) = TD[t]
        BY <1>9, <3>2, OwnSlotIs DEF stlThreadNameSet, AtThread
      <4>2. <<t, names[t] + 1>> \in Actors \X (0 .. MaxNames)
        BY <1>9, NextName DEF stlThreadNameSet, ThreadTypes
      <4>3. tIDT' = [tIDT EXCEPT ![TD[t]] = [tIDT[TD[t]] EXCEPT !.sName = <<t, names[t] + 1>>]]
        BY <1>9, <3>2, <4>1 DEF stlThreadNameSet
      <4>4. [tIDT[TD[t]] EXCEPT !.sName = <<t, names[t] + 1>>] \in SlotType
        <5>1. tIDT[TD[t]] \in SlotType
          BY <4>1
        <5>2. QED
          BY <4>1, <4>2, <5>1, SlotChanges
      <4>5. QED
        BY <4>1, <4>3, <4>4
    <3>3. QED
      BY <3>1, <3>2
  <2>2. fatal' \in BOOLEAN
    BY <1>9 DEF stlThreadNameSet, AtStart, GotoStart, AtThread, GotoThread, ttStart, ttThread, ttHist
  <2>3. LockTypes'
    BY <1>9 DEF stlThreadNameSet, LockTypes, AtStart, GotoStart, AtThread, GotoThread, ttStart, ttThread, ttHist
  <2>4. StartTypes'
    BY <1>9 DEF stlThreadNameSet, StartTypes, AtStart, GotoStart, AtThread, GotoThread, ttStart, ttThread, ttHist
  <2>5. ThreadTypes'
    <3>1. <<t, names[t] + 1>> \in Actors \X (0 .. MaxNames) /\ names[t] + 1 \in 0 .. MaxNames
      BY <1>9, NextName DEF stlThreadNameSet, ThreadTypes
    <3>2. name' \in [Starts -> Actors \X (0 .. MaxNames)]
      BY <1>9, <3>1 DEF stlThreadNameSet, ThreadTypes
    <3>3. names' \in [Starts -> 0 .. MaxNames]
      BY <1>9, <3>1 DEF stlThreadNameSet, ThreadTypes
    <3>4. QED
      BY <1>9, <3>2, <3>3 DEF stlThreadNameSet, ThreadTypes
  <2>6. HistTypes'
    BY <1>9 DEF stlThreadNameSet, HistTypes, AtStart, GotoStart, AtThread, GotoThread, ttStart, ttThread, ttHist
  <2>7. QED
    BY <2>1, <2>2, <2>3, <2>4, <2>5, <2>6
<1>10. ASSUME NEW t \in Starts, EndThread(t) PROVE TtTypes'
  <2>1. tIDT' \in [Table -> SlotType]
    BY <1>10 DEF EndThread, AtStart, GotoStart, AtThread, GotoThread, ttStart, ttThread, ttHist
  <2>2. fatal' \in BOOLEAN
    BY <1>10 DEF EndThread, AtStart, GotoStart, AtThread, GotoThread, ttStart, ttThread, ttHist
  <2>3. LockTypes'
    BY <1>10 DEF EndThread, LockTypes, AtStart, GotoStart, AtThread, GotoThread, ttStart, ttThread, ttHist
  <2>4. StartTypes'
    BY <1>10 DEF EndThread, StartTypes, AtStart, GotoStart, AtThread, GotoThread, ttStart, ttThread, ttHist
  <2>5. ThreadTypes'
    <3>1. OwnSlot(t) \in {0, TD[t]} /\ TD[t] \in 0 .. MaxThread
      BY <1>0, <1>10 DEF EndThread, AtThread
    <3>2. /\ UNCHANGED TD \/ TD' = [TD EXCEPT ![t] = TD[t]]
          /\ \E half \in {"clear rest", "clear flag", "exit"} : tpc' = [tpc EXCEPT ![t] = half]
          /\ UNCHANGED <<pid, ttRan, names, name>>
      BY <1>10, <3>1 DEF EndThread, GotoThread
    <3>3. QED
      BY <3>1, <3>2 DEF ThreadTypes
  <2>6. HistTypes'
    <3>1. TD[t] \in Table
      BY <1>10 DEF EndThread, CallsAreOwn, CallMade, SlotChosen, ThreadMade, AtThread
    <3>2. lost' \subseteq Table
      BY <1>10, <3>1 DEF EndThread, HistTypes
    <3>3. QED
      BY <1>10, <3>2 DEF EndThread, HistTypes
  <2>7. QED
    BY <2>1, <2>2, <2>3, <2>4, <2>5, <2>6
<1>11. ASSUME NEW t \in Starts, ClearSlot(t) PROVE TtTypes'
  <2>1. tIDT' \in [Table -> SlotType]
    <3>1. TD[t] \in Table
      BY <1>11 DEF ClearSlot, CallsAreOwn, CallMade, SlotChosen, ThreadMade, AtThread
    <3>2. ClearedRest(tIDT[TD[t]]) \in SlotType /\ ClearedFlag(tIDT[TD[t]]) \in SlotType
      <4>1. tIDT[TD[t]] \in SlotType /\ <<0, 0>> \in Actors \X (0 .. MaxNames) /\ 0 \in Actors
        BY <3>1
      <4>2. QED
        BY <4>1, SlotChanges
    <3>3. \/ tIDT' = [tIDT EXCEPT ![TD[t]] = ClearedRest(tIDT[TD[t]])]
          \/ tIDT' = [tIDT EXCEPT ![TD[t]] = ClearedFlag(tIDT[TD[t]])]
      BY <1>11 DEF ClearSlot
    <3>4. QED
      BY <3>1, <3>2, <3>3
  <2>2. fatal' \in BOOLEAN
    BY <1>11 DEF ClearSlot, AtStart, GotoStart, AtThread, GotoThread, ttStart, ttThread, ttHist
  <2>3. LockTypes'
    BY <1>11 DEF ClearSlot, LockTypes, AtStart, GotoStart, AtThread, GotoThread, ttStart, ttThread, ttHist
  <2>4. StartTypes'
    BY <1>11 DEF ClearSlot, StartTypes, AtStart, GotoStart, AtThread, GotoThread, ttStart, ttThread, ttHist
  <2>5. ThreadTypes'
    BY <1>11 DEF ClearSlot, ThreadTypes, AtStart, GotoStart, AtThread, GotoThread, ttStart, ttThread, ttHist
  <2>6. HistTypes'
    BY <1>11 DEF ClearSlot, HistTypes, AtStart, GotoStart, AtThread, GotoThread, ttStart, ttThread, ttHist
  <2>7. QED
    BY <2>1, <2>2, <2>3, <2>4, <2>5, <2>6
<1>12. ASSUME NEW t \in Starts, ExitThread(t) PROVE TtTypes'
  <2>1. tIDT' \in [Table -> SlotType]
    BY <1>12 DEF ExitThread, AtStart, GotoStart, AtThread, GotoThread, ttStart, ttThread, ttHist
  <2>2. fatal' \in BOOLEAN
    BY <1>12 DEF ExitThread, AtStart, GotoStart, AtThread, GotoThread, ttStart, ttThread, ttHist
  <2>3. LockTypes'
    BY <1>12 DEF ExitThread, LockTypes, AtStart, GotoStart, AtThread, GotoThread, ttStart, ttThread, ttHist
  <2>4. StartTypes'
    BY <1>12 DEF ExitThread, StartTypes, AtStart, GotoStart, AtThread, GotoThread, ttStart, ttThread, ttHist
  <2>5. ThreadTypes'
    BY <1>12 DEF ExitThread, ThreadTypes, AtStart, GotoStart, AtThread, GotoThread, ttStart, ttThread, ttHist
  <2>6. HistTypes'
    BY <1>12 DEF ExitThread, HistTypes, AtStart, GotoStart, AtThread, GotoThread, ttStart, ttThread, ttHist
  <2>7. QED
    BY <2>1, <2>2, <2>3, <2>4, <2>5, <2>6
<1>13. CASE UNCHANGED ttVars
  BY <1>13 DEF ttVars, AtStart, GotoStart, AtThread, GotoThread, ttStart, ttThread, ttHist, LockTypes, StartTypes, ThreadTypes, HistTypes
<1>14. QED
  BY <1>1, <1>2, <1>3, <1>4, <1>5, <1>6, <1>7, <1>8, <1>9, <1>10, <1>11, <1>12, <1>13 DEF TtNext, StartStep, ThreadRuns

(* Numbers of calls.                                                       *)
LEMMA TtNextMade ==
  ASSUME TtInv, [TtNext]_ttVars
  PROVE  CallMade'
<1> USE ThreadTableAssumption DEF StartTypes, Actors, Starts, MainThread
<1>0. StartTypes /\ CallMade
  BY DEF TtInv, TtTypes, CallsAreOwn
<1>1. ASSUME NEW a \in Actors, CallStart(a) PROVE CallMade'
  BY <1>0, <1>1 DEF CallStart, CallMade, AtStart, GotoStart, AtThread, GotoThread, ttStart, ttThread, ttHist
<1>2. ASSUME NEW a \in Actors, LockTable(a) PROVE CallMade'
  BY <1>0, <1>2 DEF LockTable, CallMade, AtStart, GotoStart, AtThread, GotoThread, ttStart, ttThread, ttHist
<1>3. ASSUME NEW a \in Actors, ScanTable(a) PROVE CallMade'
  BY <1>0, <1>3 DEF ScanTable, CallMade, AtStart, GotoStart, AtThread, GotoThread, ttStart, ttThread, ttHist
<1>4. ASSUME NEW a \in Actors, ClaimSlot(a) PROVE CallMade'
  BY <1>0, <1>4 DEF ClaimSlot, CallMade, AtStart, GotoStart, AtThread, GotoThread, ttStart, ttThread, ttHist
<1>5. ASSUME NEW a \in Actors, FillSlot(a) PROVE CallMade'
  BY <1>0, <1>5 DEF FillSlot, CallMade, AtStart, GotoStart, AtThread, GotoThread, ttStart, ttThread, ttHist
<1>6. ASSUME NEW a \in Actors, CreateThread(a) PROVE CallMade'
  BY <1>0, <1>6 DEF CreateThread, CallMade, AtStart, GotoStart, AtThread, GotoThread, ttStart, ttThread, ttHist
<1>7. ASSUME NEW t \in Starts, WritePid(t) PROVE CallMade'
  BY <1>0, <1>7 DEF WritePid, CallMade, AtStart, GotoStart, AtThread, GotoThread, ttStart, ttThread, ttHist
<1>8. ASSUME NEW t \in Starts, CallFunction(t) PROVE CallMade'
  BY <1>0, <1>8 DEF CallFunction, CallMade, AtStart, GotoStart, AtThread, GotoThread, ttStart, ttThread, ttHist
<1>9. ASSUME NEW t \in Starts, stlThreadNameSet(t) PROVE CallMade'
  BY <1>0, <1>9 DEF stlThreadNameSet, CallMade, AtStart, GotoStart, AtThread, GotoThread, ttStart, ttThread, ttHist
<1>10. ASSUME NEW t \in Starts, EndThread(t) PROVE CallMade'
  BY <1>0, <1>10 DEF EndThread, CallMade, AtStart, GotoStart, AtThread, GotoThread, ttStart, ttThread, ttHist
<1>11. ASSUME NEW t \in Starts, ClearSlot(t) PROVE CallMade'
  BY <1>0, <1>11 DEF ClearSlot, CallMade, AtStart, GotoStart, AtThread, GotoThread, ttStart, ttThread, ttHist
<1>12. ASSUME NEW t \in Starts, ExitThread(t) PROVE CallMade'
  BY <1>0, <1>12 DEF ExitThread, CallMade, AtStart, GotoStart, AtThread, GotoThread, ttStart, ttThread, ttHist
<1>13. CASE UNCHANGED ttVars
  BY <1>0, <1>13 DEF ttVars, CallMade, AtStart, GotoStart, AtThread, GotoThread, ttStart, ttThread, ttHist
<1>14. QED
  BY <1>1, <1>2, <1>3, <1>4, <1>5, <1>6, <1>7, <1>8, <1>9, <1>10, <1>11, <1>12, <1>13 DEF TtNext, StartStep, ThreadRuns

(* The slot of a call.                                                     *)
LEMMA TtNextChosen ==
  ASSUME TtInv, [TtNext]_ttVars
  PROVE  SlotChosen'
<1> USE ThreadTableAssumption DEF StartTypes, Actors, Starts, MainThread, Table
<1>0. StartTypes /\ SlotChosen
  BY DEF TtInv, TtTypes, CallsAreOwn
<1>1. ASSUME NEW a \in Actors, CallStart(a) PROVE SlotChosen'
  BY <1>0, <1>1 DEF CallStart, SlotChosen, AtStart, GotoStart, AtThread, GotoThread, ttStart, ttThread, ttHist
<1>2. ASSUME NEW a \in Actors, LockTable(a) PROVE SlotChosen'
  BY <1>0, <1>2 DEF LockTable, SlotChosen, AtStart, GotoStart, AtThread, GotoThread, ttStart, ttThread, ttHist
<1>3. ASSUME NEW a \in Actors, ScanTable(a) PROVE SlotChosen'
  BY <1>0, <1>3 DEF ScanTable, SlotChosen, AtStart, GotoStart, AtThread, GotoThread, ttStart, ttThread, ttHist, LastThread
<1>4. ASSUME NEW a \in Actors, ClaimSlot(a) PROVE SlotChosen'
  BY <1>0, <1>4 DEF ClaimSlot, SlotChosen, AtStart, GotoStart, AtThread, GotoThread, ttStart, ttThread, ttHist
<1>5. ASSUME NEW a \in Actors, FillSlot(a) PROVE SlotChosen'
  BY <1>0, <1>5 DEF FillSlot, SlotChosen, AtStart, GotoStart, AtThread, GotoThread, ttStart, ttThread, ttHist
<1>6. ASSUME NEW a \in Actors, CreateThread(a) PROVE SlotChosen'
  BY <1>0, <1>6 DEF CreateThread, SlotChosen, AtStart, GotoStart, AtThread, GotoThread, ttStart, ttThread, ttHist
<1>7. ASSUME NEW t \in Starts, WritePid(t) PROVE SlotChosen'
  BY <1>0, <1>7 DEF WritePid, SlotChosen, AtStart, GotoStart, AtThread, GotoThread, ttStart, ttThread, ttHist
<1>8. ASSUME NEW t \in Starts, CallFunction(t) PROVE SlotChosen'
  BY <1>0, <1>8 DEF CallFunction, SlotChosen, AtStart, GotoStart, AtThread, GotoThread, ttStart, ttThread, ttHist
<1>9. ASSUME NEW t \in Starts, stlThreadNameSet(t) PROVE SlotChosen'
  BY <1>0, <1>9 DEF stlThreadNameSet, SlotChosen, AtStart, GotoStart, AtThread, GotoThread, ttStart, ttThread, ttHist
<1>10. ASSUME NEW t \in Starts, EndThread(t) PROVE SlotChosen'
  BY <1>0, <1>10 DEF EndThread, SlotChosen, AtStart, GotoStart, AtThread, GotoThread, ttStart, ttThread, ttHist
<1>11. ASSUME NEW t \in Starts, ClearSlot(t) PROVE SlotChosen'
  BY <1>0, <1>11 DEF ClearSlot, SlotChosen, AtStart, GotoStart, AtThread, GotoThread, ttStart, ttThread, ttHist
<1>12. ASSUME NEW t \in Starts, ExitThread(t) PROVE SlotChosen'
  BY <1>0, <1>12 DEF ExitThread, SlotChosen, AtStart, GotoStart, AtThread, GotoThread, ttStart, ttThread, ttHist
<1>13. CASE UNCHANGED ttVars
  BY <1>0, <1>13 DEF ttVars, SlotChosen, AtStart, GotoStart, AtThread, GotoThread, ttStart, ttThread, ttHist
<1>14. QED
  BY <1>1, <1>2, <1>3, <1>4, <1>5, <1>6, <1>7, <1>8, <1>9, <1>10, <1>11, <1>12, <1>13 DEF TtNext, StartStep, ThreadRuns

(* The thread of a call.                                                   *)
LEMMA TtNextThread ==
  ASSUME TtInv, [TtNext]_ttVars
  PROVE  ThreadMade'
<1> USE DEF ThreadTypes
<1>0. StartTypes /\ ThreadTypes /\ CallMade /\ SlotChosen /\ ThreadMade
  BY DEF TtInv, TtTypes, CallsAreOwn
<1>1. ASSUME NEW a \in Actors, CallStart(a) PROVE ThreadMade'
  <2>1. /\ asked' = asked + 1 /\ made' = [made EXCEPT ![a] = asked + 1]
        /\ UNCHANGED <<tpc, TD, pid>>
        /\ made \in [Actors -> Actors]
    BY <1>0, <1>1 DEF CallStart, ttThread, StartTypes
  <2>2. asked \in Int /\ \A t \in Starts : t \in Int
    <3>1. \A t \in Starts : t \in Int
      BY DEF Starts
    <3>2. \A b \in Actors : b \in Int
      BY <3>1 DEF Actors, MainThread
    <3>3. asked \in Actors
      BY <1>0 DEF StartTypes
    <3>4. QED
      BY <3>1, <3>2, <3>3
  <2>3. ASSUME NEW t \in Starts, tpc'[t] # "none"
        PROVE  /\ t <= asked' /\ \A b \in Actors : made'[b] # t
               /\ TD'[t] \in Table /\ pid'[t] \in Pids
    <3>1. /\ t <= asked /\ \A b \in Actors : made[b] # t
          /\ TD'[t] \in Table /\ pid'[t] \in Pids
      BY <1>0, <2>1, <2>3 DEF ThreadMade
    <3>2. t # asked + 1 /\ t <= asked + 1
      BY <2>2, <3>1
    <3>3. QED
      BY <2>1, <3>1, <3>2
  <2>4. QED
    BY <2>3 DEF ThreadMade
<1>2. ASSUME NEW a \in Actors, LockTable(a) PROVE ThreadMade'
  BY <1>0, <1>2 DEF LockTable, ThreadMade, AtStart, GotoStart, AtThread, GotoThread, ttStart, ttThread, ttHist
<1>3. ASSUME NEW a \in Actors, ScanTable(a) PROVE ThreadMade'
  BY <1>0, <1>3 DEF ScanTable, ThreadMade, AtStart, GotoStart, AtThread, GotoThread, ttStart, ttThread, ttHist
<1>4. ASSUME NEW a \in Actors, ClaimSlot(a) PROVE ThreadMade'
  BY <1>0, <1>4 DEF ClaimSlot, ThreadMade, AtStart, GotoStart, AtThread, GotoThread, ttStart, ttThread, ttHist
<1>5. ASSUME NEW a \in Actors, FillSlot(a) PROVE ThreadMade'
  BY <1>0, <1>5 DEF FillSlot, ThreadMade, AtStart, GotoStart, AtThread, GotoThread, ttStart, ttThread, ttHist
<1>6. ASSUME NEW a \in Actors, CreateThread(a) PROVE ThreadMade'
  <2>1. /\ made[a] # 0 /\ made[a] \in Starts /\ stTD[a] \in Table /\ made[a] <= asked
        /\ asked' = asked /\ made' = [made EXCEPT ![a] = 0]
        /\ \A b \in Actors : made[b] = made[a] => b = a
    BY <1>0, <1>6 DEF CreateThread, AtStart, StartTypes, Actors, MainThread, CallMade, SlotChosen
  <2>2. \A t \in Starts : made'[a] # t
    <3>1. made'[a] = 0
      BY <1>0, <2>1 DEF StartTypes
    <3>2. 0 \notin Starts
      BY ThreadTableAssumption DEF Starts
    <3>3. QED
      BY <3>1, <3>2
  <2>3. \A b \in Actors \ {a} : made'[b] = made[b]
    BY <1>0, <2>1 DEF StartTypes
  <2>4. CASE UNCHANGED <<tpc, TD, pid, name>>
    <3>1. \A t \in Starts, b \in Actors : made[b] # t => made'[b] # t
      BY <2>2, <2>3
    <3>2. QED
      BY <1>0, <2>1, <2>4, <3>1 DEF ThreadMade
  <2>5. CASE \E p \in FreePids : /\ tpc' = [tpc EXCEPT ![made[a]] = "new"]
                                 /\ TD' = [TD EXCEPT ![made[a]] = stTD[a]]
                                 /\ pid' = [pid EXCEPT ![made[a]] = p]
    <3>1. PICK p \in Pids : /\ tpc' = [tpc EXCEPT ![made[a]] = "new"]
                            /\ TD' = [TD EXCEPT ![made[a]] = stTD[a]]
                            /\ pid' = [pid EXCEPT ![made[a]] = p]
      BY <2>5 DEF FreePids
    <3>2. ASSUME NEW t \in Starts, tpc'[t] # "none"
          PROVE  /\ t <= asked' /\ \A b \in Actors : made'[b] # t
                 /\ TD'[t] \in Table /\ pid'[t] \in Pids
      <4>1. CASE t = made[a]
        BY <1>0, <2>1, <2>2, <2>3, <3>1, <4>1
      <4>2. CASE t # made[a]
        <5>1. tpc[t] # "none" /\ TD'[t] = TD[t] /\ pid'[t] = pid[t]
          BY <1>0, <2>1, <3>1, <3>2, <4>2
        <5>2. /\ t <= asked /\ \A b \in Actors : made[b] # t
              /\ TD[t] \in Table /\ pid[t] \in Pids
          BY <1>0, <5>1 DEF ThreadMade
        <5>3. QED
          BY <2>1, <2>2, <2>3, <5>1, <5>2
      <4>3. QED
        BY <4>1, <4>2
    <3>3. QED
      BY <3>2 DEF ThreadMade
  <2>6. QED
    BY <1>6, <2>4, <2>5 DEF CreateThread
<1>7. ASSUME NEW t \in Starts, WritePid(t) PROVE ThreadMade'
  BY <1>0, <1>7 DEF WritePid, ThreadMade, AtStart, GotoStart, AtThread, GotoThread, ttStart, ttThread, ttHist
<1>8. ASSUME NEW t \in Starts, CallFunction(t) PROVE ThreadMade'
  BY <1>0, <1>8 DEF CallFunction, ThreadMade, AtStart, GotoStart, AtThread, GotoThread, ttStart, ttThread, ttHist
<1>9. ASSUME NEW t \in Starts, stlThreadNameSet(t) PROVE ThreadMade'
  BY <1>0, <1>9 DEF stlThreadNameSet, ThreadMade, AtStart, GotoStart, AtThread, GotoThread, ttStart, ttThread, ttHist
<1>10. ASSUME NEW t \in Starts, EndThread(t) PROVE ThreadMade'
  BY <1>0, <1>10, OwnSlotIs DEF EndThread, ThreadMade, AtStart, GotoStart, AtThread, GotoThread, ttStart, ttThread, ttHist
<1>11. ASSUME NEW t \in Starts, ClearSlot(t) PROVE ThreadMade'
  BY <1>0, <1>11 DEF ClearSlot, ThreadMade, AtStart, GotoStart, AtThread, GotoThread, ttStart, ttThread, ttHist
<1>12. ASSUME NEW t \in Starts, ExitThread(t) PROVE ThreadMade'
  BY <1>0, <1>12 DEF ExitThread, ThreadMade, AtStart, GotoStart, AtThread, GotoThread, ttStart, ttThread, ttHist
<1>13. CASE UNCHANGED ttVars
  BY <1>0, <1>13 DEF ttVars, ThreadMade, AtStart, GotoStart, AtThread, GotoThread, ttStart, ttThread, ttHist
<1>14. QED
  BY <1>1, <1>2, <1>3, <1>4, <1>5, <1>6, <1>7, <1>8, <1>9, <1>10, <1>11, <1>12, <1>13 DEF TtNext, StartStep, ThreadRuns

(* The pid of a thread.                                                    *)
LEMMA TtNextPids ==
  ASSUME TtInv, [TtNext]_ttVars
  PROVE  PidsDiffer'
<1> USE DEF ThreadTypes
<1>0. StartTypes /\ ThreadTypes /\ CallMade /\ ThreadMade /\ PidsDiffer
  BY DEF TtInv, TtTypes, CallsAreOwn
<1>1. ASSUME NEW a \in Actors, CallStart(a) PROVE PidsDiffer'
  BY <1>0, <1>1 DEF CallStart, PidsDiffer, AtStart, GotoStart, AtThread, GotoThread, ttStart, ttThread, ttHist
<1>2. ASSUME NEW a \in Actors, LockTable(a) PROVE PidsDiffer'
  BY <1>0, <1>2 DEF LockTable, PidsDiffer, AtStart, GotoStart, AtThread, GotoThread, ttStart, ttThread, ttHist
<1>3. ASSUME NEW a \in Actors, ScanTable(a) PROVE PidsDiffer'
  BY <1>0, <1>3 DEF ScanTable, PidsDiffer, AtStart, GotoStart, AtThread, GotoThread, ttStart, ttThread, ttHist
<1>4. ASSUME NEW a \in Actors, ClaimSlot(a) PROVE PidsDiffer'
  BY <1>0, <1>4 DEF ClaimSlot, PidsDiffer, AtStart, GotoStart, AtThread, GotoThread, ttStart, ttThread, ttHist
<1>5. ASSUME NEW a \in Actors, FillSlot(a) PROVE PidsDiffer'
  BY <1>0, <1>5 DEF FillSlot, PidsDiffer, AtStart, GotoStart, AtThread, GotoThread, ttStart, ttThread, ttHist
<1>6. ASSUME NEW a \in Actors, CreateThread(a) PROVE PidsDiffer'
  <2>1. made[a] \in Starts /\ tpc[made[a]] = "none"
    BY <1>0, <1>6 DEF CreateThread, AtStart, StartTypes, Actors, MainThread, CallMade, ThreadMade
  <2>2. CASE UNCHANGED <<tpc, TD, pid, name>>
    BY <1>0, <2>2 DEF PidsDiffer
  <2>3. CASE \E p \in FreePids : /\ tpc' = [tpc EXCEPT ![made[a]] = "new"]
                                 /\ pid' = [pid EXCEPT ![made[a]] = p]
    <3>1. PICK p \in FreePids : /\ tpc' = [tpc EXCEPT ![made[a]] = "new"]
                                /\ pid' = [pid EXCEPT ![made[a]] = p]
      BY <2>3
    <3>2. \A t \in Starts : tpc[t] # "none" => pid[t] # p
      BY DEF FreePids
    <3>3. QED
      BY <1>0, <2>1, <3>1, <3>2 DEF PidsDiffer
  <2>4. QED
    BY <1>6, <2>2, <2>3 DEF CreateThread
<1>7. ASSUME NEW t \in Starts, WritePid(t) PROVE PidsDiffer'
  BY <1>0, <1>7 DEF WritePid, PidsDiffer, AtStart, GotoStart, AtThread, GotoThread, ttStart, ttThread, ttHist
<1>8. ASSUME NEW t \in Starts, CallFunction(t) PROVE PidsDiffer'
  BY <1>0, <1>8 DEF CallFunction, PidsDiffer, AtStart, GotoStart, AtThread, GotoThread, ttStart, ttThread, ttHist
<1>9. ASSUME NEW t \in Starts, stlThreadNameSet(t) PROVE PidsDiffer'
  BY <1>0, <1>9 DEF stlThreadNameSet, PidsDiffer, AtStart, GotoStart, AtThread, GotoThread, ttStart, ttThread, ttHist
<1>10. ASSUME NEW t \in Starts, EndThread(t) PROVE PidsDiffer'
  BY <1>0, <1>10 DEF EndThread, PidsDiffer, AtStart, GotoStart, AtThread, GotoThread, ttStart, ttThread, ttHist
<1>11. ASSUME NEW t \in Starts, ClearSlot(t) PROVE PidsDiffer'
  BY <1>0, <1>11 DEF ClearSlot, PidsDiffer, AtStart, GotoStart, AtThread, GotoThread, ttStart, ttThread, ttHist
<1>12. ASSUME NEW t \in Starts, ExitThread(t) PROVE PidsDiffer'
  BY <1>0, <1>12 DEF ExitThread, PidsDiffer, AtStart, GotoStart, AtThread, GotoThread, ttStart, ttThread, ttHist
<1>13. CASE UNCHANGED ttVars
  BY <1>0, <1>13 DEF ttVars, PidsDiffer, AtStart, GotoStart, AtThread, GotoThread, ttStart, ttThread, ttHist
<1>14. QED
  BY <1>1, <1>2, <1>3, <1>4, <1>5, <1>6, <1>7, <1>8, <1>9, <1>10, <1>11, <1>12, <1>13 DEF TtNext, StartStep, ThreadRuns

(* The lock of the table.                                                  *)
LEMMA TtNextLocked ==
  ASSUME TtInv, [TtNext]_ttVars
  PROVE  TableLocked'
<1> USE ThreadTableAssumption DEF StartTypes, LockTypes, Actors, Starts, MainThread
<1>0. StartTypes /\ LockTypes /\ TableLocked
  BY DEF TtInv, TtTypes, CallsAreOwn
<1>1. ASSUME NEW a \in Actors, CallStart(a) PROVE TableLocked'
  BY <1>0, <1>1 DEF CallStart, TableLocked, AtStart, GotoStart, AtThread, GotoThread, ttStart, ttThread, ttHist
<1>2. ASSUME NEW a \in Actors, LockTable(a) PROVE TableLocked'
  BY <1>0, <1>2 DEF LockTable, TableLocked, AtStart, GotoStart, AtThread, GotoThread, ttStart, ttThread, ttHist, TableFree
<1>3. ASSUME NEW a \in Actors, ScanTable(a) PROVE TableLocked'
  BY <1>0, <1>3 DEF ScanTable, TableLocked, AtStart, GotoStart, AtThread, GotoThread, ttStart, ttThread, ttHist
<1>4. ASSUME NEW a \in Actors, ClaimSlot(a) PROVE TableLocked'
  BY <1>0, <1>4 DEF ClaimSlot, TableLocked, AtStart, GotoStart, AtThread, GotoThread, ttStart, ttThread, ttHist
<1>5. ASSUME NEW a \in Actors, FillSlot(a) PROVE TableLocked'
  BY <1>0, <1>5 DEF FillSlot, TableLocked, AtStart, GotoStart, AtThread, GotoThread, ttStart, ttThread, ttHist
<1>6. ASSUME NEW a \in Actors, CreateThread(a) PROVE TableLocked'
  BY <1>0, <1>6 DEF CreateThread, TableLocked, AtStart, GotoStart, AtThread, GotoThread, ttStart, ttThread, ttHist
<1>7. ASSUME NEW t \in Starts, WritePid(t) PROVE TableLocked'
  BY <1>0, <1>7 DEF WritePid, TableLocked, AtStart, GotoStart, AtThread, GotoThread, ttStart, ttThread, ttHist
<1>8. ASSUME NEW t \in Starts, CallFunction(t) PROVE TableLocked'
  BY <1>0, <1>8 DEF CallFunction, TableLocked, AtStart, GotoStart, AtThread, GotoThread, ttStart, ttThread, ttHist
<1>9. ASSUME NEW t \in Starts, stlThreadNameSet(t) PROVE TableLocked'
  BY <1>0, <1>9 DEF stlThreadNameSet, TableLocked, AtStart, GotoStart, AtThread, GotoThread, ttStart, ttThread, ttHist
<1>10. ASSUME NEW t \in Starts, EndThread(t) PROVE TableLocked'
  BY <1>0, <1>10 DEF EndThread, TableLocked, AtStart, GotoStart, AtThread, GotoThread, ttStart, ttThread, ttHist
<1>11. ASSUME NEW t \in Starts, ClearSlot(t) PROVE TableLocked'
  BY <1>0, <1>11 DEF ClearSlot, TableLocked, AtStart, GotoStart, AtThread, GotoThread, ttStart, ttThread, ttHist
<1>12. ASSUME NEW t \in Starts, ExitThread(t) PROVE TableLocked'
  BY <1>0, <1>12 DEF ExitThread, TableLocked, AtStart, GotoStart, AtThread, GotoThread, ttStart, ttThread, ttHist
<1>13. CASE UNCHANGED ttVars
  BY <1>0, <1>13 DEF ttVars, TableLocked, AtStart, GotoStart, AtThread, GotoThread, ttStart, ttThread, ttHist
<1>14. QED
  BY <1>1, <1>2, <1>3, <1>4, <1>5, <1>6, <1>7, <1>8, <1>9, <1>10, <1>11, <1>12, <1>13 DEF TtNext, StartStep, ThreadRuns

(* What the actions write to the table.                                    *)
LEMMA ClaimWrites ==
  ASSUME TtInv, NEW a \in Actors, ClaimSlot(a)
  PROVE  /\ stTD[a] \in Table /\ tIDT'[stTD[a]].iFlgs /\ tIDT'[stTD[a]].iPid = 0
         /\ \A s \in Table : s # stTD[a] => tIDT'[s] = tIDT[s]
<1>1. /\ stTD[a] \in Table /\ tIDT \in [Table -> SlotType]
      /\ tIDT' = [tIDT EXCEPT ![stTD[a]] = [EmptySlot EXCEPT !.iFlgs = TRUE]]
  BY DEF TtInv, TtTypes, ClaimSlot, AtStart, CallsAreOwn, SlotChosen
<1>2. [EmptySlot EXCEPT !.iFlgs = TRUE].iFlgs /\ [EmptySlot EXCEPT !.iFlgs = TRUE].iPid = 0
  BY DEF EmptySlot
<1>3. QED
  BY <1>1, <1>2

LEMMA FillWrites ==
  ASSUME TtInv, NEW a \in Actors, FillSlot(a)
  PROVE  /\ stTD[a] \in Table
         /\ tIDT'[stTD[a]].iFlgs = tIDT[stTD[a]].iFlgs /\ tIDT'[stTD[a]].iPid = tIDT[stTD[a]].iPid
         /\ tIDT'[stTD[a]].start = made[a] /\ tIDT'[stTD[a]].sName = <<made[a], 0>>
         /\ \A s \in Table : s # stTD[a] => tIDT'[s] = tIDT[s]
<1>1. /\ stTD[a] \in Table /\ tIDT \in [Table -> SlotType]
      /\ tIDT' = [tIDT EXCEPT ![stTD[a]].start = made[a], ![stTD[a]].sName = <<made[a], 0>>]
  BY DEF TtInv, TtTypes, FillSlot, AtStart, CallsAreOwn, SlotChosen
<1>2. tIDT[stTD[a]] \in SlotType
  BY <1>1
<1>3. QED
  BY <1>1, <1>2 DEF SlotType

LEMMA PidWrites ==
  ASSUME TtInv, NEW t \in Starts, WritePid(t)
  PROVE  /\ TD[t] \in Table /\ tIDT'[TD[t]].iPid = pid[t] /\ tIDT'[TD[t]].iFlgs = tIDT[TD[t]].iFlgs
         /\ tIDT'[TD[t]].start = tIDT[TD[t]].start /\ tIDT'[TD[t]].sName = tIDT[TD[t]].sName
         /\ \A s \in Table : s # TD[t] => tIDT'[s] = tIDT[s]
<1>1. /\ TD[t] \in Table /\ tIDT \in [Table -> SlotType]
      /\ tIDT' = [tIDT EXCEPT ![TD[t]].iPid = pid[t]]
  BY DEF TtInv, TtTypes, WritePid, AtThread, CallsAreOwn, ThreadMade
<1>2. tIDT[TD[t]] \in SlotType
  BY <1>1
<1>3. QED
  BY <1>1, <1>2 DEF SlotType

LEMMA NameWrites ==
  ASSUME TtInv, NEW t \in Starts, stlThreadNameSet(t)
  PROVE  /\ TD[t] \in Table /\ \A u \in Starts : u # t => name'[u] = name[u]
         /\ \/ /\ tIDT'[TD[t]].iPid = pid[t] /\ tIDT'[TD[t]].iFlgs = tIDT[TD[t]].iFlgs
               /\ tIDT'[TD[t]].iPid = tIDT[TD[t]].iPid
               /\ tIDT'[TD[t]].start = tIDT[TD[t]].start /\ tIDT'[TD[t]].sName = name'[t]
               /\ \A s \in Table : s # TD[t] => tIDT'[s] = tIDT[s]
            \/ tIDT' = tIDT /\ name' = name /\ tIDT[TD[t]].iPid # pid[t]
<1>1. /\ TD[t] \in Table /\ TD[t] # 0 /\ tIDT \in [Table -> SlotType]
      /\ OwnSlot(t) = IF tIDT[TD[t]].iPid = pid[t] THEN TD[t] ELSE 0
  BY OwnSlotIs DEF TtInv, TtTypes, stlThreadNameSet, AtThread
<1>2. tIDT[TD[t]] \in SlotType /\ name \in [Starts -> Actors \X (0 .. MaxNames)]
  BY <1>1 DEF TtInv, TtTypes, ThreadTypes
<1>3. CASE tIDT[TD[t]].iPid = pid[t]
  <2>1. /\ tIDT' = [tIDT EXCEPT ![TD[t]].sName = <<t, names[t] + 1>>]
        /\ name' = [name EXCEPT ![t] = <<t, names[t] + 1>>]
    BY <1>1, <1>3 DEF stlThreadNameSet
  <2>2. QED
    BY <1>1, <1>2, <1>3, <2>1 DEF SlotType
<1>4. CASE tIDT[TD[t]].iPid # pid[t]
  BY <1>1, <1>4 DEF stlThreadNameSet
<1>5. QED
  BY <1>3, <1>4

LEMMA ClearWrites ==
  ASSUME TtInv, NEW t \in Starts, ClearSlot(t)
  PROVE  /\ TD[t] \in Table /\ \A s \in Table : s # TD[t] => tIDT'[s] = tIDT[s]
         /\ \/ /\ \/ tpc[t] = "clear rest" /\ tpc' = [tpc EXCEPT ![t] = "then flag"]
                  \/ tpc[t] = "then rest" /\ tpc' = [tpc EXCEPT ![t] = "exit"]
               /\ tIDT'[TD[t]].iFlgs = tIDT[TD[t]].iFlgs /\ tIDT'[TD[t]].iPid = 0
            \/ /\ \/ tpc[t] = "clear flag" /\ tpc' = [tpc EXCEPT ![t] = "then rest"]
                  \/ tpc[t] = "then flag" /\ tpc' = [tpc EXCEPT ![t] = "exit"]
               /\ ~tIDT'[TD[t]].iFlgs /\ tIDT'[TD[t]].iPid = tIDT[TD[t]].iPid
<1>1. TD[t] \in Table /\ tIDT \in [Table -> SlotType]
  BY DEF TtInv, TtTypes, ClearSlot, AtThread, CallsAreOwn, ThreadMade
<1>2. /\ ClearedRest(tIDT[TD[t]]).iFlgs = tIDT[TD[t]].iFlgs /\ ClearedRest(tIDT[TD[t]]).iPid = 0
      /\ ~ClearedFlag(tIDT[TD[t]]).iFlgs /\ ClearedFlag(tIDT[TD[t]]).iPid = tIDT[TD[t]].iPid
  BY <1>1 DEF ClearedRest, ClearedFlag, EmptySlot, SlotType
<1>3. \/ /\ \/ tpc[t] = "clear rest" /\ tpc' = [tpc EXCEPT ![t] = "then flag"]
            \/ tpc[t] = "then rest" /\ tpc' = [tpc EXCEPT ![t] = "exit"]
         /\ tIDT' = [tIDT EXCEPT ![TD[t]] = ClearedRest(tIDT[TD[t]])]
      \/ /\ \/ tpc[t] = "clear flag" /\ tpc' = [tpc EXCEPT ![t] = "then rest"]
            \/ tpc[t] = "then flag" /\ tpc' = [tpc EXCEPT ![t] = "exit"]
         /\ tIDT' = [tIDT EXCEPT ![TD[t]] = ClearedFlag(tIDT[TD[t]])]
  BY DEF ClearSlot, AtThread, GotoThread
<1>4. QED
  BY <1>1, <1>2, <1>3

(* What each action does, place by place.                                  *)
CallerGoes(a, from, to) ==
  spc[a] = from /\ spc'[a] = to /\ \A b \in Actors : b # a => spc'[b] = spc[b]
ThreadGoes(t, from, to) ==
  tpc[t] = from /\ tpc'[t] = to /\ \A u \in Starts : u # t => tpc'[u] = tpc[u]

CallDoes(a) ==
  /\ CallerGoes(a, "idle", "lock") /\ \A b \in Actors : b # a => made'[b] = made[b]
  /\ UNCHANGED <<tIDT, fatal, stTD, tpc, TD, pid, ttRan, name, early, lost, allUsed>>
LockDoes(a) ==
  /\ CallerGoes(a, "lock", "scan")
  /\ stTD'[a] = 1 /\ \A b \in Actors : b # a => stTD'[b] = stTD[b]
  /\ allUsed'[a] = (\A s \in Table : tIDT[s].iFlgs)
  /\ \A b \in Actors : b # a => allUsed'[b] = allUsed[b]
  /\ UNCHANGED <<tIDT, fatal, made, tpc, TD, pid, ttRan, name, early, lost>>
ScanDoes(a) ==
  /\ spc[a] = "scan"
  /\ \/ stTD[a] > MaxThread /\ fatal' /\ UNCHANGED <<stTD, spc>>
     \/ /\ stTD[a] \in Table /\ tIDT[stTD[a]].iFlgs /\ UNCHANGED <<spc, fatal>>
        /\ stTD'[a] = stTD[a] + 1 /\ \A b \in Actors : b # a => stTD'[b] = stTD[b]
     \/ /\ stTD[a] \in Table /\ ~tIDT[stTD[a]].iFlgs /\ UNCHANGED <<stTD, fatal>>
        /\ CallerGoes(a, "scan", "claim")
  /\ UNCHANGED <<tIDT, made, tpc, TD, pid, ttRan, name, early, lost, allUsed>>
ClaimDoes(a) ==
  /\ CallerGoes(a, "claim", "fill") /\ stTD[a] \in Table
  /\ tIDT'[stTD[a]].iFlgs /\ tIDT'[stTD[a]].iPid = 0
  /\ \A s \in Table : s # stTD[a] => tIDT'[s] = tIDT[s]
  /\ early \subseteq early' /\ early' \subseteq early \cup {made[a]}
  /\ \A t \in Starts : tpc[t] = "then rest" /\ TD[t] = stTD[a] => made[a] \in early'
  /\ UNCHANGED <<fatal, stTD, made, tpc, TD, pid, ttRan, name, lost, allUsed>>
FillDoes(a) ==
  /\ CallerGoes(a, "fill", "create") /\ stTD[a] \in Table
  /\ tIDT'[stTD[a]].iFlgs = tIDT[stTD[a]].iFlgs /\ tIDT'[stTD[a]].iPid = tIDT[stTD[a]].iPid
  /\ tIDT'[stTD[a]].start = made[a] /\ tIDT'[stTD[a]].sName = <<made[a], 0>>
  /\ \A s \in Table : s # stTD[a] => tIDT'[s] = tIDT[s]
  /\ UNCHANGED <<fatal, stTD, made, tpc, TD, pid, ttRan, name, early, lost, allUsed>>
CreateDoes(a) ==
  /\ CallerGoes(a, "create", "idle") /\ stTD[a] \in Table
  /\ made[a] \in Starts /\ tpc[made[a]] = "none"
  /\ stTD'[a] = 0 /\ \A b \in Actors : b # a => stTD'[b] = stTD[b]
  /\ made'[a] = 0 /\ \A b \in Actors : b # a => made'[b] = made[b] /\ made[b] # made[a]
  /\ \/ /\ ThreadGoes(made[a], "none", "new")
        /\ TD'[made[a]] = stTD[a] /\ name'[made[a]] = <<made[a], 0>>
        /\ \A u \in Starts : u # made[a] => TD'[u] = TD[u] /\ pid'[u] = pid[u] /\ name'[u] = name[u]
        /\ UNCHANGED lost
     \/ lost' = lost \cup {stTD[a]} /\ UNCHANGED <<tpc, TD, pid, name>>
  /\ UNCHANGED <<tIDT, fatal, ttRan, early, allUsed>>
PidDoes(t) ==
  /\ ThreadGoes(t, "new", "call") /\ TD[t] \in Table
  /\ tIDT'[TD[t]].iPid = pid[t] /\ tIDT'[TD[t]].iFlgs = tIDT[TD[t]].iFlgs
  /\ tIDT'[TD[t]].start = tIDT[TD[t]].start /\ tIDT'[TD[t]].sName = tIDT[TD[t]].sName
  /\ \A s \in Table : s # TD[t] => tIDT'[s] = tIDT[s]
  /\ UNCHANGED <<fatal, spc, stTD, made, TD, pid, ttRan, name, early, lost, allUsed>>
FunctionDoes(t) ==
  /\ ThreadGoes(t, "call", "run") /\ TD[t] \in Table
  /\ ttRan'[t] = (IF tIDT[TD[t]].start = 0 THEN -1 ELSE tIDT[TD[t]].start)
  /\ \A u \in Starts : u # t => ttRan'[u] = ttRan[u]
  /\ UNCHANGED <<tIDT, fatal, spc, stTD, made, TD, pid, name, early, lost, allUsed>>
NameDoes(t) ==
  /\ tpc[t] = "run" /\ TD[t] \in Table /\ \A u \in Starts : u # t => name'[u] = name[u]
  /\ \/ /\ tIDT'[TD[t]].iPid = tIDT[TD[t]].iPid /\ tIDT'[TD[t]].iFlgs = tIDT[TD[t]].iFlgs
        /\ tIDT'[TD[t]].start = tIDT[TD[t]].start /\ tIDT'[TD[t]].sName = name'[t]
        /\ \A s \in Table : s # TD[t] => tIDT'[s] = tIDT[s]
     \/ tIDT' = tIDT /\ name' = name
  /\ UNCHANGED <<fatal, spc, stTD, made, tpc, TD, pid, ttRan, early, lost, allUsed>>
EndDoes(t) ==
  /\ tpc[t] = "run" /\ TD[t] \in Table /\ spc[t] = "idle"
  /\ \/ (ThreadGoes(t, "run", "clear rest") \/ ThreadGoes(t, "run", "clear flag")) /\ UNCHANGED lost
     \/ ThreadGoes(t, "run", "exit") /\ lost' = lost \cup {TD[t]} /\ tIDT[TD[t]].iPid # pid[t]
  /\ UNCHANGED <<tIDT, fatal, spc, stTD, made, TD, pid, ttRan, name, early, allUsed>>
ClearDoes(t) ==
  /\ TD[t] \in Table /\ \A s \in Table : s # TD[t] => tIDT'[s] = tIDT[s]
  /\ \/ /\ ThreadGoes(t, "clear rest", "then flag") \/ ThreadGoes(t, "then rest", "exit")
        /\ tIDT'[TD[t]].iFlgs = tIDT[TD[t]].iFlgs /\ tIDT'[TD[t]].iPid = 0
     \/ /\ ThreadGoes(t, "clear flag", "then rest") \/ ThreadGoes(t, "then flag", "exit")
        /\ ~tIDT'[TD[t]].iFlgs /\ tIDT'[TD[t]].iPid = tIDT[TD[t]].iPid
  /\ UNCHANGED <<fatal, spc, stTD, made, TD, pid, ttRan, name, early, lost, allUsed>>
ExitDoes(t) ==
  /\ ThreadGoes(t, "exit", "none")
  /\ UNCHANGED <<tIDT, fatal, spc, stTD, made, TD, pid, ttRan, name, early, lost, allUsed>>

LEMMA CallDoesLemma ==
  ASSUME TtInv, NEW a \in Actors, CallStart(a)
  PROVE  CallDoes(a)
<1>0. StartTypes /\ ThreadTypes /\ CallMade /\ SlotChosen /\ ThreadMade /\ allUsed \in [Actors -> BOOLEAN]
  BY DEF TtInv, TtTypes, HistTypes, CallsAreOwn
<1>1. QED
  BY <1>0 DEF CallStart, CallDoes, StartTypes, AtStart, GotoStart, AtThread, GotoThread, ttStart, ttThread, ttHist, CallerGoes, ThreadGoes

LEMMA LockDoesLemma ==
  ASSUME TtInv, NEW a \in Actors, LockTable(a)
  PROVE  LockDoes(a)
<1>0. StartTypes /\ ThreadTypes /\ CallMade /\ SlotChosen /\ ThreadMade /\ allUsed \in [Actors -> BOOLEAN]
  BY DEF TtInv, TtTypes, HistTypes, CallsAreOwn
<1>1. QED
  BY <1>0 DEF LockTable, LockDoes, StartTypes, AtStart, GotoStart, AtThread, GotoThread, ttStart, ttThread, ttHist, CallerGoes, ThreadGoes

LEMMA ScanDoesLemma ==
  ASSUME TtInv, NEW a \in Actors, ScanTable(a)
  PROVE  ScanDoes(a)
<1>0. StartTypes /\ ThreadTypes /\ CallMade /\ SlotChosen /\ ThreadMade /\ allUsed \in [Actors -> BOOLEAN]
  BY DEF TtInv, TtTypes, HistTypes, CallsAreOwn
<1>1. stTD[a] <= LastThread /\ spc[a] = "scan" => stTD[a] \in Table
  BY <1>0, ThreadTableAssumption DEF StartTypes, SlotChosen, LastThread, Table
<1>2. QED
  BY <1>0, <1>1 DEF ScanTable, ScanDoes, StartTypes, LastThread, AtStart, GotoStart, AtThread, GotoThread, ttStart, ttThread, ttHist, CallerGoes, ThreadGoes

LEMMA ClaimDoesLemma ==
  ASSUME TtInv, NEW a \in Actors, ClaimSlot(a)
  PROVE  ClaimDoes(a)
<1>0. StartTypes /\ ThreadTypes /\ CallMade /\ SlotChosen /\ ThreadMade /\ allUsed \in [Actors -> BOOLEAN]
  BY DEF TtInv, TtTypes, HistTypes, CallsAreOwn
<1>1. /\ CallerGoes(a, "claim", "fill")
      /\ UNCHANGED <<fatal, stTD, made, tpc, TD, pid, ttRan, name, lost, allUsed>>
  BY <1>0 DEF ClaimSlot, StartTypes, AtStart, GotoStart, AtThread, GotoThread, ttStart, ttThread, ttHist, CallerGoes, ThreadGoes
<1>2. /\ early \subseteq early' /\ early' \subseteq early \cup {made[a]}
      /\ \A t \in Starts : tpc[t] = "then rest" /\ TD[t] = stTD[a] => made[a] \in early'
  BY DEF ClaimSlot, Clearing
<1>3. QED
  BY <1>1, <1>2, ClaimWrites DEF ClaimDoes

LEMMA FillDoesLemma ==
  ASSUME TtInv, NEW a \in Actors, FillSlot(a)
  PROVE  FillDoes(a)
<1>0. StartTypes /\ ThreadTypes /\ CallMade /\ SlotChosen /\ ThreadMade /\ allUsed \in [Actors -> BOOLEAN]
  BY DEF TtInv, TtTypes, HistTypes, CallsAreOwn
<1>1. /\ CallerGoes(a, "fill", "create")
      /\ UNCHANGED <<fatal, stTD, made, tpc, TD, pid, ttRan, name, early, lost, allUsed>>
  BY <1>0 DEF FillSlot, StartTypes, AtStart, GotoStart, AtThread, GotoThread, ttStart, ttThread, ttHist, CallerGoes, ThreadGoes
<1>2. QED
  BY <1>1, FillWrites DEF FillDoes

LEMMA CreateDoesLemma ==
  ASSUME TtInv, NEW a \in Actors, CreateThread(a)
  PROVE  CreateDoes(a)
<1>0. StartTypes /\ ThreadTypes /\ CallMade /\ SlotChosen /\ ThreadMade /\ allUsed \in [Actors -> BOOLEAN]
  BY DEF TtInv, TtTypes, HistTypes, CallsAreOwn
<1>1. /\ made[a] \in Starts /\ tpc[made[a]] = "none" /\ spc[a] = "create" /\ stTD[a] \in Table
      /\ \A b \in Actors : made[b] = made[a] => b = a
  BY <1>0 DEF CreateThread, AtStart, StartTypes, Actors, MainThread, CallMade, SlotChosen, ThreadMade
<1>2. /\ CallerGoes(a, "create", "idle")
      /\ stTD'[a] = 0 /\ \A b \in Actors : b # a => stTD'[b] = stTD[b]
      /\ made'[a] = 0 /\ \A b \in Actors : b # a => made'[b] = made[b]
      /\ UNCHANGED <<tIDT, fatal, ttRan, early, allUsed>>
  BY <1>0 DEF CreateThread, StartTypes, AtStart, GotoStart, AtThread, GotoThread, ttStart, ttThread, ttHist, CallerGoes, ThreadGoes
<1>3. \/ \E p \in FreePids : /\ tpc' = [tpc EXCEPT ![made[a]] = "new"]
                             /\ TD' = [TD EXCEPT ![made[a]] = stTD[a]]
                             /\ pid' = [pid EXCEPT ![made[a]] = p]
                             /\ name' = [name EXCEPT ![made[a]] = <<made[a], 0>>]
                             /\ UNCHANGED lost
      \/ lost' = lost \cup {stTD[a]} /\ UNCHANGED <<tpc, TD, pid, name>>
  BY DEF CreateThread
<1>4. \/ /\ ThreadGoes(made[a], "none", "new")
         /\ TD'[made[a]] = stTD[a] /\ name'[made[a]] = <<made[a], 0>>
         /\ \A u \in Starts : u # made[a] => TD'[u] = TD[u] /\ pid'[u] = pid[u] /\ name'[u] = name[u]
         /\ UNCHANGED lost
      \/ lost' = lost \cup {stTD[a]} /\ UNCHANGED <<tpc, TD, pid, name>>
  BY <1>0, <1>1, <1>3 DEF ThreadTypes, ThreadGoes
<1>5. QED
  BY <1>1, <1>2, <1>4 DEF CreateDoes

LEMMA PidDoesLemma ==
  ASSUME TtInv, NEW t \in Starts, WritePid(t)
  PROVE  PidDoes(t)
<1>0. StartTypes /\ ThreadTypes /\ CallMade /\ SlotChosen /\ ThreadMade /\ allUsed \in [Actors -> BOOLEAN]
  BY DEF TtInv, TtTypes, HistTypes, CallsAreOwn
<1>1. /\ ThreadGoes(t, "new", "call")
      /\ UNCHANGED <<fatal, spc, stTD, made, TD, pid, ttRan, name, early, lost, allUsed>>
  BY <1>0 DEF WritePid, ThreadTypes, AtStart, GotoStart, AtThread, GotoThread, ttStart, ttThread, ttHist, CallerGoes, ThreadGoes
<1>2. QED
  BY <1>1, PidWrites DEF PidDoes

LEMMA FunctionDoesLemma ==
  ASSUME TtInv, NEW t \in Starts, CallFunction(t)
  PROVE  FunctionDoes(t)
<1>0. StartTypes /\ ThreadTypes /\ CallMade /\ SlotChosen /\ ThreadMade /\ allUsed \in [Actors -> BOOLEAN]
  BY DEF TtInv, TtTypes, HistTypes, CallsAreOwn
<1>1. QED
  BY <1>0 DEF CallFunction, FunctionDoes, ThreadTypes, ThreadMade, AtStart, GotoStart, AtThread, GotoThread, ttStart, ttThread, ttHist, CallerGoes, ThreadGoes

LEMMA NameDoesLemma ==
  ASSUME TtInv, NEW t \in Starts, stlThreadNameSet(t)
  PROVE  NameDoes(t)
<1>0. StartTypes /\ ThreadTypes /\ CallMade /\ SlotChosen /\ ThreadMade /\ allUsed \in [Actors -> BOOLEAN]
  BY DEF TtInv, TtTypes, HistTypes, CallsAreOwn
<1>1. /\ tpc[t] = "run"
      /\ UNCHANGED <<fatal, spc, stTD, made, tpc, TD, pid, ttRan, early, lost, allUsed>>
  BY DEF stlThreadNameSet, AtStart, GotoStart, AtThread, GotoThread, ttStart, ttThread, ttHist, CallerGoes, ThreadGoes
<1>2. QED
  BY <1>1, NameWrites DEF NameDoes

LEMMA EndDoesLemma ==
  ASSUME TtInv, NEW t \in Starts, EndThread(t)
  PROVE  EndDoes(t)
<1>0. StartTypes /\ ThreadTypes /\ CallMade /\ SlotChosen /\ ThreadMade /\ allUsed \in [Actors -> BOOLEAN]
  BY DEF TtInv, TtTypes, HistTypes, CallsAreOwn
<1>1. /\ tpc[t] = "run" /\ spc[t] = "idle"
      /\ UNCHANGED <<tIDT, fatal, spc, stTD, made, pid, ttRan, name, early, allUsed>>
  BY DEF EndThread, IdleCaller, AtStart, GotoStart, AtThread, GotoThread, ttStart, ttThread, ttHist, CallerGoes, ThreadGoes
<1>2. /\ OwnSlot(t) = (IF tIDT[TD[t]].iPid = pid[t] THEN TD[t] ELSE 0)
      /\ TD[t] \in Table /\ TD[t] # 0
  BY <1>1, OwnSlotIs
<1>3. \/ /\ UNCHANGED TD \/ (OwnSlot(t) # 0 /\ TD' = [TD EXCEPT ![t] = OwnSlot(t)])
         /\ tpc' = [tpc EXCEPT ![t] = "clear rest"] \/ tpc' = [tpc EXCEPT ![t] = "clear flag"]
         /\ UNCHANGED lost
      \/ /\ OwnSlot(t) = 0 /\ lost' = lost \cup {TD[t]}
         /\ tpc' = [tpc EXCEPT ![t] = "exit"] /\ UNCHANGED TD
  BY DEF EndThread, GotoThread
<1>4. UNCHANGED TD
  <2>1. UNCHANGED TD \/ TD' = [TD EXCEPT ![t] = TD[t]]
    BY <1>2, <1>3
  <2>2. TD \in [Starts -> 0 .. MaxThread]
    BY <1>0 DEF ThreadTypes
  <2>3. QED
    BY <2>1, <2>2
<1>5. QED
  BY <1>0, <1>1, <1>2, <1>3, <1>4 DEF EndDoes, ThreadTypes, ThreadGoes

LEMMA ClearDoesLemma ==
  ASSUME TtInv, NEW t \in Starts, ClearSlot(t)
  PROVE  ClearDoes(t)
<1>0. StartTypes /\ ThreadTypes /\ CallMade /\ SlotChosen /\ ThreadMade /\ allUsed \in [Actors -> BOOLEAN]
  BY DEF TtInv, TtTypes, HistTypes, CallsAreOwn
<1>1. UNCHANGED <<fatal, spc, stTD, made, TD, pid, ttRan, name, early, lost, allUsed>>
  BY DEF ClearSlot, AtStart, GotoStart, AtThread, GotoThread, ttStart, ttThread, ttHist, CallerGoes, ThreadGoes
<1>2. ASSUME NEW to, tpc' = [tpc EXCEPT ![t] = to]
      PROVE  tpc'[t] = to /\ \A u \in Starts : u # t => tpc'[u] = tpc[u]
  BY <1>0, <1>2 DEF ThreadTypes
<1>3. QED
  BY <1>1, <1>2, ClearWrites DEF ClearDoes, ThreadGoes

LEMMA ExitDoesLemma ==
  ASSUME TtInv, NEW t \in Starts, ExitThread(t)
  PROVE  ExitDoes(t)
<1>0. StartTypes /\ ThreadTypes /\ CallMade /\ SlotChosen /\ ThreadMade /\ allUsed \in [Actors -> BOOLEAN]
  BY DEF TtInv, TtTypes, HistTypes, CallsAreOwn
<1>1. QED
  BY <1>0 DEF ExitThread, ExitDoes, ThreadTypes, AtStart, GotoStart, AtThread, GotoThread, ttStart, ttThread, ttHist, CallerGoes, ThreadGoes

(* A pid in the table is that of a thread whose slot it is.                *)
LEMMA TtNextPid ==
  ASSUME TtInv, [TtNext]_ttVars
  PROVE  PidInTable'
<1>0. PidInTable
  BY DEF TtInv, TtTypes, CallsAreOwn
<1>1. ASSUME NEW a \in Actors, CallStart(a) PROVE PidInTable'
  <2>1. CallDoes(a)
    BY <1>1, CallDoesLemma
  <2>2. QED
    <3>1. UNCHANGED <<tIDT, tpc, TD, pid>>
      BY <2>1 DEF CallDoes
    <3>2. QED
      BY <1>0, <3>1 DEF PidInTable
<1>2. ASSUME NEW a \in Actors, LockTable(a) PROVE PidInTable'
  <2>1. LockDoes(a)
    BY <1>2, LockDoesLemma
  <2>2. QED
    <3>1. UNCHANGED <<tIDT, tpc, TD, pid>>
      BY <2>1 DEF LockDoes
    <3>2. QED
      BY <1>0, <3>1 DEF PidInTable
<1>3. ASSUME NEW a \in Actors, ScanTable(a) PROVE PidInTable'
  <2>1. ScanDoes(a)
    BY <1>3, ScanDoesLemma
  <2>2. QED
    <3>1. UNCHANGED <<tIDT, tpc, TD, pid>>
      BY <2>1 DEF ScanDoes
    <3>2. QED
      BY <1>0, <3>1 DEF PidInTable
<1>4. ASSUME NEW a \in Actors, ClaimSlot(a) PROVE PidInTable'
  <2>1. ClaimDoes(a)
    BY <1>4, ClaimDoesLemma
  <2>2. ASSUME NEW s \in Table, tIDT'[s].iPid # 0
        PROVE  \E u \in Starts : /\ tpc'[u] \in {"call", "run", "clear rest", "clear flag", "then rest"}
                                    /\ TD'[u] = s /\ pid'[u] = tIDT'[s].iPid
    <3>1. tIDT[s].iPid # 0 /\ tIDT'[s].iPid = tIDT[s].iPid
      BY <2>1, <2>2 DEF ClaimDoes
    <3>2. PICK u \in Starts : tpc[u] \in {"call", "run", "clear rest", "clear flag", "then rest"} /\ TD[u] = s /\ pid[u] = tIDT[s].iPid
      BY <1>0, <3>1 DEF PidInTable
    <3>3. tpc'[u] \in {"call", "run", "clear rest", "clear flag", "then rest"} /\ TD'[u] = s /\ pid'[u] = tIDT'[s].iPid
      BY <2>1, <2>2, <3>1, <3>2 DEF ClaimDoes, CallerGoes, ThreadGoes
    <3>4. QED
      BY <3>3
  <2>3. QED
    BY <2>2 DEF PidInTable
<1>5. ASSUME NEW a \in Actors, FillSlot(a) PROVE PidInTable'
  <2>1. FillDoes(a)
    BY <1>5, FillDoesLemma
  <2>2. ASSUME NEW s \in Table, tIDT'[s].iPid # 0
        PROVE  \E u \in Starts : /\ tpc'[u] \in {"call", "run", "clear rest", "clear flag", "then rest"}
                                    /\ TD'[u] = s /\ pid'[u] = tIDT'[s].iPid
    <3>1. tIDT[s].iPid # 0 /\ tIDT'[s].iPid = tIDT[s].iPid
      BY <2>1, <2>2 DEF FillDoes
    <3>2. PICK u \in Starts : tpc[u] \in {"call", "run", "clear rest", "clear flag", "then rest"} /\ TD[u] = s /\ pid[u] = tIDT[s].iPid
      BY <1>0, <3>1 DEF PidInTable
    <3>3. tpc'[u] \in {"call", "run", "clear rest", "clear flag", "then rest"} /\ TD'[u] = s /\ pid'[u] = tIDT'[s].iPid
      BY <2>1, <2>2, <3>1, <3>2 DEF FillDoes, CallerGoes, ThreadGoes
    <3>4. QED
      BY <3>3
  <2>3. QED
    BY <2>2 DEF PidInTable
<1>6. ASSUME NEW a \in Actors, CreateThread(a) PROVE PidInTable'
  <2>1. CreateDoes(a)
    BY <1>6, CreateDoesLemma
  <2>2. ASSUME NEW s \in Table, tIDT'[s].iPid # 0
        PROVE  \E u \in Starts : /\ tpc'[u] \in {"call", "run", "clear rest", "clear flag", "then rest"}
                                    /\ TD'[u] = s /\ pid'[u] = tIDT'[s].iPid
    <3>1. tIDT[s].iPid # 0 /\ tIDT'[s].iPid = tIDT[s].iPid
      BY <2>1, <2>2 DEF CreateDoes
    <3>2. PICK u \in Starts : tpc[u] \in {"call", "run", "clear rest", "clear flag", "then rest"} /\ TD[u] = s /\ pid[u] = tIDT[s].iPid
      BY <1>0, <3>1 DEF PidInTable
    <3>3. tpc'[u] \in {"call", "run", "clear rest", "clear flag", "then rest"} /\ TD'[u] = s /\ pid'[u] = tIDT'[s].iPid
      BY <2>1, <2>2, <3>1, <3>2 DEF CreateDoes, CallerGoes, ThreadGoes
    <3>4. QED
      BY <3>3
  <2>3. QED
    BY <2>2 DEF PidInTable
<1>7. ASSUME NEW t \in Starts, WritePid(t) PROVE PidInTable'
  <2>1. PidDoes(t)
    BY <1>7, PidDoesLemma
  <2>2. ASSUME NEW s \in Table, tIDT'[s].iPid # 0
        PROVE  \E u \in Starts : /\ tpc'[u] \in {"call", "run", "clear rest", "clear flag", "then rest"}
                                    /\ TD'[u] = s /\ pid'[u] = tIDT'[s].iPid
    <3>1. CASE s = TD[t]
      BY <2>1, <3>1 DEF PidDoes, ThreadGoes
    <3>2. CASE s # TD[t]
      <4>1. tIDT[s].iPid # 0 /\ tIDT'[s].iPid = tIDT[s].iPid
        BY <2>1, <2>2, <3>2 DEF PidDoes
      <4>2. PICK u \in Starts : tpc[u] \in {"call", "run", "clear rest", "clear flag", "then rest"} /\ TD[u] = s /\ pid[u] = tIDT[s].iPid
        BY <1>0, <4>1 DEF PidInTable
      <4>3. tpc'[u] \in {"call", "run", "clear rest", "clear flag", "then rest"} /\ TD'[u] = s /\ pid'[u] = tIDT'[s].iPid
        BY <2>1, <4>1, <4>2 DEF PidDoes, ThreadGoes
      <4>4. QED
        BY <4>3
    <3>3. QED
      BY <3>1, <3>2
  <2>3. QED
    BY <2>2 DEF PidInTable
<1>8. ASSUME NEW t \in Starts, CallFunction(t) PROVE PidInTable'
  <2>1. FunctionDoes(t)
    BY <1>8, FunctionDoesLemma
  <2>2. ASSUME NEW s \in Table, tIDT'[s].iPid # 0
        PROVE  \E u \in Starts : /\ tpc'[u] \in {"call", "run", "clear rest", "clear flag", "then rest"}
                                    /\ TD'[u] = s /\ pid'[u] = tIDT'[s].iPid
    <3>1. tIDT[s].iPid # 0 /\ tIDT'[s].iPid = tIDT[s].iPid
      BY <2>1, <2>2 DEF FunctionDoes
    <3>2. PICK u \in Starts : tpc[u] \in {"call", "run", "clear rest", "clear flag", "then rest"} /\ TD[u] = s /\ pid[u] = tIDT[s].iPid
      BY <1>0, <3>1 DEF PidInTable
    <3>3. tpc'[u] \in {"call", "run", "clear rest", "clear flag", "then rest"} /\ TD'[u] = s /\ pid'[u] = tIDT'[s].iPid
      BY <2>1, <2>2, <3>1, <3>2 DEF FunctionDoes, CallerGoes, ThreadGoes
    <3>4. QED
      BY <3>3
  <2>3. QED
    BY <2>2 DEF PidInTable
<1>9. ASSUME NEW t \in Starts, stlThreadNameSet(t) PROVE PidInTable'
  <2>1. NameDoes(t)
    BY <1>9, NameDoesLemma
  <2>2. ASSUME NEW s \in Table, tIDT'[s].iPid # 0
        PROVE  \E u \in Starts : /\ tpc'[u] \in {"call", "run", "clear rest", "clear flag", "then rest"}
                                    /\ TD'[u] = s /\ pid'[u] = tIDT'[s].iPid
    <3>1. tIDT[s].iPid # 0 /\ tIDT'[s].iPid = tIDT[s].iPid
      BY <2>1, <2>2 DEF NameDoes
    <3>2. PICK u \in Starts : tpc[u] \in {"call", "run", "clear rest", "clear flag", "then rest"} /\ TD[u] = s /\ pid[u] = tIDT[s].iPid
      BY <1>0, <3>1 DEF PidInTable
    <3>3. tpc'[u] \in {"call", "run", "clear rest", "clear flag", "then rest"} /\ TD'[u] = s /\ pid'[u] = tIDT'[s].iPid
      BY <2>1, <2>2, <3>1, <3>2 DEF NameDoes, CallerGoes, ThreadGoes
    <3>4. QED
      BY <3>3
  <2>3. QED
    BY <2>2 DEF PidInTable
<1>10. ASSUME NEW t \in Starts, EndThread(t) PROVE PidInTable'
  <2>1. EndDoes(t)
    BY <1>10, EndDoesLemma
  <2>2. ASSUME NEW s \in Table, tIDT'[s].iPid # 0
        PROVE  \E u \in Starts : /\ tpc'[u] \in {"call", "run", "clear rest", "clear flag", "then rest"}
                                    /\ TD'[u] = s /\ pid'[u] = tIDT'[s].iPid
    <3>1. tIDT[s].iPid # 0 /\ tIDT'[s].iPid = tIDT[s].iPid
      BY <2>1, <2>2 DEF EndDoes
    <3>2. PICK u \in Starts : tpc[u] \in {"call", "run", "clear rest", "clear flag", "then rest"} /\ TD[u] = s /\ pid[u] = tIDT[s].iPid
      BY <1>0, <3>1 DEF PidInTable
    <3>3. tpc'[u] \in {"call", "run", "clear rest", "clear flag", "then rest"} /\ TD'[u] = s /\ pid'[u] = tIDT'[s].iPid
      BY <2>1, <2>2, <3>1, <3>2 DEF EndDoes, CallerGoes, ThreadGoes
    <3>4. QED
      BY <3>3
  <2>3. QED
    BY <2>2 DEF PidInTable
<1>11. ASSUME NEW t \in Starts, ClearSlot(t) PROVE PidInTable'
  <2>1. ClearDoes(t)
    BY <1>11, ClearDoesLemma
  <2>2. ASSUME NEW s \in Table, tIDT'[s].iPid # 0
        PROVE  \E u \in Starts : /\ tpc'[u] \in {"call", "run", "clear rest", "clear flag", "then rest"}
                                    /\ TD'[u] = s /\ pid'[u] = tIDT'[s].iPid
    <3>1. tIDT[s].iPid # 0 /\ tIDT'[s].iPid = tIDT[s].iPid
      BY <2>1, <2>2 DEF ClearDoes
    <3>2. PICK u \in Starts : tpc[u] \in {"call", "run", "clear rest", "clear flag", "then rest"} /\ TD[u] = s /\ pid[u] = tIDT[s].iPid
      BY <1>0, <3>1 DEF PidInTable
    <3>3. tpc'[u] \in {"call", "run", "clear rest", "clear flag", "then rest"} /\ TD'[u] = s /\ pid'[u] = tIDT'[s].iPid
      BY <2>1, <2>2, <3>1, <3>2 DEF ClearDoes, CallerGoes, ThreadGoes
    <3>4. QED
      BY <3>3
  <2>3. QED
    BY <2>2 DEF PidInTable
<1>12. ASSUME NEW t \in Starts, ExitThread(t) PROVE PidInTable'
  <2>1. ExitDoes(t)
    BY <1>12, ExitDoesLemma
  <2>2. QED
    BY <1>0, <2>1 DEF ExitDoes, CallerGoes, ThreadGoes, PidInTable, TtAlive
<1>13. CASE UNCHANGED ttVars
  BY <1>0, <1>13 DEF ttVars, ttStart, ttThread, ttHist, PidInTable, TtAlive
<1>14. QED
  BY <1>1, <1>2, <1>3, <1>4, <1>5, <1>6, <1>7, <1>8, <1>9, <1>10, <1>11, <1>12, <1>13 DEF TtNext, StartStep, ThreadRuns

(* Who fills or holds a slot after a step, and what is lost by it.         *)
FilledBefore(b) == (Filling(b) \/ ClaimSlot(b)) /\ stTD'[b] = stTD[b] /\ made'[b] = made[b]
HeldBefore(u) ==
  \/ Holding(u) /\ TD'[u] = TD[u]
  \/ \E a \in Actors : /\ CreateThread(a) /\ made[a] = u /\ Filling(a)
                       /\ TD'[u] = stTD[a] /\ tpc'[u] = "new"
LostByStep ==
  \/ lost' = lost
  \/ \E a \in Actors : CreateThread(a) /\ lost' = lost \cup {stTD[a]}
  \/ \E t \in Starts : EndThread(t) /\ lost' = lost \cup {TD[t]} /\ tpc'[t] = "exit"

(* Who fills a slot did so before, or has just claimed it.                 *)
LEMMA FillersLemma ==
  ASSUME TtInv, [TtNext]_ttVars, NEW b \in Actors, Filling(b)'
  PROVE  FilledBefore(b)
<1>1. ASSUME NEW a \in Actors, CallStart(a) PROVE FilledBefore(b)
  <2>1. CallDoes(a)
    BY <1>1, CallDoesLemma
  <2>2. QED
    BY <1>1, <2>1 DEF CallDoes, CallerGoes, ThreadGoes, Filling, FilledBefore
<1>2. ASSUME NEW a \in Actors, LockTable(a) PROVE FilledBefore(b)
  <2>1. LockDoes(a)
    BY <1>2, LockDoesLemma
  <2>2. QED
    BY <1>2, <2>1 DEF LockDoes, CallerGoes, ThreadGoes, Filling, FilledBefore
<1>3. ASSUME NEW a \in Actors, ScanTable(a) PROVE FilledBefore(b)
  <2>1. ScanDoes(a)
    BY <1>3, ScanDoesLemma
  <2>2. QED
    BY <1>3, <2>1 DEF ScanDoes, CallerGoes, ThreadGoes, Filling, FilledBefore
<1>4. ASSUME NEW a \in Actors, ClaimSlot(a) PROVE FilledBefore(b)
  <2>1. ClaimDoes(a)
    BY <1>4, ClaimDoesLemma
  <2>2. QED
    BY <1>4, <2>1 DEF ClaimDoes, CallerGoes, ThreadGoes, Filling, FilledBefore
<1>5. ASSUME NEW a \in Actors, FillSlot(a) PROVE FilledBefore(b)
  <2>1. FillDoes(a)
    BY <1>5, FillDoesLemma
  <2>2. QED
    BY <1>5, <2>1 DEF FillDoes, CallerGoes, ThreadGoes, Filling, FilledBefore
<1>6. ASSUME NEW a \in Actors, CreateThread(a) PROVE FilledBefore(b)
  <2>1. CreateDoes(a)
    BY <1>6, CreateDoesLemma
  <2>2. QED
    BY <1>6, <2>1 DEF CreateDoes, CallerGoes, ThreadGoes, Filling, FilledBefore
<1>7. ASSUME NEW t \in Starts, WritePid(t) PROVE FilledBefore(b)
  <2>1. PidDoes(t)
    BY <1>7, PidDoesLemma
  <2>2. QED
    BY <1>7, <2>1 DEF PidDoes, CallerGoes, ThreadGoes, Filling, FilledBefore
<1>8. ASSUME NEW t \in Starts, CallFunction(t) PROVE FilledBefore(b)
  <2>1. FunctionDoes(t)
    BY <1>8, FunctionDoesLemma
  <2>2. QED
    BY <1>8, <2>1 DEF FunctionDoes, CallerGoes, ThreadGoes, Filling, FilledBefore
<1>9. ASSUME NEW t \in Starts, stlThreadNameSet(t) PROVE FilledBefore(b)
  <2>1. NameDoes(t)
    BY <1>9, NameDoesLemma
  <2>2. QED
    BY <1>9, <2>1 DEF NameDoes, CallerGoes, ThreadGoes, Filling, FilledBefore
<1>10. ASSUME NEW t \in Starts, EndThread(t) PROVE FilledBefore(b)
  <2>1. EndDoes(t)
    BY <1>10, EndDoesLemma
  <2>2. QED
    BY <1>10, <2>1 DEF EndDoes, CallerGoes, ThreadGoes, Filling, FilledBefore
<1>11. ASSUME NEW t \in Starts, ClearSlot(t) PROVE FilledBefore(b)
  <2>1. ClearDoes(t)
    BY <1>11, ClearDoesLemma
  <2>2. QED
    BY <1>11, <2>1 DEF ClearDoes, CallerGoes, ThreadGoes, Filling, FilledBefore
<1>12. ASSUME NEW t \in Starts, ExitThread(t) PROVE FilledBefore(b)
  <2>1. ExitDoes(t)
    BY <1>12, ExitDoesLemma
  <2>2. QED
    BY <1>12, <2>1 DEF ExitDoes, CallerGoes, ThreadGoes, Filling, FilledBefore
<1>13. CASE UNCHANGED ttVars
  BY <1>13 DEF ttVars, ttStart, Filling, FilledBefore
<1>14. QED
  BY <1>1, <1>2, <1>3, <1>4, <1>5, <1>6, <1>7, <1>8, <1>9, <1>10, <1>11, <1>12, <1>13 DEF TtNext, StartStep, ThreadRuns

(* Who holds a slot did so before, or has just been made for it.           *)
LEMMA HoldersLemma ==
  ASSUME TtInv, [TtNext]_ttVars, NEW u \in Starts, Holding(u)'
  PROVE  HeldBefore(u)
<1>1. ASSUME NEW a \in Actors, CallStart(a) PROVE HeldBefore(u)
  <2>1. CallDoes(a)
    BY <1>1, CallDoesLemma
  <2>2. QED
    BY <1>1, <2>1 DEF CallDoes, CallerGoes, ThreadGoes, Holding, TtAlive, HeldBefore
<1>2. ASSUME NEW a \in Actors, LockTable(a) PROVE HeldBefore(u)
  <2>1. LockDoes(a)
    BY <1>2, LockDoesLemma
  <2>2. QED
    BY <1>2, <2>1 DEF LockDoes, CallerGoes, ThreadGoes, Holding, TtAlive, HeldBefore
<1>3. ASSUME NEW a \in Actors, ScanTable(a) PROVE HeldBefore(u)
  <2>1. ScanDoes(a)
    BY <1>3, ScanDoesLemma
  <2>2. QED
    BY <1>3, <2>1 DEF ScanDoes, CallerGoes, ThreadGoes, Holding, TtAlive, HeldBefore
<1>4. ASSUME NEW a \in Actors, ClaimSlot(a) PROVE HeldBefore(u)
  <2>1. ClaimDoes(a)
    BY <1>4, ClaimDoesLemma
  <2>2. QED
    BY <1>4, <2>1 DEF ClaimDoes, CallerGoes, ThreadGoes, Holding, TtAlive, HeldBefore
<1>5. ASSUME NEW a \in Actors, FillSlot(a) PROVE HeldBefore(u)
  <2>1. FillDoes(a)
    BY <1>5, FillDoesLemma
  <2>2. QED
    BY <1>5, <2>1 DEF FillDoes, CallerGoes, ThreadGoes, Holding, TtAlive, HeldBefore
<1>6. ASSUME NEW a \in Actors, CreateThread(a) PROVE HeldBefore(u)
  <2>1. CreateDoes(a)
    BY <1>6, CreateDoesLemma
  <2>2. CASE u = made[a] /\ TD'[u] = stTD[a] /\ tpc'[u] = "new"
    BY <1>6, <2>1, <2>2 DEF CreateDoes, CallerGoes, Filling, HeldBefore
  <2>3. CASE tpc'[u] = tpc[u] /\ TD'[u] = TD[u]
    BY <2>3 DEF Holding, TtAlive, HeldBefore
  <2>4. QED
    BY <2>1, <2>2, <2>3 DEF CreateDoes, ThreadGoes
<1>7. ASSUME NEW t \in Starts, WritePid(t) PROVE HeldBefore(u)
  <2>1. PidDoes(t)
    BY <1>7, PidDoesLemma
  <2>2. QED
    BY <1>7, <2>1 DEF PidDoes, CallerGoes, ThreadGoes, Holding, TtAlive, HeldBefore
<1>8. ASSUME NEW t \in Starts, CallFunction(t) PROVE HeldBefore(u)
  <2>1. FunctionDoes(t)
    BY <1>8, FunctionDoesLemma
  <2>2. QED
    BY <1>8, <2>1 DEF FunctionDoes, CallerGoes, ThreadGoes, Holding, TtAlive, HeldBefore
<1>9. ASSUME NEW t \in Starts, stlThreadNameSet(t) PROVE HeldBefore(u)
  <2>1. NameDoes(t)
    BY <1>9, NameDoesLemma
  <2>2. QED
    BY <1>9, <2>1 DEF NameDoes, CallerGoes, ThreadGoes, Holding, TtAlive, HeldBefore
<1>10. ASSUME NEW t \in Starts, EndThread(t) PROVE HeldBefore(u)
  <2>1. EndDoes(t)
    BY <1>10, EndDoesLemma
  <2>2. QED
    BY <1>10, <2>1 DEF EndDoes, CallerGoes, ThreadGoes, Holding, TtAlive, HeldBefore
<1>11. ASSUME NEW t \in Starts, ClearSlot(t) PROVE HeldBefore(u)
  <2>1. ClearDoes(t)
    BY <1>11, ClearDoesLemma
  <2>2. QED
    BY <1>11, <2>1 DEF ClearDoes, CallerGoes, ThreadGoes, Holding, TtAlive, HeldBefore
<1>12. ASSUME NEW t \in Starts, ExitThread(t) PROVE HeldBefore(u)
  <2>1. ExitDoes(t)
    BY <1>12, ExitDoesLemma
  <2>2. QED
    BY <1>12, <2>1 DEF ExitDoes, CallerGoes, ThreadGoes, Holding, TtAlive, HeldBefore
<1>13. CASE UNCHANGED ttVars
  BY <1>13 DEF ttVars, ttThread, Holding, TtAlive, HeldBefore
<1>14. QED
  BY <1>1, <1>2, <1>3, <1>4, <1>5, <1>6, <1>7, <1>8, <1>9, <1>10, <1>11, <1>12, <1>13 DEF TtNext, StartStep, ThreadRuns

(* Two actions of a call are not one step.                                 *)
LEMMA ClaimIsNotCreate ==
  ASSUME TtInv, NEW a \in Actors, NEW b \in Actors, CreateThread(a)
  PROVE  ~ClaimSlot(b) /\ ~Filling(a)'
<1>1. CreateDoes(a)
  BY CreateDoesLemma
<1>2. ASSUME ClaimSlot(b) PROVE FALSE
  <2>1. ClaimDoes(b)
    BY <1>2, ClaimDoesLemma
  <2>2. QED
    BY <1>1, <2>1 DEF CreateDoes, ClaimDoes, CallerGoes
<1>3. QED
  BY <1>1, <1>2 DEF CreateDoes, CallerGoes, Filling

(* A slot that is claimed has no holder and is not lost.                   *)
LEMMA ClaimedIsFree ==
  ASSUME TtInv, NEW a \in Actors, ClaimSlot(a)
  PROVE  /\ stTD[a] \notin lost
         /\ \A b \in Actors : Filling(b) => stTD[b] # stTD[a]
         /\ \A u \in Starts : Holding(u) => TD[u] # stTD[a]
<1>1. ~tIDT[stTD[a]].iFlgs /\ stTD[a] \in Table
  BY DEF TtInv, CallsAreOwn, SlotChosen, ClaimsFree, ClaimSlot, AtStart
<1>2. ~TtHeld(stTD[a]) /\ stTD[a] \notin lost
  BY <1>1 DEF TtInv, UsedSlots
<1>3. QED
  BY <1>2 DEF TtHeld, Filling, Holding

(* One claims at a time.                                                   *)
LEMMA OneClaims ==
  ASSUME TtInv, ~fatal, NEW a \in Actors, NEW b \in Actors,
         spc[a] \in {"scan", "claim"}, spc[b] \in {"scan", "claim"}
  PROVE  a = b
<1>1. mtxThTbl = a + 1 /\ mtxThTbl = b + 1
  BY DEF TtInv, TableLocked
<1>2. a \in Int /\ b \in Int
  BY ThreadTableAssumption DEF Actors, Starts, MainThread
<1>3. QED
  BY <1>1, <1>2

(* What is lost.                                                           *)
LEMMA LostLemma ==
  ASSUME TtInv, [TtNext]_ttVars
  PROVE  LostByStep
<1>1. ASSUME NEW a \in Actors, CallStart(a) PROVE LostByStep
  <2>1. CallDoes(a)
    BY <1>1, CallDoesLemma
  <2>2. QED
    BY <1>1, <2>1 DEF CallDoes, CallerGoes, ThreadGoes, LostByStep
<1>2. ASSUME NEW a \in Actors, LockTable(a) PROVE LostByStep
  <2>1. LockDoes(a)
    BY <1>2, LockDoesLemma
  <2>2. QED
    BY <1>2, <2>1 DEF LockDoes, CallerGoes, ThreadGoes, LostByStep
<1>3. ASSUME NEW a \in Actors, ScanTable(a) PROVE LostByStep
  <2>1. ScanDoes(a)
    BY <1>3, ScanDoesLemma
  <2>2. QED
    BY <1>3, <2>1 DEF ScanDoes, CallerGoes, ThreadGoes, LostByStep
<1>4. ASSUME NEW a \in Actors, ClaimSlot(a) PROVE LostByStep
  <2>1. ClaimDoes(a)
    BY <1>4, ClaimDoesLemma
  <2>2. QED
    BY <1>4, <2>1 DEF ClaimDoes, CallerGoes, ThreadGoes, LostByStep
<1>5. ASSUME NEW a \in Actors, FillSlot(a) PROVE LostByStep
  <2>1. FillDoes(a)
    BY <1>5, FillDoesLemma
  <2>2. QED
    BY <1>5, <2>1 DEF FillDoes, CallerGoes, ThreadGoes, LostByStep
<1>6. ASSUME NEW a \in Actors, CreateThread(a) PROVE LostByStep
  <2>1. CreateDoes(a)
    BY <1>6, CreateDoesLemma
  <2>2. QED
    BY <1>6, <2>1 DEF CreateDoes, CallerGoes, ThreadGoes, LostByStep
<1>7. ASSUME NEW t \in Starts, WritePid(t) PROVE LostByStep
  <2>1. PidDoes(t)
    BY <1>7, PidDoesLemma
  <2>2. QED
    BY <1>7, <2>1 DEF PidDoes, CallerGoes, ThreadGoes, LostByStep
<1>8. ASSUME NEW t \in Starts, CallFunction(t) PROVE LostByStep
  <2>1. FunctionDoes(t)
    BY <1>8, FunctionDoesLemma
  <2>2. QED
    BY <1>8, <2>1 DEF FunctionDoes, CallerGoes, ThreadGoes, LostByStep
<1>9. ASSUME NEW t \in Starts, stlThreadNameSet(t) PROVE LostByStep
  <2>1. NameDoes(t)
    BY <1>9, NameDoesLemma
  <2>2. QED
    BY <1>9, <2>1 DEF NameDoes, CallerGoes, ThreadGoes, LostByStep
<1>10. ASSUME NEW t \in Starts, EndThread(t) PROVE LostByStep
  <2>1. EndDoes(t)
    BY <1>10, EndDoesLemma
  <2>2. CASE UNCHANGED lost
    BY <2>2 DEF LostByStep
  <2>3. CASE ThreadGoes(t, "run", "exit") /\ lost' = lost \cup {TD[t]}
    <3>1. tpc'[t] = "exit"
      BY <2>3 DEF ThreadGoes
    <3>2. QED
      BY <1>10, <2>3, <3>1 DEF LostByStep
  <2>4. QED
    BY <2>1, <2>2, <2>3 DEF EndDoes
<1>11. ASSUME NEW t \in Starts, ClearSlot(t) PROVE LostByStep
  <2>1. ClearDoes(t)
    BY <1>11, ClearDoesLemma
  <2>2. QED
    BY <1>11, <2>1 DEF ClearDoes, CallerGoes, ThreadGoes, LostByStep
<1>12. ASSUME NEW t \in Starts, ExitThread(t) PROVE LostByStep
  <2>1. ExitDoes(t)
    BY <1>12, ExitDoesLemma
  <2>2. QED
    BY <1>12, <2>1 DEF ExitDoes, CallerGoes, ThreadGoes, LostByStep
<1>13. CASE UNCHANGED ttVars
  BY <1>13 DEF ttVars, ttHist, LostByStep
<1>14. QED
  BY <1>1, <1>2, <1>3, <1>4, <1>5, <1>6, <1>7, <1>8, <1>9, <1>10, <1>11, <1>12, <1>13 DEF TtNext, StartStep, ThreadRuns

(* A slot has one holder.                                                  *)
LEMMA TtNextHolder ==
  ASSUME TtInv, [TtNext]_ttVars
  PROVE  OneHolder'
<1>0. OneFiller /\ OneThread /\ NotBoth /\ LostIsLost
  BY DEF TtInv, OneHolder
<1>1. ASSUME NEW b \in Actors, NEW c \in Actors, Filling(b)', Filling(c)', stTD'[b] = stTD'[c]
      PROVE  b = c
  <2>1. /\ Filling(b) \/ ClaimSlot(b)
        /\ Filling(c) \/ ClaimSlot(c)
        /\ stTD[b] = stTD[c]
    BY <1>1, FillersLemma DEF FilledBefore
  <2>2. CASE ClaimSlot(b) /\ ClaimSlot(c)
    <3>1. spc[b] = "claim" /\ spc[c] = "claim" /\ ~fatal
      BY <2>2 DEF ClaimSlot, AtStart
    <3>2. QED
      BY <3>1, OneClaims
  <2>3. CASE ClaimSlot(b) /\ Filling(c)
    BY <2>1, <2>3, ClaimedIsFree
  <2>4. CASE ClaimSlot(c) /\ Filling(b)
    BY <2>1, <2>4, ClaimedIsFree
  <2>5. CASE Filling(b) /\ Filling(c)
    BY <1>0, <2>1, <2>5 DEF OneFiller
  <2>6. QED
    BY <2>1, <2>2, <2>3, <2>4, <2>5
<1>2. ASSUME NEW u \in Starts, NEW v \in Starts, Holding(u)', Holding(v)', TD'[u] = TD'[v]
      PROVE  u = v
  <2> DEFINE Stays(w) == Holding(w) /\ TD'[w] = TD[w]
             Made(a, w) == CreateThread(a) /\ made[a] = w /\ Filling(a) /\ TD'[w] = stTD[a]
  <2>1. /\ Stays(u) \/ \E a \in Actors : Made(a, u)
        /\ Stays(v) \/ \E a \in Actors : Made(a, v)
    BY <1>2, HoldersLemma DEF HeldBefore
  <2>2. CASE Stays(u) /\ Stays(v)
    BY <1>0, <1>2, <2>2 DEF OneThread
  <2>3. ASSUME NEW a \in Actors, Made(a, u), Stays(v) PROVE FALSE
    BY <1>0, <1>2, <2>3 DEF NotBoth
  <2>4. ASSUME NEW a \in Actors, Made(a, v), Stays(u) PROVE FALSE
    BY <1>0, <1>2, <2>4 DEF NotBoth
  <2>5. ASSUME NEW a \in Actors, NEW b \in Actors, Made(a, u), Made(b, v) PROVE u = v
    BY <1>0, <1>2, <2>5 DEF OneFiller
  <2>6. QED
    BY <2>1, <2>2, <2>3, <2>4, <2>5
<1>3. ASSUME NEW b \in Actors, NEW u \in Starts, Filling(b)', Holding(u)'
      PROVE  stTD'[b] # TD'[u]
  <2>1. (Filling(b) \/ ClaimSlot(b)) /\ stTD'[b] = stTD[b]
    BY <1>3, FillersLemma DEF FilledBefore
  <2>2. CASE Holding(u) /\ TD'[u] = TD[u]
    <3>1. CASE Filling(b)
      BY <1>0, <2>1, <2>2, <3>1 DEF NotBoth
    <3>2. CASE ClaimSlot(b)
      BY <2>1, <2>2, <3>2, ClaimedIsFree
    <3>3. QED
      BY <2>1, <3>1, <3>2
  <2>3. ASSUME NEW a \in Actors, CreateThread(a), made[a] = u, Filling(a), TD'[u] = stTD[a]
        PROVE  stTD'[b] # TD'[u]
    <3>1. ~ClaimSlot(b) /\ ~Filling(a)'
      BY <2>3, ClaimIsNotCreate
    <3>2. Filling(b) /\ a # b
      BY <1>3, <2>1, <3>1
    <3>3. QED
      BY <1>0, <2>1, <2>3, <3>2 DEF OneFiller
  <2>4. QED
    BY <1>3, <2>2, <2>3, HoldersLemma DEF HeldBefore
<1>4. ASSUME NEW b \in Actors, Filling(b)' PROVE stTD'[b] \notin lost'
  <2>1. (Filling(b) \/ ClaimSlot(b)) /\ stTD'[b] = stTD[b]
    BY <1>4, FillersLemma DEF FilledBefore
  <2>2. stTD[b] \notin lost
    BY <1>0, <2>1, ClaimedIsFree DEF LostIsLost
  <2>3. ASSUME NEW a \in Actors, CreateThread(a) PROVE stTD[b] # stTD[a]
    <3>1. ~ClaimSlot(b) /\ ~Filling(a)'
      BY <2>3, ClaimIsNotCreate
    <3>2. Filling(b) /\ a # b
      BY <1>4, <2>1, <3>1
    <3>3. Filling(a)
      BY <2>3 DEF CreateThread, AtStart, Filling
    <3>4. QED
      BY <1>0, <3>2, <3>3 DEF OneFiller
  <2>4. ASSUME NEW t \in Starts, EndThread(t) PROVE stTD[b] # TD[t]
    <3>1. Holding(t)
      BY <2>4 DEF EndThread, AtThread, Holding, TtAlive
    <3>2. CASE Filling(b)
      BY <1>0, <3>1, <3>2 DEF NotBoth
    <3>3. CASE ClaimSlot(b)
      BY <3>1, <3>3, ClaimedIsFree
    <3>4. QED
      BY <2>1, <3>2, <3>3
  <2>5. QED
    BY <2>1, <2>2, <2>3, <2>4, LostLemma DEF LostByStep
<1>5. ASSUME NEW u \in Starts, Holding(u)' PROVE TD'[u] \notin lost'
  <2>1. CASE Holding(u) /\ TD'[u] = TD[u]
    <3>1. TD[u] \notin lost
      BY <1>0, <2>1 DEF LostIsLost
    <3>2. ASSUME NEW a \in Actors, CreateThread(a) PROVE TD[u] # stTD[a]
      <4>1. Filling(a)
        BY <3>2 DEF CreateThread, AtStart, Filling
      <4>2. QED
        BY <1>0, <2>1, <4>1 DEF NotBoth
    <3>3. ASSUME NEW t \in Starts, EndThread(t), lost' = lost \cup {TD[t]}, tpc'[t] = "exit" PROVE TD[u] # TD[t]
      <4>1. Holding(t)
        BY <3>3 DEF EndThread, AtThread, Holding, TtAlive
      <4>2. u # t
        BY <1>5, <3>3 DEF Holding, TtAlive
      <4>3. QED
        BY <1>0, <2>1, <4>1, <4>2 DEF OneThread
    <3>4. QED
      BY <2>1, <3>1, <3>2, <3>3, LostLemma DEF LostByStep
  <2>2. ASSUME NEW a \in Actors, CreateThread(a), made[a] = u, Filling(a), TD'[u] = stTD[a], tpc'[u] = "new"
        PROVE  TD'[u] \notin lost'
    <3>1. CreateDoes(a)
      BY <2>2, CreateDoesLemma
    <3>2. tpc[u] = "none"
      BY <2>2, <3>1 DEF CreateDoes
    <3>3. lost' = lost
      BY <2>2, <3>1, <3>2 DEF CreateDoes
    <3>4. QED
      BY <1>0, <2>2, <3>3 DEF LostIsLost
  <2>3. QED
    BY <1>5, <2>1, <2>2, HoldersLemma DEF HeldBefore
<1>6. QED
  BY <1>1, <1>2, <1>3, <1>4, <1>5 DEF OneHolder, OneFiller, OneThread, NotBoth, LostIsLost

(* The flags are those of the holders.                                     *)
LEMMA TtHeldBy ==
  ASSUME NEW s \in Table
  PROVE  TtHeld(s) <=> \/ \E a \in Actors : Filling(a) /\ stTD[a] = s
                       \/ \E t \in Starts : Holding(t) /\ TD[t] = s
BY DEF TtHeld, Filling, Holding

LEMMA TtHeldByNext ==
  ASSUME NEW s \in Table
  PROVE  TtHeld(s)' <=> \/ \E a \in Actors : Filling(a)' /\ stTD'[a] = s
                        \/ \E t \in Starts : Holding(t)' /\ TD'[t] = s
BY DEF TtHeld, Filling, Holding

(* The slots in use are those of the holders, and those that are lost.     *)
LEMMA TtNextUsed ==
  ASSUME TtInv, [TtNext]_ttVars
  PROVE  UsedSlots'
<1>0. OneFiller /\ OneThread /\ NotBoth /\ LostIsLost /\ UsedSlots
  BY DEF TtInv, OneHolder
<1>1. ASSUME NEW a \in Actors, CallStart(a) PROVE UsedSlots'
  <2>1. CallDoes(a)
    BY <1>1, CallDoesLemma
  <2>2. /\ \A b \in Actors : Filling(b)' <=> Filling(b)
        /\ \A b \in Actors : Filling(b) => stTD'[b] = stTD[b]
        /\ \A u \in Starts : (Holding(u)' <=> Holding(u)) /\ TD'[u] = TD[u]
        /\ lost' = lost /\ \A s \in Table : tIDT'[s].iFlgs = tIDT[s].iFlgs
    BY <2>1 DEF CallDoes, CallerGoes, ThreadGoes, Filling, Holding, TtAlive
  <2>3. ASSUME NEW s \in Table PROVE tIDT'[s].iFlgs <=> TtHeld(s)' \/ s \in lost'
    <3>1. TtHeld(s)' <=> TtHeld(s)
      BY <2>2, TtHeldBy, TtHeldByNext
    <3>2. QED
      BY <1>0, <2>2, <3>1 DEF UsedSlots
  <2>4. QED
    BY <2>3 DEF UsedSlots
<1>2. ASSUME NEW a \in Actors, LockTable(a) PROVE UsedSlots'
  <2>1. LockDoes(a)
    BY <1>2, LockDoesLemma
  <2>2. /\ \A b \in Actors : Filling(b)' <=> Filling(b)
        /\ \A b \in Actors : Filling(b) => stTD'[b] = stTD[b]
        /\ \A u \in Starts : (Holding(u)' <=> Holding(u)) /\ TD'[u] = TD[u]
        /\ lost' = lost /\ \A s \in Table : tIDT'[s].iFlgs = tIDT[s].iFlgs
    BY <2>1 DEF LockDoes, CallerGoes, ThreadGoes, Filling, Holding, TtAlive
  <2>3. ASSUME NEW s \in Table PROVE tIDT'[s].iFlgs <=> TtHeld(s)' \/ s \in lost'
    <3>1. TtHeld(s)' <=> TtHeld(s)
      BY <2>2, TtHeldBy, TtHeldByNext
    <3>2. QED
      BY <1>0, <2>2, <3>1 DEF UsedSlots
  <2>4. QED
    BY <2>3 DEF UsedSlots
<1>3. ASSUME NEW a \in Actors, ScanTable(a) PROVE UsedSlots'
  <2>1. ScanDoes(a)
    BY <1>3, ScanDoesLemma
  <2>2. /\ \A b \in Actors : Filling(b)' <=> Filling(b)
        /\ \A b \in Actors : Filling(b) => stTD'[b] = stTD[b]
        /\ \A u \in Starts : (Holding(u)' <=> Holding(u)) /\ TD'[u] = TD[u]
        /\ lost' = lost /\ \A s \in Table : tIDT'[s].iFlgs = tIDT[s].iFlgs
    BY <2>1 DEF ScanDoes, CallerGoes, ThreadGoes, Filling, Holding, TtAlive
  <2>3. ASSUME NEW s \in Table PROVE tIDT'[s].iFlgs <=> TtHeld(s)' \/ s \in lost'
    <3>1. TtHeld(s)' <=> TtHeld(s)
      BY <2>2, TtHeldBy, TtHeldByNext
    <3>2. QED
      BY <1>0, <2>2, <3>1 DEF UsedSlots
  <2>4. QED
    BY <2>3 DEF UsedSlots
<1>4. ASSUME NEW a \in Actors, ClaimSlot(a) PROVE UsedSlots'
  <2>1. ClaimDoes(a)
    BY <1>4, ClaimDoesLemma
  <2>2. /\ Filling(a)' /\ stTD'[a] = stTD[a] /\ stTD[a] \in Table
        /\ \A b \in Actors : b # a => (Filling(b)' <=> Filling(b)) /\ stTD'[b] = stTD[b]
        /\ ~Filling(a) /\ \A u \in Starts : (Holding(u)' <=> Holding(u)) /\ TD'[u] = TD[u]
        /\ lost' = lost /\ tIDT'[stTD[a]].iFlgs
        /\ \A s \in Table : s # stTD[a] => tIDT'[s] = tIDT[s]
    BY <2>1 DEF ClaimDoes, CallerGoes, Filling, Holding, TtAlive
  <2>3. ASSUME NEW s \in Table PROVE tIDT'[s].iFlgs <=> TtHeld(s)' \/ s \in lost'
    <3>1. CASE s = stTD[a]
      BY <2>2, <3>1, TtHeldByNext
    <3>2. CASE s # stTD[a]
      <4>1. TtHeld(s)' <=> TtHeld(s)
        BY <2>2, <3>2, TtHeldBy, TtHeldByNext
      <4>2. QED
        BY <1>0, <2>2, <3>2, <4>1 DEF UsedSlots
    <3>3. QED
      BY <3>1, <3>2
  <2>4. QED
    BY <2>3 DEF UsedSlots
<1>5. ASSUME NEW a \in Actors, FillSlot(a) PROVE UsedSlots'
  <2>1. FillDoes(a)
    BY <1>5, FillDoesLemma
  <2>2. /\ \A b \in Actors : Filling(b)' <=> Filling(b)
        /\ \A b \in Actors : Filling(b) => stTD'[b] = stTD[b]
        /\ \A u \in Starts : (Holding(u)' <=> Holding(u)) /\ TD'[u] = TD[u]
        /\ lost' = lost /\ \A s \in Table : tIDT'[s].iFlgs = tIDT[s].iFlgs
    BY <2>1 DEF FillDoes, CallerGoes, ThreadGoes, Filling, Holding, TtAlive
  <2>3. ASSUME NEW s \in Table PROVE tIDT'[s].iFlgs <=> TtHeld(s)' \/ s \in lost'
    <3>1. TtHeld(s)' <=> TtHeld(s)
      BY <2>2, TtHeldBy, TtHeldByNext
    <3>2. QED
      BY <1>0, <2>2, <3>1 DEF UsedSlots
  <2>4. QED
    BY <2>3 DEF UsedSlots
<1>6. ASSUME NEW a \in Actors, CreateThread(a) PROVE UsedSlots'
  <2>1. CreateDoes(a)
    BY <1>6, CreateDoesLemma
  <2>2. /\ Filling(a) /\ ~Filling(a)' /\ stTD[a] \in Table
        /\ \A b \in Actors : b # a => (Filling(b)' <=> Filling(b)) /\ stTD'[b] = stTD[b]
        /\ tIDT' = tIDT
    BY <2>1 DEF CreateDoes, CallerGoes, Filling
  <2>3. tIDT[stTD[a]].iFlgs
    BY <1>0, <2>2, TtHeldBy DEF UsedSlots
  <2>4. \A b \in Actors : Filling(b) /\ stTD[b] = stTD[a] => b = a
    BY <1>0, <2>2 DEF OneFiller
  <2>5. CASE UNCHANGED lost /\ ThreadGoes(made[a], "none", "new") /\ TD'[made[a]] = stTD[a]
    <3>0. made[a] \in Starts /\ \E u \in Starts : u = made[a] /\ ~Holding(u) /\ Holding(u)' /\ TD'[u] = stTD[a]
      <4>1. made[a] \in Starts /\ tpc[made[a]] = "none" /\ tpc'[made[a]] = "new"
        BY <2>1, <2>5 DEF CreateDoes, ThreadGoes
      <4>2. QED
        BY <2>5, <4>1 DEF Holding, TtAlive
    <3>1. \A u \in Starts : u # made[a] => (Holding(u)' <=> Holding(u))
      BY <2>5 DEF ThreadGoes, Holding, TtAlive
    <3>2. \A u \in Starts : u # made[a] => TD'[u] = TD[u]
      BY <2>1 DEF CreateDoes
    <3>3. ASSUME NEW s \in Table PROVE tIDT'[s].iFlgs <=> TtHeld(s)' \/ s \in lost'
      <4>1. CASE s = stTD[a]
        BY <2>2, <2>3, <3>0, <4>1, TtHeldByNext
      <4>2. CASE s # stTD[a]
        <5>1. TtHeld(s)' <=> TtHeld(s)
          BY <2>2, <3>0, <3>1, <3>2, <4>2, TtHeldBy, TtHeldByNext
        <5>2. QED
          BY <1>0, <2>2, <2>5, <5>1 DEF UsedSlots
      <4>3. QED
        BY <4>1, <4>2
    <3>4. QED
      BY <3>3 DEF UsedSlots
  <2>6. CASE lost' = lost \cup {stTD[a]} /\ UNCHANGED <<tpc, TD>>
    <3>1. \A u \in Starts : (Holding(u)' <=> Holding(u)) /\ TD'[u] = TD[u]
      BY <2>6 DEF Holding, TtAlive
    <3>2. ASSUME NEW s \in Table PROVE tIDT'[s].iFlgs <=> TtHeld(s)' \/ s \in lost'
      <4>1. CASE s = stTD[a]
        BY <2>2, <2>3, <2>6, <4>1
      <4>2. CASE s # stTD[a]
        <5>1. TtHeld(s)' <=> TtHeld(s)
          BY <2>2, <3>1, <4>2, TtHeldBy, TtHeldByNext
        <5>2. QED
          BY <1>0, <2>2, <2>6, <4>2, <5>1 DEF UsedSlots
      <4>3. QED
        BY <4>1, <4>2
    <3>3. QED
      BY <3>2 DEF UsedSlots
  <2>7. QED
    BY <2>1, <2>5, <2>6 DEF CreateDoes
<1>7. ASSUME NEW t \in Starts, WritePid(t) PROVE UsedSlots'
  <2>1. PidDoes(t)
    BY <1>7, PidDoesLemma
  <2>2. /\ \A b \in Actors : Filling(b)' <=> Filling(b)
        /\ \A b \in Actors : Filling(b) => stTD'[b] = stTD[b]
        /\ \A u \in Starts : (Holding(u)' <=> Holding(u)) /\ TD'[u] = TD[u]
        /\ lost' = lost /\ \A s \in Table : tIDT'[s].iFlgs = tIDT[s].iFlgs
    BY <2>1 DEF PidDoes, CallerGoes, ThreadGoes, Filling, Holding, TtAlive
  <2>3. ASSUME NEW s \in Table PROVE tIDT'[s].iFlgs <=> TtHeld(s)' \/ s \in lost'
    <3>1. TtHeld(s)' <=> TtHeld(s)
      BY <2>2, TtHeldBy, TtHeldByNext
    <3>2. QED
      BY <1>0, <2>2, <3>1 DEF UsedSlots
  <2>4. QED
    BY <2>3 DEF UsedSlots
<1>8. ASSUME NEW t \in Starts, CallFunction(t) PROVE UsedSlots'
  <2>1. FunctionDoes(t)
    BY <1>8, FunctionDoesLemma
  <2>2. /\ \A b \in Actors : Filling(b)' <=> Filling(b)
        /\ \A b \in Actors : Filling(b) => stTD'[b] = stTD[b]
        /\ \A u \in Starts : (Holding(u)' <=> Holding(u)) /\ TD'[u] = TD[u]
        /\ lost' = lost /\ \A s \in Table : tIDT'[s].iFlgs = tIDT[s].iFlgs
    BY <2>1 DEF FunctionDoes, CallerGoes, ThreadGoes, Filling, Holding, TtAlive
  <2>3. ASSUME NEW s \in Table PROVE tIDT'[s].iFlgs <=> TtHeld(s)' \/ s \in lost'
    <3>1. TtHeld(s)' <=> TtHeld(s)
      BY <2>2, TtHeldBy, TtHeldByNext
    <3>2. QED
      BY <1>0, <2>2, <3>1 DEF UsedSlots
  <2>4. QED
    BY <2>3 DEF UsedSlots
<1>9. ASSUME NEW t \in Starts, stlThreadNameSet(t) PROVE UsedSlots'
  <2>1. NameDoes(t)
    BY <1>9, NameDoesLemma
  <2>2. /\ \A b \in Actors : Filling(b)' <=> Filling(b)
        /\ \A b \in Actors : Filling(b) => stTD'[b] = stTD[b]
        /\ \A u \in Starts : (Holding(u)' <=> Holding(u)) /\ TD'[u] = TD[u]
        /\ lost' = lost /\ \A s \in Table : tIDT'[s].iFlgs = tIDT[s].iFlgs
    BY <2>1 DEF NameDoes, CallerGoes, ThreadGoes, Filling, Holding, TtAlive
  <2>3. ASSUME NEW s \in Table PROVE tIDT'[s].iFlgs <=> TtHeld(s)' \/ s \in lost'
    <3>1. TtHeld(s)' <=> TtHeld(s)
      BY <2>2, TtHeldBy, TtHeldByNext
    <3>2. QED
      BY <1>0, <2>2, <3>1 DEF UsedSlots
  <2>4. QED
    BY <2>3 DEF UsedSlots
<1>10. ASSUME NEW t \in Starts, EndThread(t) PROVE UsedSlots'
  <2>1. EndDoes(t)
    BY <1>10, EndDoesLemma
  <2>2. /\ \A b \in Actors : (Filling(b)' <=> Filling(b)) /\ stTD'[b] = stTD[b]
        /\ \A u \in Starts : TD'[u] = TD[u]
        /\ Holding(t) /\ tIDT' = tIDT /\ TD[t] \in Table
        /\ \A u \in Starts : u # t => (Holding(u)' <=> Holding(u))
    BY <2>1 DEF EndDoes, ThreadGoes, Filling, Holding, TtAlive
  <2>3. CASE (ThreadGoes(t, "run", "clear rest") \/ ThreadGoes(t, "run", "clear flag")) /\ UNCHANGED lost
    <3>1. Holding(t)'
      BY <2>3 DEF ThreadGoes, Holding
    <3>2. ASSUME NEW s \in Table PROVE tIDT'[s].iFlgs <=> TtHeld(s)' \/ s \in lost'
      <4>1. TtHeld(s)' <=> TtHeld(s)
        BY <2>2, <3>1, TtHeldBy, TtHeldByNext
      <4>2. QED
        BY <1>0, <2>2, <2>3, <4>1 DEF UsedSlots
    <3>3. QED
      BY <3>2 DEF UsedSlots
  <2>4. CASE lost' = lost \cup {TD[t]}
    <3>1. ASSUME NEW s \in Table PROVE tIDT'[s].iFlgs <=> TtHeld(s)' \/ s \in lost'
      <4>1. CASE s = TD[t]
        <5>1. TtHeld(s)
          BY <2>2, <4>1, TtHeldBy
        <5>2. QED
          BY <1>0, <2>2, <2>4, <4>1, <5>1 DEF UsedSlots
      <4>2. CASE s # TD[t]
        <5>1. TtHeld(s)' <=> TtHeld(s)
          BY <2>2, <4>2, TtHeldBy, TtHeldByNext
        <5>2. QED
          BY <1>0, <2>2, <2>4, <4>2, <5>1 DEF UsedSlots
      <4>3. QED
        BY <4>1, <4>2
    <3>2. QED
      BY <3>1 DEF UsedSlots
  <2>5. QED
    BY <2>1, <2>3, <2>4 DEF EndDoes
<1>11. ASSUME NEW t \in Starts, ClearSlot(t) PROVE UsedSlots'
  <2>1. ClearDoes(t)
    BY <1>11, ClearDoesLemma
  <2>2. /\ \A b \in Actors : (Filling(b)' <=> Filling(b)) /\ stTD'[b] = stTD[b]
        /\ \A u \in Starts : TD'[u] = TD[u]
        /\ \A u \in Starts : u # t => (Holding(u)' <=> Holding(u))
    BY <2>1 DEF ClearDoes, ThreadGoes, Filling, Holding, TtAlive
  <2>3. lost' = lost /\ TD[t] \in Table /\ \A s \in Table : s # TD[t] => tIDT'[s] = tIDT[s]
    BY <2>1 DEF ClearDoes
  <2>4. CASE (Holding(t)' <=> Holding(t)) /\ tIDT'[TD[t]].iFlgs = tIDT[TD[t]].iFlgs
    <3>1. ASSUME NEW s \in Table PROVE tIDT'[s].iFlgs <=> TtHeld(s)' \/ s \in lost'
      <4>1. TtHeld(s)' <=> TtHeld(s)
        BY <2>2, <2>4, TtHeldBy, TtHeldByNext
      <4>2. QED
        BY <1>0, <2>3, <2>4, <4>1 DEF UsedSlots
    <3>2. QED
      BY <3>1 DEF UsedSlots
  <2>5. CASE Holding(t) /\ ~Holding(t)' /\ ~tIDT'[TD[t]].iFlgs
    <3>1. ASSUME NEW s \in Table PROVE tIDT'[s].iFlgs <=> TtHeld(s)' \/ s \in lost'
      <4>1. CASE s = TD[t]
        <5>1. \A b \in Actors : Filling(b) => stTD[b] # s
          BY <1>0, <2>5, <4>1 DEF NotBoth
        <5>2. \A u \in Starts : Holding(u) /\ TD[u] = s => u = t
          BY <1>0, <2>5, <4>1 DEF OneThread
        <5>3. s \notin lost
          BY <1>0, <2>5, <4>1 DEF LostIsLost
        <5>4. ~TtHeld(s)'
          BY <2>2, <2>5, <5>1, <5>2, TtHeldByNext
        <5>5. QED
          BY <2>3, <2>5, <4>1, <5>3, <5>4
      <4>2. CASE s # TD[t]
        <5>1. TtHeld(s)' <=> TtHeld(s)
          BY <2>2, <4>2, TtHeldBy, TtHeldByNext
        <5>2. QED
          BY <1>0, <2>3, <4>2, <5>1 DEF UsedSlots
      <4>3. QED
        BY <4>1, <4>2
    <3>2. QED
      BY <3>1 DEF UsedSlots
  <2>6. CASE ThreadGoes(t, "clear rest", "then flag") \/ ThreadGoes(t, "then rest", "exit")
    <3>1. Holding(t)' <=> Holding(t)
      BY <2>6 DEF ThreadGoes, Holding, TtAlive
    <3>2. tIDT'[TD[t]].iFlgs = tIDT[TD[t]].iFlgs
      BY <2>1, <2>6 DEF ClearDoes, ThreadGoes
    <3>3. QED
      BY <2>4, <3>1, <3>2
  <2>7. CASE ThreadGoes(t, "clear flag", "then rest") \/ ThreadGoes(t, "then flag", "exit")
    <3>1. Holding(t) /\ ~Holding(t)'
      BY <2>7 DEF ThreadGoes, Holding, TtAlive
    <3>2. ~tIDT'[TD[t]].iFlgs
      BY <2>1, <2>7 DEF ClearDoes, ThreadGoes
    <3>3. QED
      BY <2>5, <3>1, <3>2
  <2>8. QED
    BY <2>1, <2>6, <2>7 DEF ClearDoes
<1>12. ASSUME NEW t \in Starts, ExitThread(t) PROVE UsedSlots'
  <2>1. ExitDoes(t)
    BY <1>12, ExitDoesLemma
  <2>2. /\ \A b \in Actors : Filling(b)' <=> Filling(b)
        /\ \A b \in Actors : Filling(b) => stTD'[b] = stTD[b]
        /\ \A u \in Starts : (Holding(u)' <=> Holding(u)) /\ TD'[u] = TD[u]
        /\ lost' = lost /\ \A s \in Table : tIDT'[s].iFlgs = tIDT[s].iFlgs
    BY <2>1 DEF ExitDoes, CallerGoes, ThreadGoes, Filling, Holding, TtAlive
  <2>3. ASSUME NEW s \in Table PROVE tIDT'[s].iFlgs <=> TtHeld(s)' \/ s \in lost'
    <3>1. TtHeld(s)' <=> TtHeld(s)
      BY <2>2, TtHeldBy, TtHeldByNext
    <3>2. QED
      BY <1>0, <2>2, <3>1 DEF UsedSlots
  <2>4. QED
    BY <2>3 DEF UsedSlots
<1>13. CASE UNCHANGED ttVars
  BY <1>0, <1>13 DEF ttVars, ttStart, ttThread, ttHist, UsedSlots, TtHeld, TtAlive
<1>14. QED
  BY <1>1, <1>2, <1>3, <1>4, <1>5, <1>6, <1>7, <1>8, <1>9, <1>10, <1>11, <1>12, <1>13 DEF TtNext, StartStep, ThreadRuns

(* Who writes to a slot, who comes to the end of a clearing, and what a    *)
(* thread that runs keeps.                                                 *)
WrittenBy(s) ==
  \/ tIDT'[s] = tIDT[s]
  \/ \E a \in Actors : (ClaimSlot(a) \/ FillSlot(a)) /\ stTD[a] = s
  \/ \E t \in Starts : (WritePid(t) \/ stlThreadNameSet(t) \/ ClearSlot(t)) /\ TD[t] = s
RestBefore(u) ==
  TD'[u] = TD[u] /\ (tpc[u] = "then rest" \/ Holding(u)) /\ early \subseteq early'
AliveBefore(u) ==
  \/ tpc[u] = "none" /\ \E a \in Actors : CreateThread(a)
  \/ /\ tpc[u] \in {"new", "call", "run"} /\ pid'[u] = pid[u] /\ early \subseteq early'
     /\ \/ name'[u] = name[u] /\ (tpc'[u] # "new" => tpc[u] # "new")
        \/ WritePid(u) \/ stlThreadNameSet(u)

(* Who writes to a slot.                                                   *)
LEMMA WrittenLemma ==
  ASSUME TtInv, [TtNext]_ttVars, NEW s \in Table
  PROVE  WrittenBy(s)
<1>1. ASSUME NEW a \in Actors, CallStart(a) PROVE WrittenBy(s)
  <2>1. CallDoes(a)
    BY <1>1, CallDoesLemma
  <2>2. QED
    BY <1>1, <2>1 DEF CallDoes, CallerGoes, ThreadGoes, WrittenBy
<1>2. ASSUME NEW a \in Actors, LockTable(a) PROVE WrittenBy(s)
  <2>1. LockDoes(a)
    BY <1>2, LockDoesLemma
  <2>2. QED
    BY <1>2, <2>1 DEF LockDoes, CallerGoes, ThreadGoes, WrittenBy
<1>3. ASSUME NEW a \in Actors, ScanTable(a) PROVE WrittenBy(s)
  <2>1. ScanDoes(a)
    BY <1>3, ScanDoesLemma
  <2>2. QED
    BY <1>3, <2>1 DEF ScanDoes, CallerGoes, ThreadGoes, WrittenBy
<1>4. ASSUME NEW a \in Actors, ClaimSlot(a) PROVE WrittenBy(s)
  <2>1. ClaimDoes(a)
    BY <1>4, ClaimDoesLemma
  <2>2. QED
    BY <1>4, <2>1 DEF ClaimDoes, CallerGoes, ThreadGoes, WrittenBy
<1>5. ASSUME NEW a \in Actors, FillSlot(a) PROVE WrittenBy(s)
  <2>1. FillDoes(a)
    BY <1>5, FillDoesLemma
  <2>2. QED
    BY <1>5, <2>1 DEF FillDoes, CallerGoes, ThreadGoes, WrittenBy
<1>6. ASSUME NEW a \in Actors, CreateThread(a) PROVE WrittenBy(s)
  <2>1. CreateDoes(a)
    BY <1>6, CreateDoesLemma
  <2>2. QED
    BY <1>6, <2>1 DEF CreateDoes, CallerGoes, ThreadGoes, WrittenBy
<1>7. ASSUME NEW t \in Starts, WritePid(t) PROVE WrittenBy(s)
  <2>1. PidDoes(t)
    BY <1>7, PidDoesLemma
  <2>2. QED
    BY <1>7, <2>1 DEF PidDoes, CallerGoes, ThreadGoes, WrittenBy
<1>8. ASSUME NEW t \in Starts, CallFunction(t) PROVE WrittenBy(s)
  <2>1. FunctionDoes(t)
    BY <1>8, FunctionDoesLemma
  <2>2. QED
    BY <1>8, <2>1 DEF FunctionDoes, CallerGoes, ThreadGoes, WrittenBy
<1>9. ASSUME NEW t \in Starts, stlThreadNameSet(t) PROVE WrittenBy(s)
  <2>1. NameDoes(t)
    BY <1>9, NameDoesLemma
  <2>2. QED
    BY <1>9, <2>1 DEF NameDoes, CallerGoes, ThreadGoes, WrittenBy
<1>10. ASSUME NEW t \in Starts, EndThread(t) PROVE WrittenBy(s)
  <2>1. EndDoes(t)
    BY <1>10, EndDoesLemma
  <2>2. QED
    BY <1>10, <2>1 DEF EndDoes, CallerGoes, ThreadGoes, WrittenBy
<1>11. ASSUME NEW t \in Starts, ClearSlot(t) PROVE WrittenBy(s)
  <2>1. ClearDoes(t)
    BY <1>11, ClearDoesLemma
  <2>2. QED
    BY <1>11, <2>1 DEF ClearDoes, CallerGoes, ThreadGoes, WrittenBy
<1>12. ASSUME NEW t \in Starts, ExitThread(t) PROVE WrittenBy(s)
  <2>1. ExitDoes(t)
    BY <1>12, ExitDoesLemma
  <2>2. QED
    BY <1>12, <2>1 DEF ExitDoes, CallerGoes, ThreadGoes, WrittenBy
<1>13. CASE UNCHANGED ttVars
  BY <1>13 DEF ttVars, WrittenBy
<1>14. QED
  BY <1>1, <1>2, <1>3, <1>4, <1>5, <1>6, <1>7, <1>8, <1>9, <1>10, <1>11, <1>12, <1>13 DEF TtNext, StartStep, ThreadRuns

(* Who has the rest of its slot to clear.                                  *)
LEMMA RestLemma ==
  ASSUME TtInv, [TtNext]_ttVars, NEW u \in Starts, tpc'[u] = "then rest"
  PROVE  RestBefore(u)
<1>1. ASSUME NEW a \in Actors, CallStart(a) PROVE RestBefore(u)
  <2>1. CallDoes(a)
    BY <1>1, CallDoesLemma
  <2>2. QED
    BY <1>1, <2>1 DEF CallDoes, CallerGoes, ThreadGoes, RestBefore, Holding, TtAlive
<1>2. ASSUME NEW a \in Actors, LockTable(a) PROVE RestBefore(u)
  <2>1. LockDoes(a)
    BY <1>2, LockDoesLemma
  <2>2. QED
    BY <1>2, <2>1 DEF LockDoes, CallerGoes, ThreadGoes, RestBefore, Holding, TtAlive
<1>3. ASSUME NEW a \in Actors, ScanTable(a) PROVE RestBefore(u)
  <2>1. ScanDoes(a)
    BY <1>3, ScanDoesLemma
  <2>2. QED
    BY <1>3, <2>1 DEF ScanDoes, CallerGoes, ThreadGoes, RestBefore, Holding, TtAlive
<1>4. ASSUME NEW a \in Actors, ClaimSlot(a) PROVE RestBefore(u)
  <2>1. ClaimDoes(a)
    BY <1>4, ClaimDoesLemma
  <2>2. QED
    BY <1>4, <2>1 DEF ClaimDoes, CallerGoes, ThreadGoes, RestBefore, Holding, TtAlive
<1>5. ASSUME NEW a \in Actors, FillSlot(a) PROVE RestBefore(u)
  <2>1. FillDoes(a)
    BY <1>5, FillDoesLemma
  <2>2. QED
    BY <1>5, <2>1 DEF FillDoes, CallerGoes, ThreadGoes, RestBefore, Holding, TtAlive
<1>6. ASSUME NEW a \in Actors, CreateThread(a) PROVE RestBefore(u)
  <2>1. CreateDoes(a)
    BY <1>6, CreateDoesLemma
  <2>2. QED
    BY <1>6, <2>1 DEF CreateDoes, CallerGoes, ThreadGoes, RestBefore, Holding, TtAlive
<1>7. ASSUME NEW t \in Starts, WritePid(t) PROVE RestBefore(u)
  <2>1. PidDoes(t)
    BY <1>7, PidDoesLemma
  <2>2. QED
    BY <1>7, <2>1 DEF PidDoes, CallerGoes, ThreadGoes, RestBefore, Holding, TtAlive
<1>8. ASSUME NEW t \in Starts, CallFunction(t) PROVE RestBefore(u)
  <2>1. FunctionDoes(t)
    BY <1>8, FunctionDoesLemma
  <2>2. QED
    BY <1>8, <2>1 DEF FunctionDoes, CallerGoes, ThreadGoes, RestBefore, Holding, TtAlive
<1>9. ASSUME NEW t \in Starts, stlThreadNameSet(t) PROVE RestBefore(u)
  <2>1. NameDoes(t)
    BY <1>9, NameDoesLemma
  <2>2. QED
    BY <1>9, <2>1 DEF NameDoes, CallerGoes, ThreadGoes, RestBefore, Holding, TtAlive
<1>10. ASSUME NEW t \in Starts, EndThread(t) PROVE RestBefore(u)
  <2>1. EndDoes(t)
    BY <1>10, EndDoesLemma
  <2>2. QED
    BY <1>10, <2>1 DEF EndDoes, CallerGoes, ThreadGoes, RestBefore, Holding, TtAlive
<1>11. ASSUME NEW t \in Starts, ClearSlot(t) PROVE RestBefore(u)
  <2>1. ClearDoes(t)
    BY <1>11, ClearDoesLemma
  <2>2. QED
    BY <1>11, <2>1 DEF ClearDoes, CallerGoes, ThreadGoes, RestBefore, Holding, TtAlive
<1>12. ASSUME NEW t \in Starts, ExitThread(t) PROVE RestBefore(u)
  <2>1. ExitDoes(t)
    BY <1>12, ExitDoesLemma
  <2>2. QED
    BY <1>12, <2>1 DEF ExitDoes, CallerGoes, ThreadGoes, RestBefore, Holding, TtAlive
<1>13. CASE UNCHANGED ttVars
  BY <1>13 DEF ttVars, ttThread, ttHist, RestBefore
<1>14. QED
  BY <1>1, <1>2, <1>3, <1>4, <1>5, <1>6, <1>7, <1>8, <1>9, <1>10, <1>11, <1>12, <1>13 DEF TtNext, StartStep, ThreadRuns

(* What a running thread keeps.                                            *)
LEMMA AliveLemma ==
  ASSUME TtInv, [TtNext]_ttVars, NEW u \in Starts, tpc'[u] \in {"new", "call", "run"}
  PROVE  AliveBefore(u)
<1>1. ASSUME NEW a \in Actors, CallStart(a) PROVE AliveBefore(u)
  <2>1. CallDoes(a)
    BY <1>1, CallDoesLemma
  <2>2. QED
    BY <1>1, <2>1 DEF CallDoes, CallerGoes, ThreadGoes, AliveBefore
<1>2. ASSUME NEW a \in Actors, LockTable(a) PROVE AliveBefore(u)
  <2>1. LockDoes(a)
    BY <1>2, LockDoesLemma
  <2>2. QED
    BY <1>2, <2>1 DEF LockDoes, CallerGoes, ThreadGoes, AliveBefore
<1>3. ASSUME NEW a \in Actors, ScanTable(a) PROVE AliveBefore(u)
  <2>1. ScanDoes(a)
    BY <1>3, ScanDoesLemma
  <2>2. QED
    BY <1>3, <2>1 DEF ScanDoes, CallerGoes, ThreadGoes, AliveBefore
<1>4. ASSUME NEW a \in Actors, ClaimSlot(a) PROVE AliveBefore(u)
  <2>1. ClaimDoes(a)
    BY <1>4, ClaimDoesLemma
  <2>2. QED
    BY <1>4, <2>1 DEF ClaimDoes, CallerGoes, ThreadGoes, AliveBefore
<1>5. ASSUME NEW a \in Actors, FillSlot(a) PROVE AliveBefore(u)
  <2>1. FillDoes(a)
    BY <1>5, FillDoesLemma
  <2>2. QED
    BY <1>5, <2>1 DEF FillDoes, CallerGoes, ThreadGoes, AliveBefore
<1>6. ASSUME NEW a \in Actors, CreateThread(a) PROVE AliveBefore(u)
  <2>1. CreateDoes(a)
    BY <1>6, CreateDoesLemma
  <2>2. QED
    BY <1>6, <2>1 DEF CreateDoes, CallerGoes, ThreadGoes, AliveBefore
<1>7. ASSUME NEW t \in Starts, WritePid(t) PROVE AliveBefore(u)
  <2>1. PidDoes(t)
    BY <1>7, PidDoesLemma
  <2>2. QED
    BY <1>7, <2>1 DEF PidDoes, CallerGoes, ThreadGoes, AliveBefore
<1>8. ASSUME NEW t \in Starts, CallFunction(t) PROVE AliveBefore(u)
  <2>1. FunctionDoes(t)
    BY <1>8, FunctionDoesLemma
  <2>2. QED
    BY <1>8, <2>1 DEF FunctionDoes, CallerGoes, ThreadGoes, AliveBefore
<1>9. ASSUME NEW t \in Starts, stlThreadNameSet(t) PROVE AliveBefore(u)
  <2>1. NameDoes(t)
    BY <1>9, NameDoesLemma
  <2>2. QED
    BY <1>9, <2>1 DEF NameDoes, CallerGoes, ThreadGoes, AliveBefore
<1>10. ASSUME NEW t \in Starts, EndThread(t) PROVE AliveBefore(u)
  <2>1. EndDoes(t)
    BY <1>10, EndDoesLemma
  <2>2. QED
    BY <1>10, <2>1 DEF EndDoes, CallerGoes, ThreadGoes, AliveBefore
<1>11. ASSUME NEW t \in Starts, ClearSlot(t) PROVE AliveBefore(u)
  <2>1. ClearDoes(t)
    BY <1>11, ClearDoesLemma
  <2>2. QED
    BY <1>11, <2>1 DEF ClearDoes, CallerGoes, ThreadGoes, AliveBefore
<1>12. ASSUME NEW t \in Starts, ExitThread(t) PROVE AliveBefore(u)
  <2>1. ExitDoes(t)
    BY <1>12, ExitDoesLemma
  <2>2. QED
    BY <1>12, <2>1 DEF ExitDoes, CallerGoes, ThreadGoes, AliveBefore
<1>13. CASE UNCHANGED ttVars
  BY <1>13 DEF ttVars, ttThread, ttHist, AliveBefore
<1>14. QED
  BY <1>1, <1>2, <1>3, <1>4, <1>5, <1>6, <1>7, <1>8, <1>9, <1>10, <1>11, <1>12, <1>13 DEF TtNext, StartStep, ThreadRuns

(* Who makes a thread has filled its slot.                                 *)
LEMMA CreateLemma ==
  ASSUME TtInv, [TtNext]_ttVars, NEW b \in Actors, spc'[b] = "create"
  PROVE  spc[b] = "create" \/ FillSlot(b)
<1>1. ASSUME NEW a \in Actors, CallStart(a) PROVE spc[b] = "create" \/ FillSlot(b)
  <2>1. CallDoes(a)
    BY <1>1, CallDoesLemma
  <2>2. QED
    BY <1>1, <2>1 DEF CallDoes, CallerGoes, ThreadGoes
<1>2. ASSUME NEW a \in Actors, LockTable(a) PROVE spc[b] = "create" \/ FillSlot(b)
  <2>1. LockDoes(a)
    BY <1>2, LockDoesLemma
  <2>2. QED
    BY <1>2, <2>1 DEF LockDoes, CallerGoes, ThreadGoes
<1>3. ASSUME NEW a \in Actors, ScanTable(a) PROVE spc[b] = "create" \/ FillSlot(b)
  <2>1. ScanDoes(a)
    BY <1>3, ScanDoesLemma
  <2>2. QED
    BY <1>3, <2>1 DEF ScanDoes, CallerGoes, ThreadGoes
<1>4. ASSUME NEW a \in Actors, ClaimSlot(a) PROVE spc[b] = "create" \/ FillSlot(b)
  <2>1. ClaimDoes(a)
    BY <1>4, ClaimDoesLemma
  <2>2. QED
    BY <1>4, <2>1 DEF ClaimDoes, CallerGoes, ThreadGoes
<1>5. ASSUME NEW a \in Actors, FillSlot(a) PROVE spc[b] = "create" \/ FillSlot(b)
  <2>1. FillDoes(a)
    BY <1>5, FillDoesLemma
  <2>2. QED
    BY <1>5, <2>1 DEF FillDoes, CallerGoes, ThreadGoes
<1>6. ASSUME NEW a \in Actors, CreateThread(a) PROVE spc[b] = "create" \/ FillSlot(b)
  <2>1. CreateDoes(a)
    BY <1>6, CreateDoesLemma
  <2>2. QED
    BY <1>6, <2>1 DEF CreateDoes, CallerGoes, ThreadGoes
<1>7. ASSUME NEW t \in Starts, WritePid(t) PROVE spc[b] = "create" \/ FillSlot(b)
  <2>1. PidDoes(t)
    BY <1>7, PidDoesLemma
  <2>2. QED
    BY <1>7, <2>1 DEF PidDoes, CallerGoes, ThreadGoes
<1>8. ASSUME NEW t \in Starts, CallFunction(t) PROVE spc[b] = "create" \/ FillSlot(b)
  <2>1. FunctionDoes(t)
    BY <1>8, FunctionDoesLemma
  <2>2. QED
    BY <1>8, <2>1 DEF FunctionDoes, CallerGoes, ThreadGoes
<1>9. ASSUME NEW t \in Starts, stlThreadNameSet(t) PROVE spc[b] = "create" \/ FillSlot(b)
  <2>1. NameDoes(t)
    BY <1>9, NameDoesLemma
  <2>2. QED
    BY <1>9, <2>1 DEF NameDoes, CallerGoes, ThreadGoes
<1>10. ASSUME NEW t \in Starts, EndThread(t) PROVE spc[b] = "create" \/ FillSlot(b)
  <2>1. EndDoes(t)
    BY <1>10, EndDoesLemma
  <2>2. QED
    BY <1>10, <2>1 DEF EndDoes, CallerGoes, ThreadGoes
<1>11. ASSUME NEW t \in Starts, ClearSlot(t) PROVE spc[b] = "create" \/ FillSlot(b)
  <2>1. ClearDoes(t)
    BY <1>11, ClearDoesLemma
  <2>2. QED
    BY <1>11, <2>1 DEF ClearDoes, CallerGoes, ThreadGoes
<1>12. ASSUME NEW t \in Starts, ExitThread(t) PROVE spc[b] = "create" \/ FillSlot(b)
  <2>1. ExitDoes(t)
    BY <1>12, ExitDoesLemma
  <2>2. QED
    BY <1>12, <2>1 DEF ExitDoes, CallerGoes, ThreadGoes
<1>13. CASE UNCHANGED ttVars
  BY <1>13 DEF ttVars, ttStart
<1>14. QED
  BY <1>1, <1>2, <1>3, <1>4, <1>5, <1>6, <1>7, <1>8, <1>9, <1>10, <1>11, <1>12, <1>13 DEF TtNext, StartStep, ThreadRuns

(* What is early stays so.                                                 *)
LEMMA EarlyLemma ==
  ASSUME TtInv, [TtNext]_ttVars
  PROVE  early \subseteq early'
<1>1. ASSUME NEW a \in Actors, CallStart(a) PROVE early \subseteq early'
  <2>1. CallDoes(a)
    BY <1>1, CallDoesLemma
  <2>2. QED
    BY <1>1, <2>1 DEF CallDoes, CallerGoes, ThreadGoes
<1>2. ASSUME NEW a \in Actors, LockTable(a) PROVE early \subseteq early'
  <2>1. LockDoes(a)
    BY <1>2, LockDoesLemma
  <2>2. QED
    BY <1>2, <2>1 DEF LockDoes, CallerGoes, ThreadGoes
<1>3. ASSUME NEW a \in Actors, ScanTable(a) PROVE early \subseteq early'
  <2>1. ScanDoes(a)
    BY <1>3, ScanDoesLemma
  <2>2. QED
    BY <1>3, <2>1 DEF ScanDoes, CallerGoes, ThreadGoes
<1>4. ASSUME NEW a \in Actors, ClaimSlot(a) PROVE early \subseteq early'
  <2>1. ClaimDoes(a)
    BY <1>4, ClaimDoesLemma
  <2>2. QED
    BY <1>4, <2>1 DEF ClaimDoes, CallerGoes, ThreadGoes
<1>5. ASSUME NEW a \in Actors, FillSlot(a) PROVE early \subseteq early'
  <2>1. FillDoes(a)
    BY <1>5, FillDoesLemma
  <2>2. QED
    BY <1>5, <2>1 DEF FillDoes, CallerGoes, ThreadGoes
<1>6. ASSUME NEW a \in Actors, CreateThread(a) PROVE early \subseteq early'
  <2>1. CreateDoes(a)
    BY <1>6, CreateDoesLemma
  <2>2. QED
    BY <1>6, <2>1 DEF CreateDoes, CallerGoes, ThreadGoes
<1>7. ASSUME NEW t \in Starts, WritePid(t) PROVE early \subseteq early'
  <2>1. PidDoes(t)
    BY <1>7, PidDoesLemma
  <2>2. QED
    BY <1>7, <2>1 DEF PidDoes, CallerGoes, ThreadGoes
<1>8. ASSUME NEW t \in Starts, CallFunction(t) PROVE early \subseteq early'
  <2>1. FunctionDoes(t)
    BY <1>8, FunctionDoesLemma
  <2>2. QED
    BY <1>8, <2>1 DEF FunctionDoes, CallerGoes, ThreadGoes
<1>9. ASSUME NEW t \in Starts, stlThreadNameSet(t) PROVE early \subseteq early'
  <2>1. NameDoes(t)
    BY <1>9, NameDoesLemma
  <2>2. QED
    BY <1>9, <2>1 DEF NameDoes, CallerGoes, ThreadGoes
<1>10. ASSUME NEW t \in Starts, EndThread(t) PROVE early \subseteq early'
  <2>1. EndDoes(t)
    BY <1>10, EndDoesLemma
  <2>2. QED
    BY <1>10, <2>1 DEF EndDoes, CallerGoes, ThreadGoes
<1>11. ASSUME NEW t \in Starts, ClearSlot(t) PROVE early \subseteq early'
  <2>1. ClearDoes(t)
    BY <1>11, ClearDoesLemma
  <2>2. QED
    BY <1>11, <2>1 DEF ClearDoes, CallerGoes, ThreadGoes
<1>12. ASSUME NEW t \in Starts, ExitThread(t) PROVE early \subseteq early'
  <2>1. ExitDoes(t)
    BY <1>12, ExitDoesLemma
  <2>2. QED
    BY <1>12, <2>1 DEF ExitDoes, CallerGoes, ThreadGoes
<1>13. CASE UNCHANGED ttVars
  BY <1>13 DEF ttVars, ttHist
<1>14. QED
  BY <1>1, <1>2, <1>3, <1>4, <1>5, <1>6, <1>7, <1>8, <1>9, <1>10, <1>11, <1>12, <1>13 DEF TtNext, StartStep, ThreadRuns

(* A slot that is being cleared, and who has it.                           *)
LEMMA TtNextEarly ==
  ASSUME TtInv, [TtNext]_ttVars
  PROVE  ClearedEarly'
<1>0. OneFiller /\ OneThread /\ NotBoth /\ CallEarly /\ ThreadEarly
  BY DEF TtInv, OneHolder, ClearedEarly
<1>1. ASSUME NEW u \in Starts, NEW b \in Actors, tpc'[u] = "then rest", Filling(b)', stTD'[b] = TD'[u]
      PROVE  made'[b] \in early'
  <2>1. (Filling(b) \/ ClaimSlot(b)) /\ stTD[b] = TD[u] /\ made'[b] = made[b]
    BY <1>1, FillersLemma, RestLemma DEF FilledBefore, RestBefore
  <2>2. (tpc[u] = "then rest" \/ Holding(u)) /\ early \subseteq early'
    BY <1>1, RestLemma DEF RestBefore
  <2>3. CASE Filling(b)
    BY <1>0, <2>1, <2>2, <2>3 DEF CallEarly, NotBoth
  <2>4. CASE ClaimSlot(b)
    <3>1. ClaimDoes(b)
      BY <2>4, ClaimDoesLemma
    <3>2. tpc[u] = "then rest"
      BY <1>1, <3>1 DEF ClaimDoes
    <3>3. QED
      BY <2>1, <3>1, <3>2 DEF ClaimDoes
  <2>5. QED
    BY <2>1, <2>3, <2>4
<1>2. ASSUME NEW u \in Starts, NEW v \in Starts, tpc'[u] = "then rest", Holding(v)', TD'[v] = TD'[u]
      PROVE  v \in early'
  <2>1. /\ TD'[u] = TD[u] /\ early \subseteq early'
        /\ tpc[u] = "then rest" \/ Holding(u)
    BY <1>2, RestLemma DEF RestBefore
  <2>2. u # v
    BY <1>2 DEF Holding, TtAlive
  <2>3. CASE Holding(v) /\ TD'[v] = TD[v]
    BY <1>0, <1>2, <2>1, <2>2, <2>3 DEF ThreadEarly, OneThread
  <2>4. ASSUME NEW a \in Actors, CreateThread(a), made[a] = v, Filling(a), TD'[v] = stTD[a]
        PROVE  v \in early'
    BY <1>0, <1>2, <2>1, <2>4 DEF CallEarly, NotBoth
  <2>5. QED
    BY <1>2, <2>3, <2>4, HoldersLemma DEF HeldBefore
<1>3. QED
  BY <1>1, <1>2 DEF ClearedEarly, CallEarly, ThreadEarly

(* A thread that writes to its slot holds it, or has given it up before it *)
(* was claimed again.                                                      *)
LEMMA WriterHolds ==
  ASSUME TtInv, NEW t \in Starts, WritePid(t) \/ stlThreadNameSet(t) \/ ClearSlot(t)
  PROVE  Holding(t) \/ tpc[t] = "then rest"
BY DEF WritePid, stlThreadNameSet, ClearSlot, AtThread, Holding, TtAlive

(* What the slot of a call says.                                           *)
LEMMA TtNextCall ==
  ASSUME TtInv, [TtNext]_ttVars
  PROVE  CallSays'
<1>0. OneFiller /\ NotBoth /\ CallEarly /\ CallSays /\ SlotChosen
  BY DEF TtInv, OneHolder, ClearedEarly, SlotSays, CallsAreOwn
<1>1. ASSUME NEW b \in Actors, spc'[b] = "create", made'[b] \notin early'
      PROVE  tIDT'[stTD'[b]].start = made'[b] /\ tIDT'[stTD'[b]].sName = <<made'[b], 0>>
  <2>1. /\ stTD'[b] = stTD[b] /\ made'[b] = made[b]
        /\ spc[b] = "create" \/ FillSlot(b)
        /\ made[b] \notin early
    <3>1. Filling(b)'
      BY <1>1 DEF Filling
    <3>2. stTD'[b] = stTD[b] /\ made'[b] = made[b]
      BY <3>1, FillersLemma DEF FilledBefore
    <3>3. QED
      BY <1>1, <3>2, CreateLemma, EarlyLemma
  <2>2. CASE FillSlot(b)
    <3>1. FillDoes(b)
      BY <2>2, FillDoesLemma
    <3>2. QED
      BY <2>1, <3>1 DEF FillDoes
  <2>3. CASE spc[b] = "create"
    <3>1. Filling(b) /\ stTD[b] \in Table
      BY <1>0, <2>3 DEF Filling, SlotChosen
    <3>2. ASSUME NEW a \in Actors, ClaimSlot(a), stTD[a] = stTD[b] PROVE FALSE
      BY <3>1, <3>2, ClaimedIsFree
    <3>3. ASSUME NEW a \in Actors, FillSlot(a), stTD[a] = stTD[b] PROVE FALSE
      <4>1. Filling(a) /\ a # b
        BY <2>3, <3>3 DEF FillSlot, AtStart, Filling
      <4>2. QED
        BY <1>0, <3>1, <3>3, <4>1 DEF OneFiller
    <3>4. ASSUME NEW t \in Starts, WritePid(t) \/ stlThreadNameSet(t) \/ ClearSlot(t), TD[t] = stTD[b]
          PROVE  FALSE
      <4>1. Holding(t) \/ tpc[t] = "then rest"
        BY <3>4, WriterHolds
      <4>2. QED
        BY <1>0, <2>1, <3>1, <3>4, <4>1 DEF NotBoth, CallEarly
    <3>5. tIDT'[stTD[b]] = tIDT[stTD[b]]
      <4>1. WrittenBy(stTD[b])
        BY <3>1, WrittenLemma
      <4>2. QED
        BY <3>2, <3>3, <3>4, <4>1 DEF WrittenBy
    <3>6. QED
      BY <1>0, <2>1, <2>3, <3>5 DEF CallSays
  <2>4. QED
    BY <2>1, <2>2, <2>3
<1>2. QED
  BY <1>1 DEF CallSays

(* What the slot of a thread says.                                         *)
LEMMA TtNextThreadSays ==
  ASSUME TtInv, [TtNext]_ttVars
  PROVE  ThreadSays'
<1>0. OneThread /\ NotBoth /\ ThreadEarly /\ CallSays /\ ThreadSays /\ ThreadMade
  BY DEF TtInv, OneHolder, ClearedEarly, SlotSays, CallsAreOwn
<1>1. ASSUME NEW u \in Starts, tpc'[u] \in {"new", "call", "run"}, u \notin early'
      PROVE  /\ tIDT'[TD'[u]].start = u /\ tIDT'[TD'[u]].sName = name'[u]
             /\ tpc'[u] # "new" => tIDT'[TD'[u]].iPid = pid'[u]
  <2>1. u \notin early /\ HeldBefore(u) /\ AliveBefore(u)
    <3>1. Holding(u)'
      BY <1>1 DEF Holding, TtAlive
    <3>2. QED
      BY <1>1, <3>1, EarlyLemma, HoldersLemma, AliveLemma
  <2>2. ASSUME NEW a \in Actors, CreateThread(a), made[a] = u, TD'[u] = stTD[a], tpc'[u] = "new"
        PROVE  tIDT'[TD'[u]].start = u /\ tIDT'[TD'[u]].sName = name'[u]
    <3>1. CreateDoes(a)
      BY <2>2, CreateDoesLemma
    <3>2. tpc[u] = "none" /\ spc[a] = "create" /\ tIDT' = tIDT
      BY <2>2, <3>1 DEF CreateDoes, CallerGoes
    <3>3. name'[u] = <<u, 0>>
      BY <2>2, <3>1, <3>2 DEF CreateDoes
    <3>4. QED
      BY <1>0, <2>1, <2>2, <3>2, <3>3 DEF CallSays
  <2>3. CASE Holding(u) /\ TD'[u] = TD[u]
    <3>1. /\ tpc[u] \in {"new", "call", "run"} /\ pid'[u] = pid[u] /\ TD[u] \in Table
          /\ \/ name'[u] = name[u] /\ (tpc'[u] # "new" => tpc[u] # "new")
             \/ WritePid(u) \/ stlThreadNameSet(u)
      <4>1. tpc[u] # "none"
        BY <2>3 DEF Holding, TtAlive
      <4>2. QED
        BY <1>0, <2>1, <4>1 DEF AliveBefore, ThreadMade
    <3>2. /\ tIDT[TD[u]].start = u /\ tIDT[TD[u]].sName = name[u]
          /\ tpc[u] # "new" => tIDT[TD[u]].iPid = pid[u]
      BY <1>0, <2>1, <3>1 DEF ThreadSays, TtAlive
    <3>3. CASE WritePid(u)
      <4>1. PidDoes(u)
        BY <3>3, PidDoesLemma
      <4>2. QED
        BY <2>3, <3>2, <4>1 DEF PidDoes
    <3>4. CASE stlThreadNameSet(u)
      <4>1. NameDoes(u)
        BY <3>4, NameDoesLemma
      <4>2. QED
        BY <2>3, <3>2, <4>1 DEF NameDoes
    <3>5. CASE ~WritePid(u) /\ ~stlThreadNameSet(u)
      <4>1. ASSUME NEW a \in Actors, ClaimSlot(a), stTD[a] = TD[u] PROVE FALSE
        BY <2>3, <4>1, ClaimedIsFree
      <4>2. ASSUME NEW a \in Actors, FillSlot(a), stTD[a] = TD[u] PROVE FALSE
        <5>1. Filling(a)
          BY <4>2 DEF FillSlot, AtStart, Filling
        <5>2. QED
          BY <1>0, <2>3, <4>2, <5>1 DEF NotBoth
      <4>3. ASSUME NEW t \in Starts, WritePid(t) \/ stlThreadNameSet(t) \/ ClearSlot(t), TD[t] = TD[u]
            PROVE  FALSE
        <5>1. Holding(t) \/ tpc[t] = "then rest"
          BY <4>3, WriterHolds
        <5>2. CASE t = u
          BY <3>1, <3>5, <4>3, <5>2 DEF ClearSlot, AtThread
        <5>3. CASE t # u
          BY <1>0, <2>1, <2>3, <4>3, <5>1, <5>3 DEF OneThread, ThreadEarly
        <5>4. QED
          BY <5>2, <5>3
      <4>4. tIDT'[TD[u]] = tIDT[TD[u]]
        <5>1. WrittenBy(TD[u])
          BY <3>1, WrittenLemma
        <5>2. QED
          BY <4>1, <4>2, <4>3, <5>1 DEF WrittenBy
      <4>5. QED
        BY <2>3, <3>1, <3>2, <3>5, <4>4
    <3>6. QED
      BY <3>3, <3>4, <3>5
  <2>4. QED
    BY <2>1, <2>2, <2>3 DEF HeldBefore
<1>2. QED
  BY <1>1 DEF ThreadSays, TtAlive

(* A slot that is claimed is still free.                                   *)
LEMMA TtNextClaims ==
  ASSUME TtInv, [TtNext]_ttVars
  PROVE  ClaimsFree'
<1>0. ClaimsFree /\ SlotChosen
  BY DEF TtInv, TtTypes, CallsAreOwn
<1>1. ASSUME NEW a \in Actors, CallStart(a) PROVE ClaimsFree'
  <2>1. CallDoes(a)
    BY <1>1, CallDoesLemma
  <2>2. QED
    BY <1>0, <2>1 DEF CallDoes, CallerGoes, ThreadGoes, ClaimsFree, SlotChosen
<1>2. ASSUME NEW a \in Actors, LockTable(a) PROVE ClaimsFree'
  <2>1. LockDoes(a)
    BY <1>2, LockDoesLemma
  <2>2. QED
    BY <1>0, <2>1 DEF LockDoes, CallerGoes, ThreadGoes, ClaimsFree, SlotChosen
<1>3. ASSUME NEW a \in Actors, ScanTable(a) PROVE ClaimsFree'
  <2>1. ScanDoes(a)
    BY <1>3, ScanDoesLemma
  <2>2. QED
    BY <1>0, <2>1 DEF ScanDoes, CallerGoes, ThreadGoes, ClaimsFree, SlotChosen
<1>4. ASSUME NEW a \in Actors, ClaimSlot(a) PROVE ClaimsFree'
  <2>1. ClaimDoes(a)
    BY <1>4, ClaimDoesLemma
  <2>2. ASSUME NEW b \in Actors, spc'[b] = "claim" PROVE ~tIDT'[stTD'[b]].iFlgs
    <3>1. spc[a] = "claim" /\ spc[b] = "claim" /\ a # b
      BY <2>1, <2>2 DEF ClaimDoes, CallerGoes
    <3>2. ~fatal
      BY <1>4 DEF ClaimSlot, AtStart
    <3>3. QED
      BY <3>1, <3>2, OneClaims
  <2>3. QED
    BY <2>2 DEF ClaimsFree
<1>5. ASSUME NEW a \in Actors, FillSlot(a) PROVE ClaimsFree'
  <2>1. FillDoes(a)
    BY <1>5, FillDoesLemma
  <2>2. QED
    BY <1>0, <2>1 DEF FillDoes, CallerGoes, ThreadGoes, ClaimsFree, SlotChosen
<1>6. ASSUME NEW a \in Actors, CreateThread(a) PROVE ClaimsFree'
  <2>1. CreateDoes(a)
    BY <1>6, CreateDoesLemma
  <2>2. QED
    BY <1>0, <2>1 DEF CreateDoes, CallerGoes, ThreadGoes, ClaimsFree, SlotChosen
<1>7. ASSUME NEW t \in Starts, WritePid(t) PROVE ClaimsFree'
  <2>1. PidDoes(t)
    BY <1>7, PidDoesLemma
  <2>2. QED
    BY <1>0, <2>1 DEF PidDoes, CallerGoes, ThreadGoes, ClaimsFree, SlotChosen
<1>8. ASSUME NEW t \in Starts, CallFunction(t) PROVE ClaimsFree'
  <2>1. FunctionDoes(t)
    BY <1>8, FunctionDoesLemma
  <2>2. QED
    BY <1>0, <2>1 DEF FunctionDoes, CallerGoes, ThreadGoes, ClaimsFree, SlotChosen
<1>9. ASSUME NEW t \in Starts, stlThreadNameSet(t) PROVE ClaimsFree'
  <2>1. NameDoes(t)
    BY <1>9, NameDoesLemma
  <2>2. QED
    BY <1>0, <2>1 DEF NameDoes, CallerGoes, ThreadGoes, ClaimsFree, SlotChosen
<1>10. ASSUME NEW t \in Starts, EndThread(t) PROVE ClaimsFree'
  <2>1. EndDoes(t)
    BY <1>10, EndDoesLemma
  <2>2. QED
    BY <1>0, <2>1 DEF EndDoes, CallerGoes, ThreadGoes, ClaimsFree, SlotChosen
<1>11. ASSUME NEW t \in Starts, ClearSlot(t) PROVE ClaimsFree'
  <2>1. ClearDoes(t)
    BY <1>11, ClearDoesLemma
  <2>2. QED
    BY <1>0, <2>1 DEF ClearDoes, CallerGoes, ThreadGoes, ClaimsFree, SlotChosen
<1>12. ASSUME NEW t \in Starts, ExitThread(t) PROVE ClaimsFree'
  <2>1. ExitDoes(t)
    BY <1>12, ExitDoesLemma
  <2>2. QED
    BY <1>0, <2>1 DEF ExitDoes, CallerGoes, ThreadGoes, ClaimsFree, SlotChosen
<1>13. CASE UNCHANGED ttVars
  BY <1>0, <1>13 DEF ttVars, ttStart, ClaimsFree
<1>14. QED
  BY <1>1, <1>2, <1>3, <1>4, <1>5, <1>6, <1>7, <1>8, <1>9, <1>10, <1>11, <1>12, <1>13 DEF TtNext, StartStep, ThreadRuns

(* A thread runs what was asked.                                           *)
LEMMA TtNextRuns ==
  ASSUME TtInv, [TtNext]_ttVars
  PROVE  RunsWhatWasAsked'
<1>0. ThreadSays /\ RunsWhatWasAsked
  BY DEF TtInv, SlotSays
<1>1. ASSUME NEW a \in Actors, CallStart(a) PROVE RunsWhatWasAsked'
  <2>1. CallDoes(a)
    BY <1>1, CallDoesLemma
  <2>2. QED
    BY <1>0, <2>1 DEF CallDoes, CallerGoes, ThreadGoes, RunsWhatWasAsked
<1>2. ASSUME NEW a \in Actors, LockTable(a) PROVE RunsWhatWasAsked'
  <2>1. LockDoes(a)
    BY <1>2, LockDoesLemma
  <2>2. QED
    BY <1>0, <2>1 DEF LockDoes, CallerGoes, ThreadGoes, RunsWhatWasAsked
<1>3. ASSUME NEW a \in Actors, ScanTable(a) PROVE RunsWhatWasAsked'
  <2>1. ScanDoes(a)
    BY <1>3, ScanDoesLemma
  <2>2. QED
    BY <1>0, <2>1 DEF ScanDoes, CallerGoes, ThreadGoes, RunsWhatWasAsked
<1>4. ASSUME NEW a \in Actors, ClaimSlot(a) PROVE RunsWhatWasAsked'
  <2>1. ClaimDoes(a)
    BY <1>4, ClaimDoesLemma
  <2>2. QED
    BY <1>0, <2>1 DEF ClaimDoes, CallerGoes, ThreadGoes, RunsWhatWasAsked
<1>5. ASSUME NEW a \in Actors, FillSlot(a) PROVE RunsWhatWasAsked'
  <2>1. FillDoes(a)
    BY <1>5, FillDoesLemma
  <2>2. QED
    BY <1>0, <2>1 DEF FillDoes, CallerGoes, ThreadGoes, RunsWhatWasAsked
<1>6. ASSUME NEW a \in Actors, CreateThread(a) PROVE RunsWhatWasAsked'
  <2>1. CreateDoes(a)
    BY <1>6, CreateDoesLemma
  <2>2. QED
    BY <1>0, <2>1 DEF CreateDoes, CallerGoes, ThreadGoes, RunsWhatWasAsked
<1>7. ASSUME NEW t \in Starts, WritePid(t) PROVE RunsWhatWasAsked'
  <2>1. PidDoes(t)
    BY <1>7, PidDoesLemma
  <2>2. QED
    BY <1>0, <2>1 DEF PidDoes, CallerGoes, ThreadGoes, RunsWhatWasAsked
<1>8. ASSUME NEW t \in Starts, CallFunction(t) PROVE RunsWhatWasAsked'
  <2>1. FunctionDoes(t)
    BY <1>8, FunctionDoesLemma
  <2>2. tIDT[TD[t]].start = t \/ t \in early
    BY <1>0, <2>1 DEF FunctionDoes, ThreadGoes, ThreadSays, TtAlive
  <2>3. t # 0
    BY ThreadTableAssumption DEF Starts
  <2>4. QED
    BY <1>0, <2>1, <2>2, <2>3 DEF FunctionDoes, RunsWhatWasAsked
<1>9. ASSUME NEW t \in Starts, stlThreadNameSet(t) PROVE RunsWhatWasAsked'
  <2>1. NameDoes(t)
    BY <1>9, NameDoesLemma
  <2>2. QED
    BY <1>0, <2>1 DEF NameDoes, CallerGoes, ThreadGoes, RunsWhatWasAsked
<1>10. ASSUME NEW t \in Starts, EndThread(t) PROVE RunsWhatWasAsked'
  <2>1. EndDoes(t)
    BY <1>10, EndDoesLemma
  <2>2. QED
    BY <1>0, <2>1 DEF EndDoes, CallerGoes, ThreadGoes, RunsWhatWasAsked
<1>11. ASSUME NEW t \in Starts, ClearSlot(t) PROVE RunsWhatWasAsked'
  <2>1. ClearDoes(t)
    BY <1>11, ClearDoesLemma
  <2>2. QED
    BY <1>0, <2>1 DEF ClearDoes, CallerGoes, ThreadGoes, RunsWhatWasAsked
<1>12. ASSUME NEW t \in Starts, ExitThread(t) PROVE RunsWhatWasAsked'
  <2>1. ExitDoes(t)
    BY <1>12, ExitDoesLemma
  <2>2. QED
    BY <1>0, <2>1 DEF ExitDoes, CallerGoes, ThreadGoes, RunsWhatWasAsked
<1>13. CASE UNCHANGED ttVars
  BY <1>0, <1>13 DEF ttVars, ttThread, ttHist, RunsWhatWasAsked
<1>14. QED
  BY <1>1, <1>2, <1>3, <1>4, <1>5, <1>6, <1>7, <1>8, <1>9, <1>10, <1>11, <1>12, <1>13 DEF TtNext, StartStep, ThreadRuns

(* A slot that was free when the scan began is still ahead of it.          *)
LEMMA TtNextFinds ==
  ASSUME TtInv, [TtNext]_ttVars
  PROVE  (~fatal => ScanFinds)'
<1>0. StartTypes /\ SlotChosen /\ (~fatal => ScanFinds)
  BY DEF TtInv, TtTypes, CallsAreOwn
<1>1. ASSUME NEW a \in Actors, CallStart(a) PROVE (~fatal => ScanFinds)'
  <2>1. CallDoes(a)
    BY <1>1, CallDoesLemma
  <2>2. /\ \A s \in Table : tIDT'[s].iFlgs => tIDT[s].iFlgs
        /\ \A b \in Actors : spc'[b] = "scan" =>
             spc[b] = "scan" /\ stTD'[b] = stTD[b] /\ allUsed'[b] = allUsed[b]
        /\ fatal' = fatal
    BY <2>1 DEF CallDoes, CallerGoes, ThreadGoes
  <2>3. QED
    BY <1>0, <2>2 DEF ScanFinds
<1>2. ASSUME NEW a \in Actors, LockTable(a) PROVE (~fatal => ScanFinds)'
  <2>1. LockDoes(a)
    BY <1>2, LockDoesLemma
  <2>2. \A s \in Table : 1 <= s
    BY DEF Table
  <2>3. /\ tIDT' = tIDT /\ fatal' = fatal /\ stTD'[a] = 1
        /\ allUsed'[a] = \A s \in Table : tIDT[s].iFlgs
        /\ \A b \in Actors : b # a => spc'[b] = spc[b] /\ stTD'[b] = stTD[b] /\ allUsed'[b] = allUsed[b]
    BY <2>1 DEF LockDoes, CallerGoes
  <2>4. ASSUME NEW b \in Actors, ~fatal', spc'[b] = "scan", ~allUsed'[b]
        PROVE  \E s \in Table : stTD'[b] <= s /\ ~tIDT'[s].iFlgs
    <3>1. CASE b = a
      BY <2>2, <2>3, <2>4, <3>1
    <3>2. CASE b # a
      BY <1>0, <2>3, <2>4, <3>2 DEF ScanFinds
    <3>3. QED
      BY <3>1, <3>2
  <2>5. QED
    BY <2>4 DEF ScanFinds
<1>3. ASSUME NEW a \in Actors, ScanTable(a) PROVE (~fatal => ScanFinds)'
  <2>1. ScanDoes(a)
    BY <1>3, ScanDoesLemma
  <2>2. ASSUME NEW b \in Actors, ~fatal', spc'[b] = "scan", ~allUsed'[b]
        PROVE  \E s \in Table : stTD'[b] <= s /\ ~tIDT'[s].iFlgs
    <3>1. ~fatal /\ spc[b] = "scan" /\ spc[a] = "scan" /\ ~allUsed[b] /\ tIDT' = tIDT
      BY <1>3, <2>1, <2>2 DEF ScanDoes, CallerGoes, ScanTable, AtStart
    <3>2. b = a
      BY <3>1, OneClaims
    <3>3. PICK s \in Table : stTD[a] <= s /\ ~tIDT[s].iFlgs
      BY <1>0, <3>1, <3>2 DEF ScanFinds
    <3>4. /\ stTD[a] \in Table /\ tIDT[stTD[a]].iFlgs /\ stTD'[a] = stTD[a] + 1
      BY <2>1, <2>2, <3>2 DEF ScanDoes, CallerGoes
    <3>5. s # stTD[a] /\ s \in Int /\ stTD[a] \in Int
      BY <3>3, <3>4 DEF Table
    <3>6. stTD'[b] <= s
      BY <3>2, <3>3, <3>4, <3>5
    <3>7. QED
      BY <3>1, <3>3, <3>6
  <2>3. QED
    BY <2>2 DEF ScanFinds
<1>4. ASSUME NEW a \in Actors, ClaimSlot(a) PROVE (~fatal => ScanFinds)'
  <2>1. ClaimDoes(a)
    BY <1>4, ClaimDoesLemma
  <2>2. ASSUME NEW b \in Actors, spc'[b] = "scan" PROVE FALSE
    <3>1. spc[a] = "claim" /\ spc[b] = "scan" /\ ~fatal
      BY <1>4, <2>1, <2>2 DEF ClaimDoes, CallerGoes, ClaimSlot, AtStart
    <3>2. QED
      BY <3>1, OneClaims
  <2>3. QED
    BY <2>2 DEF ScanFinds
<1>5. ASSUME NEW a \in Actors, FillSlot(a) PROVE (~fatal => ScanFinds)'
  <2>1. FillDoes(a)
    BY <1>5, FillDoesLemma
  <2>2. /\ \A s \in Table : tIDT'[s].iFlgs => tIDT[s].iFlgs
        /\ \A b \in Actors : spc'[b] = "scan" =>
             spc[b] = "scan" /\ stTD'[b] = stTD[b] /\ allUsed'[b] = allUsed[b]
        /\ fatal' = fatal
    BY <2>1 DEF FillDoes, CallerGoes, ThreadGoes
  <2>3. QED
    BY <1>0, <2>2 DEF ScanFinds
<1>6. ASSUME NEW a \in Actors, CreateThread(a) PROVE (~fatal => ScanFinds)'
  <2>1. CreateDoes(a)
    BY <1>6, CreateDoesLemma
  <2>2. /\ \A s \in Table : tIDT'[s].iFlgs => tIDT[s].iFlgs
        /\ \A b \in Actors : spc'[b] = "scan" =>
             spc[b] = "scan" /\ stTD'[b] = stTD[b] /\ allUsed'[b] = allUsed[b]
        /\ fatal' = fatal
    BY <2>1 DEF CreateDoes, CallerGoes, ThreadGoes
  <2>3. QED
    BY <1>0, <2>2 DEF ScanFinds
<1>7. ASSUME NEW t \in Starts, WritePid(t) PROVE (~fatal => ScanFinds)'
  <2>1. PidDoes(t)
    BY <1>7, PidDoesLemma
  <2>2. /\ \A s \in Table : tIDT'[s].iFlgs => tIDT[s].iFlgs
        /\ \A b \in Actors : spc'[b] = "scan" =>
             spc[b] = "scan" /\ stTD'[b] = stTD[b] /\ allUsed'[b] = allUsed[b]
        /\ fatal' = fatal
    BY <2>1 DEF PidDoes, CallerGoes, ThreadGoes
  <2>3. QED
    BY <1>0, <2>2 DEF ScanFinds
<1>8. ASSUME NEW t \in Starts, CallFunction(t) PROVE (~fatal => ScanFinds)'
  <2>1. FunctionDoes(t)
    BY <1>8, FunctionDoesLemma
  <2>2. /\ \A s \in Table : tIDT'[s].iFlgs => tIDT[s].iFlgs
        /\ \A b \in Actors : spc'[b] = "scan" =>
             spc[b] = "scan" /\ stTD'[b] = stTD[b] /\ allUsed'[b] = allUsed[b]
        /\ fatal' = fatal
    BY <2>1 DEF FunctionDoes, CallerGoes, ThreadGoes
  <2>3. QED
    BY <1>0, <2>2 DEF ScanFinds
<1>9. ASSUME NEW t \in Starts, stlThreadNameSet(t) PROVE (~fatal => ScanFinds)'
  <2>1. NameDoes(t)
    BY <1>9, NameDoesLemma
  <2>2. /\ \A s \in Table : tIDT'[s].iFlgs => tIDT[s].iFlgs
        /\ \A b \in Actors : spc'[b] = "scan" =>
             spc[b] = "scan" /\ stTD'[b] = stTD[b] /\ allUsed'[b] = allUsed[b]
        /\ fatal' = fatal
    BY <2>1 DEF NameDoes, CallerGoes, ThreadGoes
  <2>3. QED
    BY <1>0, <2>2 DEF ScanFinds
<1>10. ASSUME NEW t \in Starts, EndThread(t) PROVE (~fatal => ScanFinds)'
  <2>1. EndDoes(t)
    BY <1>10, EndDoesLemma
  <2>2. /\ \A s \in Table : tIDT'[s].iFlgs => tIDT[s].iFlgs
        /\ \A b \in Actors : spc'[b] = "scan" =>
             spc[b] = "scan" /\ stTD'[b] = stTD[b] /\ allUsed'[b] = allUsed[b]
        /\ fatal' = fatal
    BY <2>1 DEF EndDoes, CallerGoes, ThreadGoes
  <2>3. QED
    BY <1>0, <2>2 DEF ScanFinds
<1>11. ASSUME NEW t \in Starts, ClearSlot(t) PROVE (~fatal => ScanFinds)'
  <2>1. ClearDoes(t)
    BY <1>11, ClearDoesLemma
  <2>2. /\ \A s \in Table : tIDT'[s].iFlgs => tIDT[s].iFlgs
        /\ \A b \in Actors : spc'[b] = "scan" =>
             spc[b] = "scan" /\ stTD'[b] = stTD[b] /\ allUsed'[b] = allUsed[b]
        /\ fatal' = fatal
    BY <2>1 DEF ClearDoes, CallerGoes, ThreadGoes
  <2>3. QED
    BY <1>0, <2>2 DEF ScanFinds
<1>12. ASSUME NEW t \in Starts, ExitThread(t) PROVE (~fatal => ScanFinds)'
  <2>1. ExitDoes(t)
    BY <1>12, ExitDoesLemma
  <2>2. /\ \A s \in Table : tIDT'[s].iFlgs => tIDT[s].iFlgs
        /\ \A b \in Actors : spc'[b] = "scan" =>
             spc[b] = "scan" /\ stTD'[b] = stTD[b] /\ allUsed'[b] = allUsed[b]
        /\ fatal' = fatal
    BY <2>1 DEF ExitDoes, CallerGoes, ThreadGoes
  <2>3. QED
    BY <1>0, <2>2 DEF ScanFinds
<1>13. CASE UNCHANGED ttVars
  BY <1>0, <1>13 DEF ttVars, ttStart, ttHist, ScanFinds
<1>14. QED
  BY <1>1, <1>2, <1>3, <1>4, <1>5, <1>6, <1>7, <1>8, <1>9, <1>10, <1>11, <1>12, <1>13 DEF TtNext, StartStep, ThreadRuns

(* The process ends for want of threads when no slot was free.             *)
LEMMA TtNextFull ==
  ASSUME TtInv, [TtNext]_ttVars
  PROVE  FatalWhenFull'
<1>0. SlotChosen /\ StartTypes /\ (~fatal => ScanFinds)
  BY DEF TtInv, TtTypes, CallsAreOwn
<1>1. ASSUME NEW a \in Actors, CallStart(a) PROVE FatalWhenFull'
  <2>1. CallDoes(a)
    BY <1>1, CallDoesLemma
  <2>2. ~fatal
    BY <1>1 DEF CallStart, AtStart, AtThread
  <2>3. fatal' = fatal
    BY <2>1 DEF CallDoes
  <2>4. QED
    BY <2>2, <2>3 DEF FatalWhenFull
<1>2. ASSUME NEW a \in Actors, LockTable(a) PROVE FatalWhenFull'
  <2>1. LockDoes(a)
    BY <1>2, LockDoesLemma
  <2>2. ~fatal
    BY <1>2 DEF LockTable, AtStart, AtThread
  <2>3. fatal' = fatal
    BY <2>1 DEF LockDoes
  <2>4. QED
    BY <2>2, <2>3 DEF FatalWhenFull
<1>3. ASSUME NEW a \in Actors, ScanTable(a) PROVE FatalWhenFull'
  <2>1. ScanDoes(a)
    BY <1>3, ScanDoesLemma
  <2>2. CASE stTD[a] > MaxThread /\ UNCHANGED spc
    <3>1. spc[a] = "scan" /\ ~fatal /\ allUsed' = allUsed
      BY <1>3, <2>1 DEF ScanDoes, ScanTable, AtStart
    <3>2. stTD[a] \in Int /\ MaxThread \in Int
      BY <1>0, ThreadTableAssumption DEF StartTypes
    <3>3. \A s \in Table : ~(stTD[a] <= s)
      BY <2>2, <3>2 DEF Table
    <3>4. allUsed[a]
      BY <1>0, <3>1, <3>3 DEF ScanFinds
    <3>5. QED
      BY <2>2, <3>1, <3>4 DEF FatalWhenFull
  <2>3. CASE UNCHANGED fatal
    BY <1>3, <2>3 DEF FatalWhenFull, ScanTable, AtStart
  <2>4. QED
    BY <2>1, <2>2, <2>3 DEF ScanDoes
<1>4. ASSUME NEW a \in Actors, ClaimSlot(a) PROVE FatalWhenFull'
  <2>1. ClaimDoes(a)
    BY <1>4, ClaimDoesLemma
  <2>2. ~fatal
    BY <1>4 DEF ClaimSlot, AtStart, AtThread
  <2>3. fatal' = fatal
    BY <2>1 DEF ClaimDoes
  <2>4. QED
    BY <2>2, <2>3 DEF FatalWhenFull
<1>5. ASSUME NEW a \in Actors, FillSlot(a) PROVE FatalWhenFull'
  <2>1. FillDoes(a)
    BY <1>5, FillDoesLemma
  <2>2. ~fatal
    BY <1>5 DEF FillSlot, AtStart, AtThread
  <2>3. fatal' = fatal
    BY <2>1 DEF FillDoes
  <2>4. QED
    BY <2>2, <2>3 DEF FatalWhenFull
<1>6. ASSUME NEW a \in Actors, CreateThread(a) PROVE FatalWhenFull'
  <2>1. CreateDoes(a)
    BY <1>6, CreateDoesLemma
  <2>2. ~fatal
    BY <1>6 DEF CreateThread, AtStart, AtThread
  <2>3. fatal' = fatal
    BY <2>1 DEF CreateDoes
  <2>4. QED
    BY <2>2, <2>3 DEF FatalWhenFull
<1>7. ASSUME NEW t \in Starts, WritePid(t) PROVE FatalWhenFull'
  <2>1. PidDoes(t)
    BY <1>7, PidDoesLemma
  <2>2. ~fatal
    BY <1>7 DEF WritePid, AtStart, AtThread
  <2>3. fatal' = fatal
    BY <2>1 DEF PidDoes
  <2>4. QED
    BY <2>2, <2>3 DEF FatalWhenFull
<1>8. ASSUME NEW t \in Starts, CallFunction(t) PROVE FatalWhenFull'
  <2>1. FunctionDoes(t)
    BY <1>8, FunctionDoesLemma
  <2>2. ~fatal
    BY <1>8 DEF CallFunction, AtStart, AtThread
  <2>3. fatal' = fatal
    BY <2>1 DEF FunctionDoes
  <2>4. QED
    BY <2>2, <2>3 DEF FatalWhenFull
<1>9. ASSUME NEW t \in Starts, stlThreadNameSet(t) PROVE FatalWhenFull'
  <2>1. NameDoes(t)
    BY <1>9, NameDoesLemma
  <2>2. ~fatal
    BY <1>9 DEF stlThreadNameSet, AtStart, AtThread
  <2>3. fatal' = fatal
    BY <2>1 DEF NameDoes
  <2>4. QED
    BY <2>2, <2>3 DEF FatalWhenFull
<1>10. ASSUME NEW t \in Starts, EndThread(t) PROVE FatalWhenFull'
  <2>1. EndDoes(t)
    BY <1>10, EndDoesLemma
  <2>2. ~fatal
    BY <1>10 DEF EndThread, AtStart, AtThread
  <2>3. fatal' = fatal
    BY <2>1 DEF EndDoes
  <2>4. QED
    BY <2>2, <2>3 DEF FatalWhenFull
<1>11. ASSUME NEW t \in Starts, ClearSlot(t) PROVE FatalWhenFull'
  <2>1. ClearDoes(t)
    BY <1>11, ClearDoesLemma
  <2>2. ~fatal
    BY <1>11 DEF ClearSlot, AtThread
  <2>3. fatal' = fatal
    BY <2>1 DEF ClearDoes
  <2>4. QED
    BY <2>2, <2>3 DEF FatalWhenFull
<1>12. ASSUME NEW t \in Starts, ExitThread(t) PROVE FatalWhenFull'
  <2>1. ExitDoes(t)
    BY <1>12, ExitDoesLemma
  <2>2. ~fatal
    BY <1>12 DEF ExitThread, AtStart, AtThread
  <2>3. fatal' = fatal
    BY <2>1 DEF ExitDoes
  <2>4. QED
    BY <2>2, <2>3 DEF FatalWhenFull
<1>13. CASE UNCHANGED ttVars
  BY <1>13 DEF ttVars, ttStart, ttHist, TtInv, FatalWhenFull
<1>14. QED
  BY <1>1, <1>2, <1>3, <1>4, <1>5, <1>6, <1>7, <1>8, <1>9, <1>10, <1>11, <1>12, <1>13 DEF TtNext, StartStep, ThreadRuns

(* The table starts empty.                                                 *)
LEMMA TtInvHolds == TtSpec => []TtInv
<1>1. TtInit => TtInv
  <2> SUFFICES ASSUME TtInit PROVE TtInv
    OBVIOUS
  <2>1. /\ 0 \in Actors /\ NoName \in Actors \X (0 .. MaxNames) /\ 0 \in 0 .. MaxNames
        /\ 0 \in 0 .. MaxThread + 1 /\ 0 \in 0 .. MaxThread /\ 0 \in 0 .. MaxStarts + 1
    BY ThreadTableAssumption DEF Actors, MainThread, NoName
  <2>2. EmptySlot \in SlotType /\ EmptySlot.iPid = 0 /\ ~EmptySlot.iFlgs
    BY <2>1 DEF EmptySlot, SlotType
  <2>3. TtTypes
    <3>1. tIDT \in [Table -> SlotType] /\ LockTypes /\ fatal \in BOOLEAN
      BY <2>1, <2>2 DEF TtInit, LockTypes
    <3>2. StartTypes
      BY <2>1 DEF TtInit, StartTypes
    <3>3. ThreadTypes
      BY <2>1 DEF TtInit, ThreadTypes
    <3>4. HistTypes
      BY DEF TtInit, HistTypes
    <3>5. QED
      BY <3>1, <3>2, <3>3, <3>4 DEF TtTypes
  <2>4. CallsAreOwn
    BY <2>1 DEF TtInit, CallsAreOwn, CallMade, SlotChosen, ThreadMade
  <2>5. TableLocked
    <3>1. \A a \in Actors : a + 1 # 0
      BY ThreadTableAssumption DEF Actors, Starts, MainThread
    <3>2. QED
      BY <3>1 DEF TtInit, TableLocked
  <2>6. PidsDiffer /\ PidInTable
    BY <2>2 DEF TtInit, PidsDiffer, PidInTable
  <2>7. \A b \in Actors, t \in Starts : ~Filling(b) /\ ~Holding(t)
    BY DEF TtInit, Filling, Holding, TtAlive
  <2>8. OneHolder
    <3>1. \A b \in Actors : ~Filling(b)
      BY DEF TtInit, Filling
    <3>2. \A t \in Starts : ~Holding(t)
      BY DEF TtInit, Holding, TtAlive
    <3>3. QED
      BY <3>1, <3>2 DEF OneHolder, OneFiller, OneThread, NotBoth, LostIsLost
  <2>9. UsedSlots
    <3>1. ASSUME NEW s \in Table PROVE ~tIDT[s].iFlgs /\ ~TtHeld(s) /\ s \notin lost
      BY <2>2 DEF TtInit, TtHeld, TtAlive
    <3>2. QED
      BY <3>1 DEF UsedSlots
  <2>10. ClaimsFree /\ ClearedEarly
    BY DEF TtInit, ClaimsFree, ClearedEarly, CallEarly, ThreadEarly
  <2>11. SlotSays
    BY DEF TtInit, SlotSays, CallSays, ThreadSays, TtAlive
  <2>12. RunsWhatWasAsked /\ ScanFinds /\ FatalWhenFull
    BY DEF TtInit, RunsWhatWasAsked, ScanFinds, FatalWhenFull
  <2>13. QED
    BY <2>3, <2>4, <2>5, <2>6, <2>8, <2>9, <2>10, <2>11, <2>12 DEF TtInv
<1>2. TtInv /\ [TtNext]_ttVars => TtInv'
  <2> SUFFICES ASSUME TtInv, [TtNext]_ttVars PROVE TtInv'
    OBVIOUS
  <2>1. TtTypes' /\ TableLocked' /\ PidsDiffer' /\ PidInTable'
    BY TtNextTypes, TtNextLocked, TtNextPids, TtNextPid
  <2>2. CallsAreOwn'
    BY TtNextMade, TtNextChosen, TtNextThread DEF CallsAreOwn
  <2>3. SlotSays'
    BY TtNextCall, TtNextThreadSays DEF SlotSays
  <2>4. OneHolder' /\ UsedSlots' /\ ClaimsFree' /\ ClearedEarly'
    BY TtNextHolder, TtNextUsed, TtNextClaims, TtNextEarly
  <2>5. RunsWhatWasAsked' /\ (~fatal => ScanFinds)' /\ FatalWhenFull'
    BY TtNextRuns, TtNextFinds, TtNextFull
  <2>6. QED
    BY <2>1, <2>2, <2>3, <2>4, <2>5 DEF TtInv
<1>3. QED
  BY <1>1, <1>2, PTL DEF TtSpec

(* ThreadsAreOwn: whatever the number of slots, calls and pids, a thread   *)
(* calls the function it was started for in a slot of its own, is told its *)
(* own name, and slots are used up only by threads.  It holds although     *)
(* stlThreadStart fills the slot after it gave the lock back, and threads  *)
(* write and clear their slots without it: iFlgs alone keeps them apart.   *)
THEOREM ThreadSlotsAreOwn == TtSpec => []ThreadsAreOwn
<1>1. TtInv => ThreadsAreOwn
  <2> SUFFICES ASSUME TtInv PROVE ThreadsAreOwn
    OBVIOUS
  <2>1. TtTypeOK
    BY DEF TtInv, TtTypes, TtTypeOK, SlotType, LockTypes, StartTypes, ThreadTypes, HistTypes
  <2>2. SlotOfOne
    BY DEF TtInv, OneHolder, OneThread, SlotOfOne, Holding
  <2>3. NameIsOwn
    <3>1. ASSUME NEW t \in Starts, tpc[t] = "run", t \notin early
          PROVE  OwnSlot(t) # 0 /\ tIDT[OwnSlot(t)].sName = name[t]
      <4>1. tIDT[TD[t]].iPid = pid[t] /\ tIDT[TD[t]].sName = name[t]
        BY <3>1 DEF TtInv, SlotSays, ThreadSays, TtAlive
      <4>2. QED
        BY <3>1, <4>1, OwnSlotIs
    <3>2. QED
      BY <3>1 DEF NameIsOwn
  <2>4. QED
    BY <2>1, <2>2, <2>3 DEF TtInv, ThreadsAreOwn
<1>2. QED
  BY <1>1, TtInvHolds, PTL
=============================================================================
