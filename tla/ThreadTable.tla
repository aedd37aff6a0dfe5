---------------------------- MODULE ThreadTable -----------------------------
(***************************************************************************)
(* The table of threads of stl_thread.c (Linux): stlThreadStart claims a   *)
(* slot of tIDT under mtxThTbl, fills it and makes the thread; the thread  *)
(* writes its iPid, calls its function and clears the slot, without the    *)
(* lock.  Names are looked up and set by iPid, without the lock.           *)
(*                                                                         *)
(* The memset that clears a slot is not one store: iFlgs, the first field, *)
(* may be zero before or after the other fields are.  What a slot is for   *)
(* (start_address, pData) is the number of the call that asked for it.     *)
(* The first call is made while there is one thread, so _stlThreadInit is  *)
(* done before the table is shared.  stlThreadPidNameSet is not used by    *)
(* the library and is left out.                                            *)
(***************************************************************************)
EXTENDS Integers, FiniteSets

CONSTANTS
  MaxThread,     (* slots: _MaxThread_, 2048 in the code                   *)
  Pids,          (* pthread ids: free again when a thread is gone          *)
  MaxStarts,     (* BOUND: calls of stlThreadStart                         *)
  MaxNames       (* BOUND: names given by one thread                       *)

ASSUME ThreadTableAssumption ==
  /\ MaxThread \in Nat \ {0} /\ MaxStarts \in Nat /\ MaxNames \in Nat
  /\ Pids \subseteq Nat \ {0} /\ IsFiniteSet(Pids)

MainThread == 0
Starts == 1 .. MaxStarts              (* a call, and the thread it makes   *)
Actors == {MainThread} \cup Starts    (* who may call stlThreadStart       *)
Table == 1 .. MaxThread

(* A slot after memset.  sName is who gave the name and how often it had.  *)
NoName == <<0, 0>>
EmptySlot == [iFlgs |-> FALSE, iPid |-> 0, start |-> 0, sName |-> NoName]

VARIABLES
  tIDT, mtxThTbl,   (* mtxThTbl: 0 is free, or the actor + 1               *)
  fatal,            (* the process ends: no more threads available         *)
  spc, stTD, made,  (* a caller of stlThreadStart, its slot, its number    *)
  asked,            (* calls so far                                        *)
  tpc, TD, pid,     (* the threads                                         *)
  ttRan,            (* the function a thread has called, 0 none yet, -1  *)
                    (* for a NULL start_address                            *)
  names, name,      (* HISTORY: names given; the name last given to a      *)
                    (* thread, at its start or by itself                   *)
  early,            (* HISTORY: calls whose slot was still being cleared   *)
                    (* when they claimed it                                *)
  lost,             (* HISTORY: slots nobody gives back: no thread was     *)
                    (* made, or stlThreadAbort did not find its slot       *)
  allUsed           (* HISTORY: no slot was free when the caller locked    *)

ttStart == <<spc, stTD, made, asked>>
ttThread == <<tpc, TD, pid, ttRan, names, name>>
ttHist == <<early, lost, allUsed>>
ttVars == <<tIDT, mtxThTbl, fatal, ttStart, ttThread, ttHist>>

TtInit ==
  /\ tIDT = [s \in Table |-> EmptySlot]
  /\ mtxThTbl = 0 /\ fatal = FALSE
  /\ spc = [a \in Actors |-> "idle"]
  /\ stTD = [a \in Actors |-> 0]
  /\ made = [a \in Actors |-> 0]
  /\ asked = 0
  /\ tpc = [t \in Starts |-> "none"]
  /\ TD = [t \in Starts |-> 0]
  /\ pid = [t \in Starts |-> 0]
  /\ ttRan = [t \in Starts |-> 0]
  /\ names = [t \in Starts |-> 0]
  /\ name = [t \in Starts |-> NoName]
  /\ early = {} /\ lost = {}
  /\ allUsed = [a \in Actors |-> FALSE]

CanCall(a) == IF a = MainThread THEN TRUE ELSE tpc[a] = "run"
AtStart(a, label) == ~fatal /\ spc[a] = label
GotoStart(a, label) == spc' = [spc EXCEPT ![a] = label]

-----------------------------------------------------------------------------
(* stlThreadStart and _stlNewThIdData.                                     *)

CallStart(a) ==
  /\ AtStart(a, "idle") /\ CanCall(a) /\ asked < MaxStarts
  /\ asked' = asked + 1
  /\ made' = [made EXCEPT ![a] = asked + 1]
  /\ GotoStart(a, "lock")
  /\ UNCHANGED <<tIDT, mtxThTbl, fatal, stTD, ttThread, ttHist>>

TableFree_Ignored == TRUE                                  \* mutant
TableFree == mtxThTbl = 0

LockTable(a) ==
  /\ AtStart(a, "lock") /\ TableFree
  /\ mtxThTbl' = a + 1
  /\ stTD' = [stTD EXCEPT ![a] = 1]
  /\ allUsed' = [allUsed EXCEPT ![a] = \A s \in Table : tIDT[s].iFlgs]
  /\ GotoStart(a, "scan")
  /\ UNCHANGED <<tIDT, fatal, made, asked, ttThread, early, lost>>

LastThread_OffByOne == MaxThread - 1                       \* mutant
LastThread == MaxThread

ScanTable(a) ==
  /\ AtStart(a, "scan")
  /\ \/ /\ stTD[a] > LastThread
        /\ mtxThTbl' = 0 /\ fatal' = TRUE
        /\ UNCHANGED <<stTD, spc>>
     \/ /\ stTD[a] <= LastThread /\ tIDT[stTD[a]].iFlgs
        /\ stTD' = [stTD EXCEPT ![a] = @ + 1]
        /\ UNCHANGED <<mtxThTbl, fatal, spc>>
     \/ /\ stTD[a] <= LastThread /\ ~tIDT[stTD[a]].iFlgs
        /\ GotoStart(a, "claim")
        /\ UNCHANGED <<mtxThTbl, fatal, stTD>>
  /\ UNCHANGED <<tIDT, made, asked, ttThread, ttHist>>

Clearing(s) == \E t \in Starts : tpc[t] = "then rest" /\ TD[t] = s

ClaimSlot(a) ==
  /\ AtStart(a, "claim")
  /\ tIDT' = [tIDT EXCEPT ![stTD[a]] = [EmptySlot EXCEPT !.iFlgs = TRUE]]
  /\ early' = IF Clearing(stTD[a]) THEN early \cup {made[a]} ELSE early
  /\ mtxThTbl' = 0
  /\ GotoStart(a, "fill")
  /\ UNCHANGED <<fatal, stTD, made, asked, ttThread, lost, allUsed>>

FillSlot(a) ==
  /\ AtStart(a, "fill")
  /\ tIDT' = [tIDT EXCEPT ![stTD[a]].start = made[a],
                          ![stTD[a]].sName = <<made[a], 0>>]
  /\ GotoStart(a, "create")
  /\ UNCHANGED <<mtxThTbl, fatal, stTD, made, asked, ttThread, ttHist>>

FreePids == Pids \ {pid[t] : t \in {u \in Starts : tpc[u] # "none"}}

(* pthread_create makes the thread or fails: nobody looks at its result.   *)
CreateThread(a) ==
  /\ AtStart(a, "create")
  /\ \/ \E p \in FreePids :
          /\ tpc' = [tpc EXCEPT ![made[a]] = "new"]
          /\ TD' = [TD EXCEPT ![made[a]] = stTD[a]]
          /\ pid' = [pid EXCEPT ![made[a]] = p]
          /\ name' = [name EXCEPT ![made[a]] = <<made[a], 0>>]
          /\ UNCHANGED lost
     \/ lost' = lost \cup {stTD[a]} /\ UNCHANGED <<tpc, TD, pid, name>>
  /\ GotoStart(a, "idle")
  /\ stTD' = [stTD EXCEPT ![a] = 0]
  /\ made' = [made EXCEPT ![a] = 0]
  /\ UNCHANGED <<tIDT, mtxThTbl, fatal, asked, ttRan, names, early, allUsed>>

-----------------------------------------------------------------------------
(* StartTask, stlThreadAbort and the names.                                *)

AtThread(t, label) == ~fatal /\ tpc[t] = label
GotoThread(t, label) == tpc' = [tpc EXCEPT ![t] = label]

WritePid(t) ==
  /\ AtThread(t, "new")
  /\ tIDT' = [tIDT EXCEPT ![TD[t]].iPid = pid[t]]
  /\ GotoThread(t, "call")
  /\ UNCHANGED <<mtxThTbl, fatal, ttStart, TD, pid, ttRan, names, name, ttHist>>

CallFunction(t) ==
  /\ AtThread(t, "call")
  /\ ttRan' = [ttRan EXCEPT ![t] = IF tIDT[TD[t]].start = 0 THEN -1 ELSE tIDT[TD[t]].start]
  /\ GotoThread(t, "run")
  /\ UNCHANGED <<tIDT, mtxThTbl, fatal, ttStart, TD, pid, names, name, ttHist>>

(* The first slot with the iPid of the caller, 0 when there is none.       *)
OwnSlot(t) ==
  LET own == {s \in Table : tIDT[s].iPid = pid[t]}
  IN  IF own = {} THEN 0 ELSE CHOOSE s \in own : \A r \in own : s <= r

stlThreadNameSet(t) ==
  /\ AtThread(t, "run") /\ names[t] < MaxNames
  /\ names' = [names EXCEPT ![t] = @ + 1]
  /\ IF OwnSlot(t) = 0 THEN UNCHANGED <<tIDT, name>>
     ELSE /\ tIDT' = [tIDT EXCEPT ![OwnSlot(t)].sName = <<t, names[t] + 1>>]
          /\ name' = [name EXCEPT ![t] = <<t, names[t] + 1>>]
  /\ UNCHANGED <<mtxThTbl, fatal, ttStart, tpc, TD, pid, ttRan, ttHist>>

IdleCaller(t) == spc[t] = "idle"

(* The function returns, or the thread calls stlThreadAbort, which looks   *)
(* its slot up: TD is the slot that is cleared.                            *)
EndThread(t) ==
  /\ AtThread(t, "run") /\ IdleCaller(t)
  /\ \/ /\ \/ UNCHANGED TD
           \/ OwnSlot(t) # 0 /\ TD' = [TD EXCEPT ![t] = OwnSlot(t)]
        /\ \E half \in {"clear rest", "clear flag"} : GotoThread(t, half)
        /\ UNCHANGED lost
     \/ /\ OwnSlot(t) = 0
        /\ lost' = lost \cup {TD[t]}
        /\ GotoThread(t, "exit") /\ UNCHANGED TD
  /\ UNCHANGED <<tIDT, mtxThTbl, fatal, ttStart, pid, ttRan, names, name, early, allUsed>>

ClearedRest_KeepsPid(slot) == [EmptySlot EXCEPT !.iFlgs = slot.iFlgs, !.iPid = slot.iPid]  \* mutant
ClearedRest(slot) == [EmptySlot EXCEPT !.iFlgs = slot.iFlgs]

ClearedFlag_Kept(slot) == slot                             \* mutant
ClearedFlag(slot) == [slot EXCEPT !.iFlgs = FALSE]

(* The two parts of the memset, in the order the build makes them.         *)
ClearSlot(t) ==
  /\ \/ /\ AtThread(t, "clear rest")
        /\ tIDT' = [tIDT EXCEPT ![TD[t]] = ClearedRest(@)]
        /\ GotoThread(t, "then flag")
     \/ /\ AtThread(t, "clear flag")
        /\ tIDT' = [tIDT EXCEPT ![TD[t]] = ClearedFlag(@)]
        /\ GotoThread(t, "then rest")
     \/ /\ AtThread(t, "then flag")
        /\ tIDT' = [tIDT EXCEPT ![TD[t]] = ClearedFlag(@)]
        /\ GotoThread(t, "exit")
     \/ /\ AtThread(t, "then rest")
        /\ tIDT' = [tIDT EXCEPT ![TD[t]] = ClearedRest(@)]
        /\ GotoThread(t, "exit")
  /\ UNCHANGED <<mtxThTbl, fatal, ttStart, TD, pid, ttRan, names, name, ttHist>>

ExitThread(t) ==
  /\ AtThread(t, "exit")
  /\ GotoThread(t, "none")
  /\ UNCHANGED <<tIDT, mtxThTbl, fatal, ttStart, TD, pid, ttRan, names, name, ttHist>>

-----------------------------------------------------------------------------

StartStep(a) ==
  LockTable(a) \/ ScanTable(a) \/ ClaimSlot(a) \/ FillSlot(a) \/ CreateThread(a)

ThreadRuns(t) ==
  \/ WritePid(t) \/ CallFunction(t)
  \/ stlThreadNameSet(t) \/ EndThread(t)
  \/ ClearSlot(t) \/ ExitThread(t)

TtNext ==
  \/ \E a \in Actors : CallStart(a) \/ StartStep(a)
  \/ \E t \in Starts : ThreadRuns(t)

TtSpec == TtInit /\ [][TtNext]_ttVars

-----------------------------------------------------------------------------
(* Properties.                                                             *)

(* Type invariant.                                                         *)
TtTypeOK ==
  /\ tIDT \in [Table -> [iFlgs : BOOLEAN, iPid : Pids \cup {0}, start : Actors,
                         sName : Actors \X (0 .. MaxNames)]]
  /\ mtxThTbl \in 0 .. MaxStarts + 1 /\ fatal \in BOOLEAN
  /\ spc \in [Actors -> {"idle", "lock", "scan", "claim", "fill", "create"}]
  /\ stTD \in [Actors -> 0 .. MaxThread + 1] /\ made \in [Actors -> Actors]
  /\ asked \in Actors
  /\ tpc \in [Starts -> {"none", "new", "call", "run", "clear rest", "clear flag",
                        "then rest", "then flag", "exit"}]
  /\ TD \in [Starts -> 0 .. MaxThread] /\ pid \in [Starts -> Pids \cup {0}]
  /\ ttRan \in [Starts -> {-1} \cup Actors]
  /\ early \subseteq Starts /\ lost \subseteq Table

TtAlive(t) == tpc[t] \in {"new", "call", "run"}

(* A thread calls the function it was started for, with its data, although *)
(* slots are given back without the lock.  The exception is a thread whose *)
(* slot was claimed between the two halves of the memset that freed it.    *)
RunsWhatWasAsked == \A t \in Starts : ttRan[t] \in {0, t} \/ t \in early

(* No two threads share a slot.                                            *)
SlotOfOne == \A t, u \in Starts : TtAlive(t) /\ TtAlive(u) /\ TD[t] = TD[u] => t = u

TtHeld(s) ==
  \/ \E a \in Actors : spc[a] \in {"fill", "create"} /\ stTD[a] = s
  \/ \E t \in Starts : TD[t] = s /\ (TtAlive(t) \/ tpc[t] \in {"clear rest", "clear flag", "then flag"})

(* The slots marked in use are those of threads and of calls under way, so *)
(* that a slot is given out once and comes back: only a pthread_create     *)
(* that fails, or an abort that does not find its slot, loses one.         *)
UsedSlots == \A s \in Table : tIDT[s].iFlgs <=> TtHeld(s) \/ s \in lost

(* A running thread that asks for its name is told its own, the one it was *)
(* started with or gave itself, also when its iPid was that of a thread    *)
(* before.                                                                 *)
NameIsOwn ==
  \A t \in Starts :
    tpc[t] = "run" /\ t \notin early
      => OwnSlot(t) # 0 /\ tIDT[OwnSlot(t)].sName = name[t]

(* The process only ends for want of threads when no slot was free.        *)
FatalWhenFull == fatal => \E a \in Actors : spc[a] = "scan" /\ allUsed[a]

(* All of it: slot, function and name are those of one thread, and slots   *)
(* are used up only by threads.                                            *)
ThreadsAreOwn ==
  /\ TtTypeOK /\ RunsWhatWasAsked /\ SlotOfOne
  /\ UsedSlots /\ NameIsOwn /\ FatalWhenFull
=============================================================================
