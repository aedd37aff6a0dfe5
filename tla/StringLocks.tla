---------------------------- MODULE StringLocks -----------------------------
(***************************************************************************)
(* The strings of libStl as threads share them: each has a mutex, which a  *)
(* call takes (_strTlLockVar) and gives back (strtl_base.c, stl_append.c). *)
(* On Linux it is not recursive.  A text is a sequence of pieces of two    *)
(* characters, so that a piece can be torn: the room for it is made first  *)
(* (Garbage), then it is written.  A program does not begin a call with a  *)
(* string that it is freeing.                                              *)
(***************************************************************************)
EXTENDS Integers, Sequences, FiniteSets

CONSTANTS
  StringUsers,           (* threads                                        *)
  StringNames,           (* strings                                        *)
  MaxStringCalls,        (* BOUND: calls                                   *)
  MaxShared              (* BOUND: length of a string                      *)

(* 0 stands for no thread.                                                 *)
ASSUME StringLocksAssumption ==
  /\ 0 \notin StringUsers /\ StringUsers # {}
  /\ MaxStringCalls \in Nat /\ MaxShared \in Nat

VARIABLES
  shared,                (* the text of each string, or Freed              *)
  _mux,                  (* the thread that has its mutex, or 0            *)
  job,                   (* what each thread does: [op, dst, src, pc, new] *)
  copies,                (* HISTORY: texts that stlCopy gave               *)
  tooLate,               (* HISTORY: calls that had not got the mutex when *)
                         (* the string was about to be freed               *)
  stringCalls
lkVars == <<shared, _mux, job, copies, tooLate, stringCalls>>

Garbage == <<0, 0>>
Freed == <<<<0, 1>>>>
Piece(t) == <<<<t, 1>>, <<t, 2>>>>
NoJob == [op |-> "none", dst |-> "", src |-> "", pc |-> "idle", new |-> 0]
Ops == {"append", "appendStp", "exchange", "copy", "free"}
TwoLocks == {"appendStp", "exchange"}

-----------------------------------------------------------------------------
(* The mutex.                                                              *)
IsFree(s) == _mux[s] = 0
Locked(s, t) == [_mux EXCEPT ![s] = t]
Without(m, s) == [m EXCEPT ![s] = 0]
Holds(t, s) == _mux[s] = t

JobGoes(t, to) == job' = [job EXCEPT ![t].pc = to]
Uses(t, s) == job[t].op # "none" /\ s \in {job[t].dst, job[t].src}

BeginCall(t) ==
  /\ job[t].pc = "idle" /\ stringCalls < MaxStringCalls /\ stringCalls' = stringCalls + 1
  /\ \E op \in Ops, d \in StringNames, s \in StringNames :
       /\ op \notin TwoLocks => s = d
       /\ \A x \in {d, s} : shared[x] # Freed /\ \A u \in StringUsers : ~(job[u].op = "free" /\ job[u].dst = x)
       /\ job' = [job EXCEPT ![t] = [op |-> op, dst |-> d, src |-> s, pc |-> "lock", new |-> 0]]
  /\ UNCHANGED <<shared, _mux, copies, tooLate>>

(* The first string is locked first, whichever it is.                      *)
FreeNeedsLock_Not(t) == job[t].op # "free"                   \* mutant
FreeNeedsLock(t) == TRUE
LockFirst(t) ==
  /\ job[t].pc = "lock"
  /\ LET s == job[t].dst IN
     IF FreeNeedsLock(t) THEN IsFree(s) /\ _mux' = Locked(s, t) ELSE UNCHANGED _mux
  /\ tooLate' = IF job[t].op # "free" THEN tooLate
               ELSE tooLate \cup {u \in StringUsers \ {t} : Uses(u, job[t].dst) /\ ~Holds(u, job[t].dst)}
  /\ JobGoes(t, IF job[t].op \in TwoLocks THEN "lock2" ELSE "work")
  /\ UNCHANGED <<shared, copies, stringCalls>>
LocksSource_Not(t) == UNCHANGED _mux                         \* mutant
LocksSource(t) == IsFree(job[t].src) /\ _mux' = Locked(job[t].src, t)
Lock2(t) ==
  /\ job[t].pc = "lock2" /\ LocksSource(t)
  /\ JobGoes(t, "work")
  /\ UNCHANGED <<shared, copies, tooLate, stringCalls>>

(* _strTlInsDel makes room; then the text is copied.                       *)
Room(n) == [i \in 1 .. n |-> Garbage]
MakeRoom(t) ==
  LET d == job[t].dst
      n == IF job[t].op = "append" THEN 2 ELSE Len(shared[job[t].src])
  IN /\ job[t].pc = "work" /\ job[t].op \in {"append", "appendStp"}
     /\ Len(shared[d]) + n <= MaxShared
     /\ shared' = [shared EXCEPT ![d] = @ \o Room(n)]
     /\ job' = [job EXCEPT ![t].pc = "write", ![t].new = Len(shared[d])]
     /\ UNCHANGED <<_mux, copies, tooLate, stringCalls>>
WriteText(t) ==
  LET d == job[t].dst
      at == job[t].new
      text == IF job[t].op = "append" THEN Piece(t) ELSE shared[job[t].src]
  IN /\ job[t].pc = "write"
     /\ shared' = [shared EXCEPT ![d] = [i \in DOMAIN @ |->
                     IF i > at /\ i <= at + Len(text) THEN text[i - at] ELSE @[i]]]
     /\ JobGoes(t, "unlock")
     /\ UNCHANGED <<_mux, copies, tooLate, stringCalls>>
Exchange(t) ==
  /\ job[t].pc = "work" /\ job[t].op = "exchange"
  /\ shared' = [shared EXCEPT ![job[t].dst] = shared[job[t].src], ![job[t].src] = shared[job[t].dst]]
  /\ JobGoes(t, "unlock")
  /\ UNCHANGED <<_mux, copies, tooLate, stringCalls>>
Copy(t) ==
  /\ job[t].pc = "work" /\ job[t].op = "copy"
  /\ copies' = copies \cup {shared[job[t].dst]} /\ JobGoes(t, "unlock")
  /\ UNCHANGED <<shared, _mux, tooLate, stringCalls>>

(* stlFree gives the mutex back before it frees.                           *)
FreeUnlocks(t) ==
  /\ job[t].pc = "work" /\ job[t].op = "free"
  /\ _mux' = IF FreeNeedsLock(t) THEN Without(_mux, job[t].dst) ELSE _mux
  /\ JobGoes(t, "free")
  /\ UNCHANGED <<shared, copies, tooLate, stringCalls>>
FreeMemory(t) ==
  /\ job[t].pc = "free"
  /\ shared' = [shared EXCEPT ![job[t].dst] = Freed]
  /\ job' = [job EXCEPT ![t] = NoJob]
  /\ UNCHANGED <<_mux, copies, tooLate, stringCalls>>

UnlockAll_First(t) == Without(_mux, job[t].dst)                \* mutant
UnlockAll(t) ==
  IF job[t].op \in TwoLocks THEN Without(Without(_mux, job[t].src), job[t].dst) ELSE Without(_mux, job[t].dst)
UnlockStrings(t) ==
  /\ job[t].pc = "unlock" /\ _mux' = UnlockAll(t)
  /\ job' = [job EXCEPT ![t] = NoJob]
  /\ UNCHANGED <<shared, copies, tooLate, stringCalls>>

(* A freed string is undefined: only calls with strings that are there go  *)
(* on.                                                                     *)
Touches(t) == job[t].pc \in {"work", "write"}
OnFreed(t) == Touches(t) /\ job[t].op # "free" /\ \E s \in {job[t].dst, job[t].src} : shared[s] = Freed

LkInit ==
  /\ shared = [s \in StringNames |-> << >>] /\ _mux = [s \in StringNames |-> 0]
  /\ job = [t \in StringUsers |-> NoJob]
  /\ copies = {} /\ tooLate = {} /\ stringCalls = 0
LkNext ==
  /\ \A t \in StringUsers : ~OnFreed(t)
  /\ \E t \in StringUsers :
       \/ BeginCall(t) \/ LockFirst(t) \/ Lock2(t) \/ MakeRoom(t) \/ WriteText(t) \/ Exchange(t)
       \/ Copy(t) \/ FreeUnlocks(t) \/ FreeMemory(t) \/ UnlockStrings(t)
LkSpec == LkInit /\ [][LkNext]_lkVars

-----------------------------------------------------------------------------
(* A text, and every copy of it, is made of whole pieces, whichever calls  *)
(* went on at once.                                                        *)
Whole(text) ==
  \A i \in DOMAIN text :
    /\ text[i] # Garbage
    /\ IF text[i][2] = 1 THEN i < Len(text) /\ text[i + 1] = <<text[i][1], 2>>
       ELSE i > 1 /\ text[i - 1] = <<text[i][1], 1>>
Undefined == \E t \in StringUsers : OnFreed(t)
TextsWhole ==
  ~Undefined =>
    /\ \A text \in copies \ {Freed} : Whole(text)
    /\ \A s \in StringNames : IsFree(s) /\ shared[s] # Freed => Whole(shared[s])

(* A string is freed while a call uses it only when the call had not got   *)
(* the mutex when stlFree did.                                             *)
FreeWaits == \A t \in StringUsers : OnFreed(t) => t \in tooLate

(* Threads wait for ever only when each that locks its second string waits *)
(* for one that locks its second, in a ring: two that lock two strings in  *)
(* opposite orders, more that lock more of them so, or one that appends a  *)
(* string to itself or exchanges it with itself.                           *)
WaitsFor(t) == CASE job[t].pc = "lock" -> job[t].dst [] job[t].pc = "lock2" -> job[t].src [] OTHER -> ""
Blocked(t) == WaitsFor(t) # "" /\ ~IsFree(WaitsFor(t))
StuckOnlyCrossed ==
  (\A t \in StringUsers : Blocked(t)) =>
    /\ \E t \in StringUsers : job[t].pc = "lock2"
    /\ \A t \in StringUsers : job[t].pc = "lock2" =>
         \E u \in StringUsers : job[u].pc = "lock2" /\ job[u].dst = job[t].src

SharedStringsKept == TextsWhole /\ FreeWaits /\ StuckOnlyCrossed
=============================================================================
