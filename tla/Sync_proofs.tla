--------------------------------- MODULE Sync_proofs -----------------------------
(***************************************************************************)
(* Proofs about what threads lock: the mutexes of strings (StringLocks)    *)
(* and the two mutexes an event is made of (StlEvent).                     *)
(*                                                                         *)
(* Strings: LkInv says whose each mutex is (MuxHeld), that nobody but its  *)
(* owner writes into a text, so that every text is whole but the one that  *)
(* is being written, whose first part is (RoomMade), and that who uses a   *)
(* string that is being freed is among those known to be too late.         *)
(*                                                                         *)
(* Events: EvInv tells the three usual ways to use one apart.  An auto     *)
(* reset event counts what was raised and not taken; a manual event has    *)
(* one thread that holds mWait at most, and the flag of the thread that    *)
(* steers it tells whether it is up; a waiter that has passed in a shot    *)
(* stays inside it, since the shooter has mux.                             *)
(***************************************************************************)
EXTENDS StringLocks, StlEvent, SequenceTheorems, TLAPS

-----------------------------------------------------------------------------
(* Strings.                                                                *)
(* Texts are sequences of halves of pieces.                                *)
Cells == (StringUsers \X {1, 2}) \cup {Garbage}
Jobs == [op : Ops \cup {"none"}, dst : StringNames \cup {""}, src : StringNames \cup {""},
         pc : {"idle", "lock", "lock2", "work", "write", "unlock", "free"}, new : Nat]
LkTypes ==
  /\ shared \in [StringNames -> Seq(Cells) \cup {Freed}]
  /\ _mux \in [StringNames -> StringUsers \cup {0}]
  /\ job \in [StringUsers -> Jobs]
  /\ tooLate \in SUBSET StringUsers
(* Which calls are where.                                                  *)
JobOf(t) ==
  /\ job[t].pc = "idle" <=> job[t].op = "none"
  /\ job[t].op # "none" => job[t].dst \in StringNames /\ job[t].src \in StringNames
  /\ job[t].op \notin TwoLocks => job[t].src = job[t].dst
  /\ job[t].pc = "lock2" => job[t].op \in TwoLocks
  /\ job[t].pc = "write" => job[t].op \in {"append", "appendStp"}
  /\ job[t].pc = "free" => job[t].op = "free"
  /\ job[t].pc \in {"work", "write", "unlock"} /\ job[t].op \in TwoLocks => job[t].dst # job[t].src
JobTyped == \A t \in StringUsers : JobOf(t)
(* A mutex is of the thread whose call has come so far.                    *)
Has(t, s) ==
  \/ job[t].dst = s /\ job[t].pc \in {"lock2", "work", "write", "unlock"}
  \/ job[t].src = s /\ job[t].op \in TwoLocks /\ job[t].pc \in {"work", "write", "unlock"}
MuxHeld == \A t \in StringUsers, s \in StringNames : _mux[s] = t <=> Has(t, s)
(* Who uses a string that is being freed, or was, is known to be too late. *)
FreeComes ==
  \A t \in StringUsers : job[t].op = "free" /\ job[t].pc \in {"work", "free"} =>
    \A u \in StringUsers : u # t /\ Uses(u, job[t].dst) => u \in tooLate
FreedLate ==
  \A s \in StringNames : shared[s] = Freed => \A u \in StringUsers : Uses(u, s) => u \in tooLate
(* The first n halves are whole pieces.                                    *)
WholeTo(text, n) ==
  \A i \in 1 .. n :
    /\ text[i] # Garbage
    /\ IF text[i][2] = 1 THEN i < n /\ text[i + 1] = <<text[i][1], 2>>
       ELSE i > 1 /\ text[i - 1] = <<text[i][1], 1>>
Written(s) == \E t \in StringUsers : job[t].pc = "write" /\ job[t].dst = s
TextsRight == \A s \in StringNames : shared[s] # Freed /\ ~Written(s) => Whole(shared[s])
(* A text that is written has room behind what was whole before.           *)
TextLen(t) == IF job[t].op = "append" THEN 2 ELSE Len(shared[job[t].src])
RoomOf(t) ==
  /\ Len(shared[job[t].dst]) = job[t].new + TextLen(t)
  /\ WholeTo(shared[job[t].dst], job[t].new)
RoomMade == \A t \in StringUsers : job[t].pc = "write" /\ ~OnFreed(t) => RoomOf(t)
CopiesWhole == \A text \in copies : Whole(text)
LkInv ==
  /\ LkTypes /\ JobTyped /\ MuxHeld
  /\ FreeComes /\ FreedLate
  /\ TextsRight /\ RoomMade /\ CopiesWhole

(* What each action does.                                                  *)
JobIs(t, op, d, s, to, n) ==
  /\ job'[t].op = op /\ job'[t].dst = d /\ job'[t].src = s /\ job'[t].pc = to /\ job'[t].new = n
  /\ \A u \in StringUsers : u # t => job'[u] = job[u]
Goes(t, from, to) == job[t].pc = from /\ JobIs(t, job[t].op, job[t].dst, job[t].src, to, job[t].new)
Ends(t, from) == job[t].pc = from /\ JobIs(t, "none", "", "", "idle", 0)
MuxSet(s, x) == _mux'[s] = x /\ \A r \in StringNames : r # s => _mux'[r] = _mux[r]
TextSet(s, x) == shared'[s] = x /\ \A r \in StringNames : r # s => shared'[r] = shared[r]
Known(t) == job[t].dst \in StringNames /\ job[t].src \in StringNames /\ job[t].op \in Ops
Over(text, at, new) ==
  [i \in DOMAIN text |-> IF i > at /\ i <= at + Len(new) THEN new[i - at] ELSE text[i]]
NewText(t) == IF job[t].op = "append" THEN Piece(t) ELSE shared[job[t].src]
NotFreed(t) == shared[job[t].dst] # Freed /\ shared[job[t].src] # Freed

BeginCallDoes(t) ==
  /\ job[t].pc = "idle"
  /\ \E op \in Ops, d \in StringNames, s \in StringNames :
       /\ (op \notin TwoLocks) => s = d
       /\ shared[d] # Freed /\ shared[s] # Freed
       /\ \A u \in StringUsers : job[u].op = "free" => job[u].dst # d /\ job[u].dst # s
       /\ JobIs(t, op, d, s, "lock", 0)
  /\ UNCHANGED <<shared, _mux, copies, tooLate>>
LockFirstDoes(t) ==
  /\ Known(t) /\ _mux[job[t].dst] = 0 /\ MuxSet(job[t].dst, t)
  /\ tooLate \subseteq tooLate' /\ tooLate' \in SUBSET StringUsers
  /\ job[t].op = "free" => \A u \in StringUsers : u # t /\ Uses(u, job[t].dst) => u \in tooLate'
  /\ job[t].op \in TwoLocks => Goes(t, "lock", "lock2")
  /\ job[t].op \notin TwoLocks => Goes(t, "lock", "work")
  /\ UNCHANGED <<shared, copies>>
Lock2Does(t) ==
  /\ Known(t) /\ _mux[job[t].src] = 0 /\ MuxSet(job[t].src, t)
  /\ Goes(t, "lock2", "work") /\ UNCHANGED <<shared, copies, tooLate>>
MakeRoomDoes(t) ==
  /\ Known(t) /\ job[t].op \in {"append", "appendStp"} /\ NotFreed(t)
  /\ job[t].pc = "work"
  /\ JobIs(t, job[t].op, job[t].dst, job[t].src, "write", Len(shared[job[t].dst]))
  /\ TextSet(job[t].dst, shared[job[t].dst] \o Room(TextLen(t)))
  /\ UNCHANGED <<_mux, copies, tooLate>>
WriteTextDoes(t) ==
  /\ Known(t) /\ job[t].op \in {"append", "appendStp"} /\ NotFreed(t) /\ ~OnFreed(t)
  /\ Goes(t, "write", "unlock")
  /\ TextSet(job[t].dst, Over(shared[job[t].dst], job[t].new, NewText(t)))
  /\ UNCHANGED <<_mux, copies, tooLate>>
ExchangeDoes(t) ==
  /\ Known(t) /\ job[t].op = "exchange" /\ NotFreed(t) /\ Goes(t, "work", "unlock")
  /\ shared'[job[t].dst] = shared[job[t].src] /\ shared'[job[t].src] = shared[job[t].dst]
  /\ \A r \in StringNames \ {job[t].dst, job[t].src} : shared'[r] = shared[r]
  /\ UNCHANGED <<_mux, copies, tooLate>>
CopyDoes(t) ==
  /\ Known(t) /\ job[t].op = "copy" /\ NotFreed(t) /\ Goes(t, "work", "unlock")
  /\ copies' = copies \cup {shared[job[t].dst]}
  /\ UNCHANGED <<shared, _mux, tooLate>>
FreeUnlocksDoes(t) ==
  /\ Known(t) /\ job[t].op = "free" /\ Goes(t, "work", "free") /\ MuxSet(job[t].dst, 0)
  /\ UNCHANGED <<shared, copies, tooLate>>
FreeMemoryDoes(t) ==
  /\ Known(t) /\ job[t].op = "free" /\ Ends(t, "free") /\ TextSet(job[t].dst, Freed)
  /\ UNCHANGED <<_mux, copies, tooLate>>
UnlockStringsDoes(t) ==
  /\ Known(t) /\ Ends(t, "unlock")
  /\ _mux'[job[t].dst] = 0 /\ (job[t].op \in TwoLocks => _mux'[job[t].src] = 0)
  /\ \A r \in StringNames : r # job[t].dst /\ (r # job[t].src \/ job[t].op \notin TwoLocks) => _mux'[r] = _mux[r]
  /\ UNCHANGED <<shared, copies, tooLate>>

(* A call that is on its way names strings; where it works on them, they   *)
(* are not freed.                                                          *)
LEMMA CallIsKnown ==
  ASSUME LkInv, NEW t \in StringUsers, job[t].pc # "idle"
  PROVE  Known(t) /\ job[t] \in Jobs
<1>1. job[t] \in Jobs /\ job[t].op # "none"
  BY DEF LkInv, LkTypes, JobTyped, JobOf
<1>2. QED
  BY <1>1 DEF LkInv, JobTyped, JobOf, Known, Jobs

LEMMA WorksOnStrings ==
  ASSUME LkInv, NEW t \in StringUsers, ~OnFreed(t), Touches(t), job[t].op # "free"
  PROVE  NotFreed(t)
BY DEF OnFreed, NotFreed

LEMMA BeginCallDoesLemma ==
  ASSUME LkInv, NEW t \in StringUsers, ~OnFreed(t), BeginCall(t)
  PROVE  BeginCallDoes(t)
<1>0. LkTypes /\ JobTyped
  BY DEF LkInv
<1>1. PICK op \in Ops, d \in StringNames, s \in StringNames :
        /\ (op \notin TwoLocks) => s = d
        /\ \A x \in {d, s} : shared[x] # Freed /\ \A u \in StringUsers : ~(job[u].op = "free" /\ job[u].dst = x)
        /\ job' = [job EXCEPT ![t] = [op |-> op, dst |-> d, src |-> s, pc |-> "lock", new |-> 0]]
  BY DEF BeginCall
<1>2. JobIs(t, op, d, s, "lock", 0)
  BY <1>0, <1>1 DEF LkTypes, JobIs
<1>3. shared[d] # Freed /\ shared[s] # Freed
  BY <1>1
<1>4. \A u \in StringUsers : job[u].op = "free" => job[u].dst # d /\ job[u].dst # s
  BY <1>1
<1>5. job[t].pc = "idle" /\ UNCHANGED <<shared, _mux, copies, tooLate>>
  BY DEF BeginCall
<1>6. QED
  BY <1>1, <1>2, <1>3, <1>4, <1>5 DEF BeginCallDoes

LEMMA LockFirstDoesLemma ==
  ASSUME LkInv, NEW t \in StringUsers, ~OnFreed(t), LockFirst(t)
  PROVE  LockFirstDoes(t)
<1>0. LkTypes /\ JobTyped
  BY DEF LkInv
<1>1. Known(t) /\ job[t] \in Jobs
  BY CallIsKnown DEF LockFirst
<1>2. _mux[job[t].dst] = 0 /\ MuxSet(job[t].dst, t)
  BY <1>0, <1>1 DEF LkTypes, LockFirst, FreeNeedsLock, IsFree, Locked, MuxSet, Known
<1>3. tooLate \subseteq tooLate' /\ tooLate' \in SUBSET StringUsers
  BY <1>0 DEF LkTypes, LockFirst
<1>4. ASSUME job[t].op = "free", NEW u \in StringUsers, u # t, Uses(u, job[t].dst) PROVE u \in tooLate'
  <2>1. u # 0
    BY StringLocksAssumption
  <2>2. ~Holds(u, job[t].dst)
    BY <1>2, <2>1 DEF Holds
  <2>3. QED
    BY <1>4, <2>2 DEF LockFirst
<1>5. job' = [job EXCEPT ![t].pc = IF job[t].op \in TwoLocks THEN "lock2" ELSE "work"]
  BY DEF LockFirst, JobGoes
<1>9. job[t].pc = "lock"
  BY DEF LockFirst
<1>6. ASSUME job[t].op \in TwoLocks PROVE Goes(t, "lock", "lock2")
  <2>1. job' = [job EXCEPT ![t].pc = "lock2"]
    BY <1>5, <1>6
  <2>2. QED
    BY <1>0, <1>1, <1>9, <2>1 DEF LkTypes, Jobs, Goes, JobIs
<1>7. ASSUME job[t].op \notin TwoLocks PROVE Goes(t, "lock", "work")
  <2>1. job' = [job EXCEPT ![t].pc = "work"]
    BY <1>5, <1>7
  <2>2. QED
    BY <1>0, <1>1, <1>9, <2>1 DEF LkTypes, Jobs, Goes, JobIs
<1>8. QED
  BY <1>1, <1>2, <1>3, <1>4, <1>6, <1>7 DEF LockFirst, LockFirstDoes

LEMMA Lock2DoesLemma ==
  ASSUME LkInv, NEW t \in StringUsers, ~OnFreed(t), Lock2(t)
  PROVE  Lock2Does(t)
<1>0. LkTypes /\ JobTyped
  BY DEF LkInv
<1>1. Known(t) /\ job[t] \in Jobs
  BY CallIsKnown DEF Lock2
<1>2. _mux[job[t].src] = 0 /\ MuxSet(job[t].src, t)
  BY <1>0, <1>1 DEF LkTypes, Lock2, LocksSource, IsFree, Locked, MuxSet, Known
<1>3. Goes(t, "lock2", "work")
  BY <1>0, <1>1 DEF LkTypes, Jobs, Lock2, JobGoes, Goes, JobIs
<1>4. QED
  BY <1>1, <1>2, <1>3 DEF Lock2, Lock2Does

LEMMA MakeRoomDoesLemma ==
  ASSUME LkInv, NEW t \in StringUsers, ~OnFreed(t), MakeRoom(t)
  PROVE  MakeRoomDoes(t)
<1>0. LkTypes /\ JobTyped
  BY DEF LkInv
<1>1. Known(t) /\ job[t] \in Jobs
  BY CallIsKnown DEF MakeRoom
<1>2. job[t].pc = "work" /\ job[t].op \in {"append", "appendStp"} /\ NotFreed(t)
  BY WorksOnStrings DEF MakeRoom, Touches
<1>3. shared' = [shared EXCEPT ![job[t].dst] = @ \o Room(TextLen(t))]
  BY DEF MakeRoom, TextLen
<1>4. TextSet(job[t].dst, shared[job[t].dst] \o Room(TextLen(t)))
  BY <1>0, <1>1, <1>3 DEF LkTypes, TextSet, Known
<1>5. job' = [job EXCEPT ![t].pc = "write", ![t].new = Len(shared[job[t].dst])]
  BY DEF MakeRoom
<1>6. JobIs(t, job[t].op, job[t].dst, job[t].src, "write", Len(shared[job[t].dst]))
  BY <1>0, <1>1, <1>5 DEF LkTypes, Jobs, JobIs
<1>7. QED
  BY <1>1, <1>2, <1>4, <1>6 DEF MakeRoom, MakeRoomDoes

LEMMA WriteTextDoesLemma ==
  ASSUME LkInv, NEW t \in StringUsers, ~OnFreed(t), WriteText(t)
  PROVE  WriteTextDoes(t)
<1>0. LkTypes /\ JobTyped
  BY DEF LkInv
<1>1. Known(t) /\ job[t] \in Jobs
  BY CallIsKnown DEF WriteText
<1>2. job[t].op \in {"append", "appendStp"} /\ NotFreed(t)
  BY <1>0, WorksOnStrings DEF WriteText, Touches, JobTyped, JobOf
<1>3. shared' = [shared EXCEPT ![job[t].dst] = Over(@, job[t].new, NewText(t))]
  BY DEF WriteText, Over, NewText
<1>4. TextSet(job[t].dst, Over(shared[job[t].dst], job[t].new, NewText(t)))
  BY <1>0, <1>1, <1>3 DEF LkTypes, TextSet, Known
<1>5. Goes(t, "write", "unlock")
  BY <1>0, <1>1 DEF LkTypes, Jobs, WriteText, JobGoes, Goes, JobIs
<1>6. QED
  BY <1>1, <1>2, <1>4, <1>5 DEF WriteText, WriteTextDoes

LEMMA ExchangeDoesLemma ==
  ASSUME LkInv, NEW t \in StringUsers, ~OnFreed(t), Exchange(t)
  PROVE  ExchangeDoes(t)
<1>0. LkTypes /\ JobTyped
  BY DEF LkInv
<1>1. Known(t) /\ job[t] \in Jobs
  BY CallIsKnown DEF Exchange
<1>2. job[t].op = "exchange" /\ NotFreed(t)
  BY <1>0, WorksOnStrings DEF Exchange, Touches
<1>3. job[t].dst # job[t].src
  BY <1>0, <1>2 DEF Exchange, JobTyped, JobOf, TwoLocks
<1>4. /\ shared'[job[t].dst] = shared[job[t].src] /\ shared'[job[t].src] = shared[job[t].dst]
      /\ \A r \in StringNames \ {job[t].dst, job[t].src} : shared'[r] = shared[r]
  BY <1>0, <1>1, <1>3 DEF LkTypes, Exchange, Known
<1>5. Goes(t, "work", "unlock")
  BY <1>0, <1>1 DEF LkTypes, Jobs, Exchange, JobGoes, Goes, JobIs
<1>6. QED
  BY <1>1, <1>2, <1>4, <1>5 DEF Exchange, ExchangeDoes

LEMMA CopyDoesLemma ==
  ASSUME LkInv, NEW t \in StringUsers, ~OnFreed(t), Copy(t)
  PROVE  CopyDoes(t)
<1>0. LkTypes /\ JobTyped
  BY DEF LkInv
<1>1. Known(t) /\ job[t] \in Jobs
  BY CallIsKnown DEF Copy
<1>2. job[t].op = "copy" /\ NotFreed(t)
  BY <1>0, WorksOnStrings DEF Copy, Touches
<1>3. Goes(t, "work", "unlock")
  BY <1>0, <1>1 DEF LkTypes, Jobs, Copy, JobGoes, Goes, JobIs
<1>4. QED
  BY <1>1, <1>2, <1>3 DEF Copy, CopyDoes

LEMMA FreeUnlocksDoesLemma ==
  ASSUME LkInv, NEW t \in StringUsers, ~OnFreed(t), FreeUnlocks(t)
  PROVE  FreeUnlocksDoes(t)
<1>0. LkTypes /\ JobTyped
  BY DEF LkInv
<1>1. Known(t) /\ job[t] \in Jobs
  BY CallIsKnown DEF FreeUnlocks
<1>2. Goes(t, "work", "free")
  BY <1>0, <1>1 DEF LkTypes, Jobs, FreeUnlocks, JobGoes, Goes, JobIs
<1>3. MuxSet(job[t].dst, 0)
  BY <1>0, <1>1 DEF LkTypes, FreeUnlocks, FreeNeedsLock, Without, MuxSet, Known
<1>4. QED
  BY <1>1, <1>2, <1>3 DEF FreeUnlocks, FreeUnlocksDoes

LEMMA FreeMemoryDoesLemma ==
  ASSUME LkInv, NEW t \in StringUsers, ~OnFreed(t), FreeMemory(t)
  PROVE  FreeMemoryDoes(t)
<1>0. LkTypes /\ JobTyped
  BY DEF LkInv
<1>1. Known(t) /\ job[t] \in Jobs
  BY CallIsKnown DEF FreeMemory
<1>2. Ends(t, "free")
  BY <1>0 DEF LkTypes, FreeMemory, Ends, JobIs, NoJob
<1>3. TextSet(job[t].dst, Freed)
  BY <1>0, <1>1 DEF LkTypes, FreeMemory, TextSet, Known
<1>4. job[t].op = "free"
  BY <1>0 DEF FreeMemory, JobTyped, JobOf
<1>5. QED
  BY <1>1, <1>2, <1>3, <1>4 DEF FreeMemory, FreeMemoryDoes

LEMMA UnlockStringsDoesLemma ==
  ASSUME LkInv, NEW t \in StringUsers, ~OnFreed(t), UnlockStrings(t)
  PROVE  UnlockStringsDoes(t)
<1>0. LkTypes /\ JobTyped
  BY DEF LkInv
<1>1. Known(t) /\ job[t] \in Jobs
  BY CallIsKnown DEF UnlockStrings
<1>2. Ends(t, "unlock")
  BY <1>0 DEF LkTypes, UnlockStrings, Ends, JobIs, NoJob
<1>3. _mux' = UnlockAll(t)
  BY DEF UnlockStrings
<1>4. CASE job[t].op \in TwoLocks
  <2>1. _mux' = [[_mux EXCEPT ![job[t].src] = 0] EXCEPT ![job[t].dst] = 0]
    BY <1>3, <1>4 DEF UnlockAll, Without
  <2>2. QED
    BY <1>0, <1>1, <1>2, <1>4, <2>1 DEF LkTypes, UnlockStrings, UnlockStringsDoes, Known
<1>5. CASE job[t].op \notin TwoLocks
  <2>1. _mux' = [_mux EXCEPT ![job[t].dst] = 0]
    BY <1>3, <1>5 DEF UnlockAll, Without
  <2>2. QED
    BY <1>0, <1>1, <1>2, <1>5, <2>1 DEF LkTypes, UnlockStrings, UnlockStringsDoes, Known
<1>6. QED
  BY <1>4, <1>5

(* A text is a sequence of cells, whatever a call does with it.            *)
LEMMA FreedIsNoText == Freed \notin Seq(Cells)
<1>1. SUFFICES ASSUME Freed \in Seq(Cells) PROVE FALSE
  OBVIOUS
<1>2. Freed[1] \in Cells
  BY <1>1 DEF Freed
<1>3. Freed[1][1] = 0 /\ Freed[1][2] = 1
  BY DEF Freed
<1>4. \A c \in Cells : c[1] \in StringUsers \/ c[2] = 0
  BY DEF Cells, Garbage
<1>5. QED
  BY <1>2, <1>3, <1>4, StringLocksAssumption

LEMMA RoomIsText ==
  ASSUME NEW n \in Nat
  PROVE  Room(n) \in Seq(Cells) /\ Len(Room(n)) = n /\ \A i \in 1 .. n : Room(n)[i] = Garbage
<1>1. Garbage \in Cells
  BY DEF Cells
<1>2. Room(n) \in [1 .. n -> Cells]
  BY <1>1 DEF Room
<1>3. QED
  BY <1>2, SeqDef DEF Room

LEMMA PieceIsText ==
  ASSUME NEW t \in StringUsers
  PROVE  Piece(t) \in Seq(Cells) /\ Len(Piece(t)) = 2 /\ Whole(Piece(t))
<1>1. <<t, 1>> \in Cells /\ <<t, 2>> \in Cells
  BY DEF Cells
<1>2. Piece(t) \in Seq(Cells) /\ Len(Piece(t)) = 2
  BY <1>1 DEF Piece
<1>3. Whole(Piece(t))
  BY DEF Whole, Piece, Garbage
<1>4. QED
  BY <1>2, <1>3

LEMMA RoomBehind ==
  ASSUME NEW text \in Seq(Cells), NEW n \in Nat
  PROVE  /\ text \o Room(n) \in Seq(Cells) /\ Len(text \o Room(n)) = Len(text) + n
         /\ \A i \in 1 .. Len(text) : (text \o Room(n))[i] = text[i]
<1>1. Room(n) \in Seq(Cells) /\ Len(Room(n)) = n
  BY RoomIsText
<1>2. text \o Room(n) \in Seq(Cells) /\ Len(text \o Room(n)) = Len(text) + n
  BY <1>1
<1>3. \A i \in 1 .. Len(text) : (text \o Room(n))[i] = text[i]
  BY <1>1
<1>4. QED
  BY <1>2, <1>3

LEMMA OverIsText ==
  ASSUME NEW text \in Seq(Cells), NEW at \in Nat, NEW new \in Seq(Cells)
  PROVE  Over(text, at, new) \in Seq(Cells) /\ Len(Over(text, at, new)) = Len(text)
<1>1. DOMAIN text = 1 .. Len(text) /\ Len(text) \in Nat
  OBVIOUS
<1>2. ASSUME NEW i \in 1 .. Len(text)
      PROVE  (IF i > at /\ i <= at + Len(new) THEN new[i - at] ELSE text[i]) \in Cells
  <2>1. CASE i > at /\ i <= at + Len(new)
    <3>1. i - at \in 1 .. Len(new)
      BY <2>1
    <3>2. QED
      BY <2>1, <3>1
  <2>2. CASE ~(i > at /\ i <= at + Len(new))
    BY <2>2
  <2>3. QED
    BY <2>1, <2>2
<1>3. Over(text, at, new) \in [1 .. Len(text) -> Cells]
  BY <1>1, <1>2 DEF Over
<1>4. QED
  BY <1>1, <1>3, SeqDef

(* What a call puts into a string, and what is there, are texts.           *)
LEMMA NewIsText ==
  ASSUME LkInv, NEW t \in StringUsers, Known(t), NotFreed(t)
  PROVE  /\ shared[job[t].dst] \in Seq(Cells) /\ shared[job[t].src] \in Seq(Cells)
         /\ NewText(t) \in Seq(Cells) /\ Len(NewText(t)) = TextLen(t) /\ TextLen(t) \in Nat
<1>1. shared[job[t].dst] \in Seq(Cells) /\ shared[job[t].src] \in Seq(Cells)
  BY DEF LkInv, LkTypes, Known, NotFreed
<1>2. CASE job[t].op = "append"
  BY <1>1, <1>2, PieceIsText DEF NewText, TextLen
<1>3. CASE job[t].op # "append"
  BY <1>1, <1>3 DEF NewText, TextLen
<1>4. QED
  BY <1>1, <1>2, <1>3

LEMMA RoomIsNotFreed ==
  ASSUME LkInv, NEW t \in StringUsers, Known(t), NotFreed(t)
  PROVE  /\ shared[job[t].dst] \o Room(TextLen(t)) \in Seq(Cells)
         /\ shared[job[t].dst] \o Room(TextLen(t)) # Freed
BY NewIsText, RoomBehind, FreedIsNoText

LEMMA OverIsNotFreed ==
  ASSUME LkInv, NEW t \in StringUsers, Known(t), NotFreed(t)
  PROVE  /\ Over(shared[job[t].dst], job[t].new, NewText(t)) \in Seq(Cells)
         /\ Over(shared[job[t].dst], job[t].new, NewText(t)) # Freed
<1>1. job[t].new \in Nat
  BY DEF LkInv, LkTypes, Jobs
<1>2. QED
  BY <1>1, NewIsText, OverIsText, FreedIsNoText

(* What a call is.                                                         *)
LEMMA LkNextJobs ==
  ASSUME LkInv, [LkNext]_lkVars
  PROVE  JobTyped'
<1>0. JobTyped /\ LkTypes /\ MuxHeld
  BY DEF LkInv
<1>1. ASSUME NEW t \in StringUsers, ~OnFreed(t), BeginCall(t) PROVE JobTyped'
  <2>1. BeginCallDoes(t)
    BY <1>1, BeginCallDoesLemma
  <2>2. QED
    BY <1>0, <2>1 DEF BeginCallDoes, JobIs, Goes, Ends, Known, JobTyped, JobOf, Ops, TwoLocks
<1>2. ASSUME NEW t \in StringUsers, ~OnFreed(t), LockFirst(t) PROVE JobTyped'
  <2>1. LockFirstDoes(t)
    BY <1>2, LockFirstDoesLemma
  <2>2. QED
    BY <1>0, <2>1 DEF LockFirstDoes, JobIs, Goes, Ends, Known, JobTyped, JobOf, Ops, TwoLocks
<1>3. ASSUME NEW t \in StringUsers, ~OnFreed(t), Lock2(t) PROVE JobTyped'
  <2>1. Lock2Does(t)
    BY <1>3, Lock2DoesLemma
  <2>2. job[t].dst # job[t].src
    <3>1. t # 0 /\ job[t].pc = "lock2" /\ job[t].dst \in StringNames
      BY <2>1, StringLocksAssumption DEF Lock2Does, Goes, Known
    <3>2. _mux[job[t].dst] = t
      BY <1>0, <3>1 DEF MuxHeld, Has
    <3>3. QED
      BY <2>1, <3>1, <3>2 DEF Lock2Does
  <2>3. QED
    BY <1>0, <2>1, <2>2 DEF Lock2Does, JobIs, Goes, Ends, Known, JobTyped, JobOf, Ops, TwoLocks
<1>4. ASSUME NEW t \in StringUsers, ~OnFreed(t), MakeRoom(t) PROVE JobTyped'
  <2>1. MakeRoomDoes(t)
    BY <1>4, MakeRoomDoesLemma
  <2>2. QED
    BY <1>0, <2>1 DEF MakeRoomDoes, JobIs, Goes, Ends, Known, JobTyped, JobOf, Ops, TwoLocks
<1>5. ASSUME NEW t \in StringUsers, ~OnFreed(t), WriteText(t) PROVE JobTyped'
  <2>1. WriteTextDoes(t)
    BY <1>5, WriteTextDoesLemma
  <2>2. QED
    BY <1>0, <2>1 DEF WriteTextDoes, JobIs, Goes, Ends, Known, JobTyped, JobOf, Ops, TwoLocks
<1>6. ASSUME NEW t \in StringUsers, ~OnFreed(t), Exchange(t) PROVE JobTyped'
  <2>1. ExchangeDoes(t)
    BY <1>6, ExchangeDoesLemma
  <2>2. QED
    BY <1>0, <2>1 DEF ExchangeDoes, JobIs, Goes, Ends, Known, JobTyped, JobOf, Ops, TwoLocks
<1>7. ASSUME NEW t \in StringUsers, ~OnFreed(t), Copy(t) PROVE JobTyped'
  <2>1. CopyDoes(t)
    BY <1>7, CopyDoesLemma
  <2>2. QED
    BY <1>0, <2>1 DEF CopyDoes, JobIs, Goes, Ends, Known, JobTyped, JobOf, Ops, TwoLocks
<1>8. ASSUME NEW t \in StringUsers, ~OnFreed(t), FreeUnlocks(t) PROVE JobTyped'
  <2>1. FreeUnlocksDoes(t)
    BY <1>8, FreeUnlocksDoesLemma
  <2>2. QED
    BY <1>0, <2>1 DEF FreeUnlocksDoes, JobIs, Goes, Ends, Known, JobTyped, JobOf, Ops, TwoLocks
<1>9. ASSUME NEW t \in StringUsers, ~OnFreed(t), FreeMemory(t) PROVE JobTyped'
  <2>1. FreeMemoryDoes(t)
    BY <1>9, FreeMemoryDoesLemma
  <2>2. Ends(t, "free")
    BY <2>1 DEF FreeMemoryDoes
  <2>3. SUFFICES ASSUME NEW u \in StringUsers PROVE JobOf(u)'
    BY DEF JobTyped
  <2>4. CASE u = t
    BY <2>2, <2>4 DEF Ends, JobIs, JobOf, TwoLocks
  <2>5. CASE u # t
    BY <1>0, <2>2, <2>5 DEF Ends, JobIs, JobTyped, JobOf
  <2>6. QED
    BY <2>4, <2>5
<1>10. ASSUME NEW t \in StringUsers, ~OnFreed(t), UnlockStrings(t) PROVE JobTyped'
  <2>1. UnlockStringsDoes(t)
    BY <1>10, UnlockStringsDoesLemma
  <2>2. Ends(t, "unlock")
    BY <2>1 DEF UnlockStringsDoes
  <2>3. SUFFICES ASSUME NEW u \in StringUsers PROVE JobOf(u)'
    BY DEF JobTyped
  <2>4. CASE u = t
    BY <2>2, <2>4 DEF Ends, JobIs, JobOf, TwoLocks
  <2>5. CASE u # t
    BY <1>0, <2>2, <2>5 DEF Ends, JobIs, JobTyped, JobOf
  <2>6. QED
    BY <2>4, <2>5
<1>11. CASE UNCHANGED lkVars
  BY <1>0, <1>11 DEF lkVars, JobTyped, JobOf
<1>12. QED
  BY <1>1, <1>2, <1>3, <1>4, <1>5, <1>6, <1>7, <1>8, <1>9, <1>10, <1>11 DEF LkNext

(* Who has a mutex.                                                        *)
LEMMA LkNextMux ==
  ASSUME LkInv, [LkNext]_lkVars
  PROVE  MuxHeld'
<1>0. MuxHeld /\ JobTyped /\ LkTypes
  BY DEF LkInv
<1>1. ASSUME NEW t \in StringUsers, ~OnFreed(t), BeginCall(t) PROVE MuxHeld'
  <2>1. BeginCallDoes(t)
    BY <1>1, BeginCallDoesLemma
  <2>2. QED
    BY <1>0, <2>1 DEF BeginCallDoes, JobIs, Goes, Ends, Known, JobTyped, JobOf, TwoLocks, MuxHeld, Has
<1>2. ASSUME NEW t \in StringUsers, ~OnFreed(t), LockFirst(t) PROVE MuxHeld'
  <2>1. LockFirstDoes(t)
    BY <1>2, LockFirstDoesLemma
  <2>2. t # 0 /\ \A u \in StringUsers : u # 0
    BY StringLocksAssumption
  <2>3. QED
    BY <1>0, <2>1, <2>2 DEF LockFirstDoes, MuxSet, JobIs, Goes, Ends, Known, JobTyped, JobOf, TwoLocks, MuxHeld, Has
<1>3. ASSUME NEW t \in StringUsers, ~OnFreed(t), Lock2(t) PROVE MuxHeld'
  <2>1. Lock2Does(t)
    BY <1>3, Lock2DoesLemma
  <2>2. t # 0 /\ \A u \in StringUsers : u # 0
    BY StringLocksAssumption
  <2>3. QED
    BY <1>0, <2>1, <2>2 DEF Lock2Does, MuxSet, JobIs, Goes, Ends, Known, JobTyped, JobOf, TwoLocks, MuxHeld, Has
<1>4. ASSUME NEW t \in StringUsers, ~OnFreed(t), MakeRoom(t) PROVE MuxHeld'
  <2>1. MakeRoomDoes(t)
    BY <1>4, MakeRoomDoesLemma
  <2>2. QED
    BY <1>0, <2>1 DEF MakeRoomDoes, JobIs, Goes, Ends, Known, JobTyped, JobOf, TwoLocks, MuxHeld, Has
<1>5. ASSUME NEW t \in StringUsers, ~OnFreed(t), WriteText(t) PROVE MuxHeld'
  <2>1. WriteTextDoes(t)
    BY <1>5, WriteTextDoesLemma
  <2>2. QED
    BY <1>0, <2>1 DEF WriteTextDoes, JobIs, Goes, Ends, Known, JobTyped, JobOf, TwoLocks, MuxHeld, Has
<1>6. ASSUME NEW t \in StringUsers, ~OnFreed(t), Exchange(t) PROVE MuxHeld'
  <2>1. ExchangeDoes(t)
    BY <1>6, ExchangeDoesLemma
  <2>2. QED
    BY <1>0, <2>1 DEF ExchangeDoes, JobIs, Goes, Ends, Known, JobTyped, JobOf, TwoLocks, MuxHeld, Has
<1>7. ASSUME NEW t \in StringUsers, ~OnFreed(t), Copy(t) PROVE MuxHeld'
  <2>1. CopyDoes(t)
    BY <1>7, CopyDoesLemma
  <2>2. QED
    BY <1>0, <2>1 DEF CopyDoes, JobIs, Goes, Ends, Known, JobTyped, JobOf, TwoLocks, MuxHeld, Has
<1>8. ASSUME NEW t \in StringUsers, ~OnFreed(t), FreeUnlocks(t) PROVE MuxHeld'
  <2>1. FreeUnlocksDoes(t)
    BY <1>8, FreeUnlocksDoesLemma
  <2>2. t # 0 /\ \A u \in StringUsers : u # 0
    BY StringLocksAssumption
  <2>3. QED
    BY <1>0, <2>1, <2>2 DEF FreeUnlocksDoes, MuxSet, JobIs, Goes, Ends, Known, JobTyped, JobOf, TwoLocks, MuxHeld, Has
<1>9. ASSUME NEW t \in StringUsers, ~OnFreed(t), FreeMemory(t) PROVE MuxHeld'
  <2>1. FreeMemoryDoes(t)
    BY <1>9, FreeMemoryDoesLemma
  <2>2. UNCHANGED _mux /\ Ends(t, "free")
    BY <2>1 DEF FreeMemoryDoes
  <2>3. \A s \in StringNames : ~Has(t, s) /\ ~Has(t, s)'
    BY <2>2 DEF Ends, JobIs, Has
  <2>4. ASSUME NEW u \in StringUsers, NEW s \in StringNames PROVE Has(u, s)' <=> Has(u, s)
    <3>1. CASE u = t
      BY <2>3, <3>1
    <3>2. CASE u # t
      BY <2>2, <3>2 DEF Ends, JobIs, Has
    <3>3. QED
      BY <3>1, <3>2
  <2>5. QED
    BY <1>0, <2>2, <2>4 DEF MuxHeld
<1>10. ASSUME NEW t \in StringUsers, ~OnFreed(t), UnlockStrings(t) PROVE MuxHeld'
  <2>1. UnlockStringsDoes(t)
    BY <1>10, UnlockStringsDoesLemma
  <2>2. t # 0 /\ \A u \in StringUsers : u # 0
    BY StringLocksAssumption
  <2>3. Ends(t, "unlock") /\ Known(t)
    BY <2>1 DEF UnlockStringsDoes
  <2>4. ASSUME NEW u \in StringUsers, NEW s \in StringNames PROVE _mux'[s] = u <=> Has(u, s)'
    <3>1. _mux[s] = u <=> Has(u, s)
      BY <1>0 DEF MuxHeld
    <3>2. CASE Has(t, s)
      <4>1. _mux'[s] = 0
        BY <2>1, <2>3, <3>2 DEF UnlockStringsDoes, Has
      <4>2. _mux[s] = t
        BY <1>0, <3>2 DEF MuxHeld
      <4>3. ~Has(u, s)'
        BY <2>3, <3>1, <4>2 DEF Ends, JobIs, Has
      <4>4. QED
        BY <2>2, <4>1, <4>3
    <3>3. CASE ~Has(t, s)
      <4>1. _mux'[s] = _mux[s]
        BY <2>1, <2>3, <3>3 DEF UnlockStringsDoes, Ends, Has
      <4>2. Has(u, s)' <=> Has(u, s)
        BY <2>3, <3>3 DEF Ends, JobIs, Has
      <4>3. QED
        BY <3>1, <4>1, <4>2
    <3>4. QED
      BY <3>2, <3>3
  <2>5. QED
    BY <2>4 DEF MuxHeld
<1>11. CASE UNCHANGED lkVars
  BY <1>0, <1>11 DEF lkVars, MuxHeld, Has
<1>12. QED
  BY <1>1, <1>2, <1>3, <1>4, <1>5, <1>6, <1>7, <1>8, <1>9, <1>10, <1>11 DEF LkNext

(* Who uses a string that is being freed.                                  *)
LEMMA LkNextFree ==
  ASSUME LkInv, [LkNext]_lkVars
  PROVE  FreeComes'
<1>0. FreeComes /\ JobTyped
  BY DEF LkInv
<1>1. ASSUME NEW t \in StringUsers, ~OnFreed(t), BeginCall(t) PROVE FreeComes'
  <2>1. BeginCallDoes(t)
    BY <1>1, BeginCallDoesLemma
  <2>2. QED
    BY <1>0, <2>1 DEF BeginCallDoes, JobIs, Goes, Ends, Known, JobTyped, JobOf, TwoLocks, FreeComes, Uses
<1>2. ASSUME NEW t \in StringUsers, ~OnFreed(t), LockFirst(t) PROVE FreeComes'
  <2>1. LockFirstDoes(t)
    BY <1>2, LockFirstDoesLemma
  <2>2. QED
    BY <1>0, <2>1 DEF LockFirstDoes, JobIs, Goes, Ends, Known, JobTyped, JobOf, TwoLocks, FreeComes, Uses
<1>3. ASSUME NEW t \in StringUsers, ~OnFreed(t), Lock2(t) PROVE FreeComes'
  <2>1. Lock2Does(t)
    BY <1>3, Lock2DoesLemma
  <2>2. QED
    BY <1>0, <2>1 DEF Lock2Does, JobIs, Goes, Ends, Known, JobTyped, JobOf, TwoLocks, FreeComes, Uses
<1>4. ASSUME NEW t \in StringUsers, ~OnFreed(t), MakeRoom(t) PROVE FreeComes'
  <2>1. MakeRoomDoes(t)
    BY <1>4, MakeRoomDoesLemma
  <2>2. QED
    BY <1>0, <2>1 DEF MakeRoomDoes, JobIs, Goes, Ends, Known, JobTyped, JobOf, TwoLocks, FreeComes, Uses
<1>5. ASSUME NEW t \in StringUsers, ~OnFreed(t), WriteText(t) PROVE FreeComes'
  <2>1. WriteTextDoes(t)
    BY <1>5, WriteTextDoesLemma
  <2>2. QED
    BY <1>0, <2>1 DEF WriteTextDoes, JobIs, Goes, Ends, Known, JobTyped, JobOf, TwoLocks, FreeComes, Uses
<1>6. ASSUME NEW t \in StringUsers, ~OnFreed(t), Exchange(t) PROVE FreeComes'
  <2>1. ExchangeDoes(t)
    BY <1>6, ExchangeDoesLemma
  <2>2. QED
    BY <1>0, <2>1 DEF ExchangeDoes, JobIs, Goes, Ends, Known, JobTyped, JobOf, TwoLocks, FreeComes, Uses
<1>7. ASSUME NEW t \in StringUsers, ~OnFreed(t), Copy(t) PROVE FreeComes'
  <2>1. CopyDoes(t)
    BY <1>7, CopyDoesLemma
  <2>2. QED
    BY <1>0, <2>1 DEF CopyDoes, JobIs, Goes, Ends, Known, JobTyped, JobOf, TwoLocks, FreeComes, Uses
<1>8. ASSUME NEW t \in StringUsers, ~OnFreed(t), FreeUnlocks(t) PROVE FreeComes'
  <2>1. FreeUnlocksDoes(t)
    BY <1>8, FreeUnlocksDoesLemma
  <2>2. QED
    BY <1>0, <2>1 DEF FreeUnlocksDoes, JobIs, Goes, Ends, Known, JobTyped, JobOf, TwoLocks, FreeComes, Uses
<1>9. ASSUME NEW t \in StringUsers, ~OnFreed(t), FreeMemory(t) PROVE FreeComes'
  <2>1. FreeMemoryDoes(t)
    BY <1>9, FreeMemoryDoesLemma
  <2>2. Ends(t, "free") /\ UNCHANGED tooLate
    BY <2>1 DEF FreeMemoryDoes
  <2>3. \A u \in StringUsers : job'[u].op # "none" => job'[u] = job[u]
    BY <2>2 DEF Ends, JobIs
  <2>4. SUFFICES ASSUME NEW v \in StringUsers, job'[v].op = "free", job'[v].pc \in {"work", "free"},
                        NEW u \in StringUsers, u # v, Uses(u, job[v].dst)'
                 PROVE  u \in tooLate'
    BY DEF FreeComes
  <2>5. job'[v] = job[v] /\ job'[u] = job[u]
    BY <2>3, <2>4 DEF Uses
  <2>6. Uses(u, job[v].dst)
    BY <2>4, <2>5 DEF Uses
  <2>7. QED
    BY <1>0, <2>2, <2>4, <2>5, <2>6 DEF FreeComes
<1>10. ASSUME NEW t \in StringUsers, ~OnFreed(t), UnlockStrings(t) PROVE FreeComes'
  <2>1. UnlockStringsDoes(t)
    BY <1>10, UnlockStringsDoesLemma
  <2>2. Ends(t, "unlock") /\ UNCHANGED tooLate
    BY <2>1 DEF UnlockStringsDoes
  <2>3. \A u \in StringUsers : job'[u].op # "none" => job'[u] = job[u]
    BY <2>2 DEF Ends, JobIs
  <2>4. SUFFICES ASSUME NEW v \in StringUsers, job'[v].op = "free", job'[v].pc \in {"work", "free"},
                        NEW u \in StringUsers, u # v, Uses(u, job[v].dst)'
                 PROVE  u \in tooLate'
    BY DEF FreeComes
  <2>5. job'[v] = job[v] /\ job'[u] = job[u]
    BY <2>3, <2>4 DEF Uses
  <2>6. Uses(u, job[v].dst)
    BY <2>4, <2>5 DEF Uses
  <2>7. QED
    BY <1>0, <2>2, <2>4, <2>5, <2>6 DEF FreeComes
<1>11. CASE UNCHANGED lkVars
  BY <1>0, <1>11 DEF lkVars, FreeComes, Uses
<1>12. QED
  BY <1>1, <1>2, <1>3, <1>4, <1>5, <1>6, <1>7, <1>8, <1>9, <1>10, <1>11 DEF LkNext

(* Who uses a string that is freed.                                        *)
LEMMA LkNextFreed ==
  ASSUME LkInv, [LkNext]_lkVars
  PROVE  FreedLate'
<1>0. FreedLate /\ FreeComes /\ JobTyped /\ LkTypes
  BY DEF LkInv
<1>1. ASSUME NEW t \in StringUsers, ~OnFreed(t), BeginCall(t) PROVE FreedLate'
  <2>1. BeginCallDoes(t)
    BY <1>1, BeginCallDoesLemma
  <2>2. QED
    BY <1>0, <2>1 DEF BeginCallDoes, JobIs, Goes, Ends, Known, JobTyped, JobOf, TwoLocks, FreedLate, Uses
<1>2. ASSUME NEW t \in StringUsers, ~OnFreed(t), LockFirst(t) PROVE FreedLate'
  <2>1. LockFirstDoes(t)
    BY <1>2, LockFirstDoesLemma
  <2>2. QED
    BY <1>0, <2>1 DEF LockFirstDoes, JobIs, Goes, Ends, Known, JobTyped, JobOf, TwoLocks, FreedLate, Uses
<1>3. ASSUME NEW t \in StringUsers, ~OnFreed(t), Lock2(t) PROVE FreedLate'
  <2>1. Lock2Does(t)
    BY <1>3, Lock2DoesLemma
  <2>2. QED
    BY <1>0, <2>1 DEF Lock2Does, JobIs, Goes, Ends, Known, JobTyped, JobOf, TwoLocks, FreedLate, Uses
<1>4. ASSUME NEW t \in StringUsers, ~OnFreed(t), MakeRoom(t) PROVE FreedLate'
  <2>1. MakeRoomDoes(t)
    BY <1>4, MakeRoomDoesLemma
  <2>2. \A s \in StringNames : shared'[s] = Freed => shared[s] = Freed
    BY <2>1, RoomIsNotFreed DEF MakeRoomDoes, TextSet, NotFreed
  <2>3. \A u \in StringUsers, s \in StringNames : Uses(u, s)' => Uses(u, s)
    BY <2>1 DEF MakeRoomDoes, JobIs, Goes, Ends, Known, Uses
  <2>4. QED
    BY <1>0, <2>1, <2>2, <2>3 DEF MakeRoomDoes, FreedLate
<1>5. ASSUME NEW t \in StringUsers, ~OnFreed(t), WriteText(t) PROVE FreedLate'
  <2>1. WriteTextDoes(t)
    BY <1>5, WriteTextDoesLemma
  <2>2. \A s \in StringNames : shared'[s] = Freed => shared[s] = Freed
    BY <2>1, OverIsNotFreed DEF WriteTextDoes, TextSet, NotFreed
  <2>3. \A u \in StringUsers, s \in StringNames : Uses(u, s)' => Uses(u, s)
    BY <2>1 DEF WriteTextDoes, JobIs, Goes, Ends, Known, Uses
  <2>4. QED
    BY <1>0, <2>1, <2>2, <2>3 DEF WriteTextDoes, FreedLate
<1>6. ASSUME NEW t \in StringUsers, ~OnFreed(t), Exchange(t) PROVE FreedLate'
  <2>1. ExchangeDoes(t)
    BY <1>6, ExchangeDoesLemma
  <2>2. \A s \in StringNames : shared'[s] = Freed => shared[s] = Freed
    BY <2>1 DEF ExchangeDoes, NotFreed
  <2>3. QED
    BY <1>0, <2>1, <2>2 DEF ExchangeDoes, JobIs, Goes, Ends, Known, FreedLate, Uses
<1>7. ASSUME NEW t \in StringUsers, ~OnFreed(t), Copy(t) PROVE FreedLate'
  <2>1. CopyDoes(t)
    BY <1>7, CopyDoesLemma
  <2>2. QED
    BY <1>0, <2>1 DEF CopyDoes, JobIs, Goes, Ends, Known, JobTyped, JobOf, TwoLocks, FreedLate, Uses
<1>8. ASSUME NEW t \in StringUsers, ~OnFreed(t), FreeUnlocks(t) PROVE FreedLate'
  <2>1. FreeUnlocksDoes(t)
    BY <1>8, FreeUnlocksDoesLemma
  <2>2. QED
    BY <1>0, <2>1 DEF FreeUnlocksDoes, JobIs, Goes, Ends, Known, JobTyped, JobOf, TwoLocks, FreedLate, Uses
<1>9. ASSUME NEW t \in StringUsers, ~OnFreed(t), FreeMemory(t) PROVE FreedLate'
  <2>1. FreeMemoryDoes(t)
    BY <1>9, FreeMemoryDoesLemma
  <2>2. \A u \in StringUsers : u # t /\ Uses(u, job[t].dst) => u \in tooLate
    BY <1>0, <2>1 DEF FreeMemoryDoes, Ends, FreeComes
  <2>3. QED
    BY <1>0, <2>1, <2>2 DEF FreeMemoryDoes, TextSet, JobIs, Goes, Ends, Known, JobTyped, FreedLate, Uses
<1>10. ASSUME NEW t \in StringUsers, ~OnFreed(t), UnlockStrings(t) PROVE FreedLate'
  <2>1. UnlockStringsDoes(t)
    BY <1>10, UnlockStringsDoesLemma
  <2>2. QED
    BY <1>0, <2>1 DEF UnlockStringsDoes, JobIs, Goes, Ends, Known, JobTyped, JobOf, TwoLocks, FreedLate, Uses
<1>11. CASE UNCHANGED lkVars
  BY <1>0, <1>11 DEF lkVars, FreedLate, Uses
<1>12. QED
  BY <1>1, <1>2, <1>3, <1>4, <1>5, <1>6, <1>7, <1>8, <1>9, <1>10, <1>11 DEF LkNext

(* Nobody else writes into a string whose mutex a thread has.              *)
LEMMA HasAlone ==
  ASSUME LkInv, NEW t \in StringUsers, NEW s \in StringNames, Has(t, s), NEW u \in StringUsers, u # t
  PROVE  ~Has(u, s)
BY DEF LkInv, MuxHeld

LEMMA WriterHas ==
  ASSUME LkInv, NEW u \in StringUsers, job[u].pc = "write"
  PROVE  /\ job[u].dst \in StringNames /\ Has(u, job[u].dst)
         /\ job[u].src \in StringNames /\ Has(u, job[u].src)
<1>1. JobTyped /\ Known(u)
  BY CallIsKnown DEF LkInv
<1>2. job[u].op \in TwoLocks \/ job[u].src = job[u].dst
  BY <1>1 DEF JobTyped, JobOf
<1>3. QED
  BY <1>1, <1>2 DEF Known, Has

LEMMA NotWritten ==
  ASSUME LkInv, NEW t \in StringUsers, NEW s \in StringNames, Has(t, s),
         ~(job[t].pc = "write" /\ job[t].dst = s)
  PROVE  ~Written(s)
<1>1. ASSUME NEW u \in StringUsers, job[u].pc = "write", job[u].dst = s PROVE FALSE
  BY <1>1, WriterHas, HasAlone
<1>2. QED
  BY <1>1 DEF Written

(* Texts of whole pieces.                                                  *)
LEMMA WholeIsTo ==
  ASSUME NEW text \in Seq(Cells)
  PROVE  Whole(text) <=> WholeTo(text, Len(text))
<1>1. DOMAIN text = 1 .. Len(text)
  OBVIOUS
<1>2. QED
  BY <1>1 DEF Whole, WholeTo

LEMMA SameStart ==
  ASSUME NEW n \in Nat, NEW text, NEW other, WholeTo(text, n), \A i \in 1 .. n : other[i] = text[i]
  PROVE  WholeTo(other, n)
<1>1. SUFFICES ASSUME NEW i \in 1 .. n
               PROVE  /\ other[i] # Garbage
                      /\ IF other[i][2] = 1 THEN i < n /\ other[i + 1] = <<other[i][1], 2>>
                         ELSE i > 1 /\ other[i - 1] = <<other[i][1], 1>>
  BY DEF WholeTo
<1>2. /\ text[i] # Garbage
      /\ IF text[i][2] = 1 THEN i < n /\ text[i + 1] = <<text[i][1], 2>>
         ELSE i > 1 /\ text[i - 1] = <<text[i][1], 1>>
  BY DEF WholeTo
<1>3. other[i] = text[i]
  OBVIOUS
<1>4. i < n => other[i + 1] = text[i + 1]
  OBVIOUS
<1>5. i > 1 => other[i - 1] = text[i - 1]
  OBVIOUS
<1>6. QED
  BY <1>2, <1>3, <1>4, <1>5

LEMMA OverIsWhole ==
  ASSUME NEW text \in Seq(Cells), NEW at \in Nat, NEW new \in Seq(Cells),
         Len(text) = at + Len(new), WholeTo(text, at), Whole(new)
  PROVE  Whole(Over(text, at, new))
<1> DEFINE all == Over(text, at, new)
           n == Len(text)
<1>1. DOMAIN text = 1 .. n /\ n \in Nat /\ Len(new) \in Nat /\ n = at + Len(new)
  OBVIOUS
<1>2. all \in Seq(Cells) /\ Len(all) = n
  BY OverIsText
<1>3. \A i \in 1 .. n : all[i] = IF i > at THEN new[i - at] ELSE text[i]
  BY <1>1 DEF Over
<1> HIDE DEF all, n
<1>4. WholeTo(new, Len(new))
  BY WholeIsTo
<1>5. ASSUME NEW i \in 1 .. n
      PROVE  /\ all[i] # Garbage
             /\ IF all[i][2] = 1 THEN i < n /\ all[i + 1] = <<all[i][1], 2>>
                ELSE i > 1 /\ all[i - 1] = <<all[i][1], 1>>
  <2>1. CASE i <= at
    <3>1. i \in 1 .. at /\ all[i] = text[i]
      BY <1>1, <1>3, <2>1
    <3>2. /\ text[i] # Garbage
          /\ IF text[i][2] = 1 THEN i < at /\ text[i + 1] = <<text[i][1], 2>>
             ELSE i > 1 /\ text[i - 1] = <<text[i][1], 1>>
      BY <3>1 DEF WholeTo
    <3>3. i < at => i < n /\ all[i + 1] = text[i + 1]
      BY <1>1, <1>3
    <3>4. i > 1 => all[i - 1] = text[i - 1]
      BY <1>1, <1>3, <2>1
    <3>5. QED
      BY <3>1, <3>2, <3>3, <3>4
  <2>2. CASE i > at
    <3> DEFINE k == i - at
    <3>1. k \in 1 .. Len(new) /\ all[i] = new[k]
      BY <1>1, <1>3, <2>2
    <3>2. k < Len(new) => i < n /\ all[i + 1] = new[k + 1]
      <4>1. SUFFICES ASSUME k < Len(new) PROVE i < n /\ all[i + 1] = new[k + 1]
        OBVIOUS
      <4>2. i < n /\ i + 1 \in 1 .. n /\ i + 1 > at /\ (i + 1) - at = k + 1
        BY <1>1, <2>2, <4>1
      <4>3. QED
        BY <1>3, <4>2
    <3>3. k > 1 => i > 1 /\ all[i - 1] = new[k - 1]
      <4>1. SUFFICES ASSUME k > 1 PROVE i > 1 /\ all[i - 1] = new[k - 1]
        OBVIOUS
      <4>2. i > 1 /\ i - 1 \in 1 .. n /\ i - 1 > at /\ (i - 1) - at = k - 1
        BY <1>1, <2>2, <4>1
      <4>3. QED
        BY <1>3, <4>2
    <3> HIDE DEF k
    <3>4. /\ new[k] # Garbage
          /\ IF new[k][2] = 1 THEN k < Len(new) /\ new[k + 1] = <<new[k][1], 2>>
             ELSE k > 1 /\ new[k - 1] = <<new[k][1], 1>>
      BY <1>4, <3>1 DEF WholeTo
    <3>5. QED
      BY <3>1, <3>2, <3>3, <3>4
  <2>3. QED
    BY <1>1, <2>1, <2>2
<1>6. WholeTo(all, Len(all))
  BY <1>2, <1>5 DEF WholeTo
<1>7. Whole(all)
  BY <1>2, <1>6, WholeIsTo
<1>8. QED
  BY <1>7 DEF all

(* What a call adds is whole, and so is what it adds it to.                *)
LEMMA SourceIsWhole ==
  ASSUME LkInv, NEW t \in StringUsers, NotFreed(t), Known(t), job[t].pc = "write"
  PROVE  Whole(NewText(t))
<1>1. CASE job[t].op = "append"
  BY <1>1, PieceIsText DEF NewText
<1>2. CASE job[t].op # "append"
  <2>1. JobTyped /\ TextsRight
    BY DEF LkInv
  <2>2. job[t].op = "appendStp" /\ job[t].dst # job[t].src
    BY <1>2, <2>1 DEF JobTyped, JobOf, TwoLocks
  <2>3. Has(t, job[t].src)
    BY WriterHas
  <2>4. ~Written(job[t].src)
    BY <2>2, <2>3, NotWritten DEF Known
  <2>5. QED
    BY <1>2, <2>1, <2>4 DEF TextsRight, NewText, NotFreed, Known
<1>3. QED
  BY <1>1, <1>2

LEMMA WrittenIsWhole ==
  ASSUME LkInv, NEW t \in StringUsers, ~OnFreed(t), NotFreed(t), Known(t), job[t].pc = "write"
  PROVE  Whole(Over(shared[job[t].dst], job[t].new, NewText(t)))
<1>1. RoomOf(t) /\ job[t].new \in Nat
  BY DEF LkInv, RoomMade, LkTypes, Jobs
<1>2. /\ shared[job[t].dst] \in Seq(Cells) /\ NewText(t) \in Seq(Cells)
      /\ Len(NewText(t)) = TextLen(t)
  BY NewIsText
<1>3. Whole(NewText(t))
  BY SourceIsWhole
<1>4. QED
  BY <1>1, <1>2, <1>3, OverIsWhole DEF RoomOf

(* Texts that nobody writes are whole.                                     *)
LEMMA LkNextTexts ==
  ASSUME LkInv, [LkNext]_lkVars
  PROVE  TextsRight'
<1>0. TextsRight /\ JobTyped /\ LkTypes
  BY DEF LkInv
<1>1. ASSUME NEW t \in StringUsers, ~OnFreed(t), BeginCall(t) PROVE TextsRight'
  <2>1. BeginCallDoes(t)
    BY <1>1, BeginCallDoesLemma
  <2>2. UNCHANGED shared
    BY <2>1 DEF BeginCallDoes
  <2>3. \A s \in StringNames : Written(s) => Written(s)'
    BY <2>1 DEF BeginCallDoes, JobIs, Goes, Ends, Known, Written
  <2>4. QED
    BY <1>0, <2>2, <2>3 DEF TextsRight
<1>2. ASSUME NEW t \in StringUsers, ~OnFreed(t), LockFirst(t) PROVE TextsRight'
  <2>1. LockFirstDoes(t)
    BY <1>2, LockFirstDoesLemma
  <2>2. UNCHANGED shared
    BY <2>1 DEF LockFirstDoes
  <2>3. \A s \in StringNames : Written(s) => Written(s)'
    BY <2>1 DEF LockFirstDoes, JobIs, Goes, Ends, Known, Written
  <2>4. QED
    BY <1>0, <2>2, <2>3 DEF TextsRight
<1>3. ASSUME NEW t \in StringUsers, ~OnFreed(t), Lock2(t) PROVE TextsRight'
  <2>1. Lock2Does(t)
    BY <1>3, Lock2DoesLemma
  <2>2. UNCHANGED shared
    BY <2>1 DEF Lock2Does
  <2>3. \A s \in StringNames : Written(s) => Written(s)'
    BY <2>1 DEF Lock2Does, JobIs, Goes, Ends, Known, Written
  <2>4. QED
    BY <1>0, <2>2, <2>3 DEF TextsRight
<1>4. ASSUME NEW t \in StringUsers, ~OnFreed(t), MakeRoom(t) PROVE TextsRight'
  <2>1. MakeRoomDoes(t)
    BY <1>4, MakeRoomDoesLemma
  <2>2. \A s \in StringNames : s = job[t].dst => Written(s)'
    BY <2>1 DEF MakeRoomDoes, JobIs, Written
  <2>3. \A s \in StringNames : Written(s) => Written(s)'
    BY <2>1 DEF MakeRoomDoes, JobIs, Goes, Ends, Known, Written
  <2>4. QED
    BY <1>0, <2>1, <2>2, <2>3 DEF MakeRoomDoes, TextSet, TextsRight
<1>5. ASSUME NEW t \in StringUsers, ~OnFreed(t), WriteText(t) PROVE TextsRight'
  <2>1. WriteTextDoes(t)
    BY <1>5, WriteTextDoesLemma
  <2>2. Whole(shared'[job[t].dst])
    BY <2>1, WrittenIsWhole DEF WriteTextDoes, TextSet, Goes
  <2>3. \A s \in StringNames : s # job[t].dst /\ Written(s) => Written(s)'
    BY <2>1 DEF WriteTextDoes, JobIs, Goes, Ends, Known, Written
  <2>4. QED
    BY <1>0, <2>1, <2>2, <2>3 DEF WriteTextDoes, TextSet, TextsRight
<1>6. ASSUME NEW t \in StringUsers, ~OnFreed(t), Exchange(t) PROVE TextsRight'
  <2>1. ExchangeDoes(t)
    BY <1>6, ExchangeDoesLemma
  <2>2. \A s \in StringNames : Written(s) => Written(s)'
    BY <2>1 DEF ExchangeDoes, JobIs, Goes, Ends, Known, Written
  <2>3. Known(t) /\ Has(t, job[t].dst) /\ Has(t, job[t].src) /\ job[t].pc = "work"
    BY <2>1 DEF ExchangeDoes, Goes, Has, TwoLocks
  <2>4. ~Written(job[t].dst) /\ ~Written(job[t].src)
    BY <2>3, NotWritten DEF Known
  <2>5. Whole(shared[job[t].dst]) /\ Whole(shared[job[t].src])
    BY <1>0, <2>1, <2>3, <2>4 DEF ExchangeDoes, NotFreed, TextsRight, Known
  <2>6. QED
    BY <1>0, <2>1, <2>2, <2>5 DEF ExchangeDoes, TextsRight
<1>7. ASSUME NEW t \in StringUsers, ~OnFreed(t), Copy(t) PROVE TextsRight'
  <2>1. CopyDoes(t)
    BY <1>7, CopyDoesLemma
  <2>2. UNCHANGED shared
    BY <2>1 DEF CopyDoes
  <2>3. \A s \in StringNames : Written(s) => Written(s)'
    BY <2>1 DEF CopyDoes, JobIs, Goes, Ends, Known, Written
  <2>4. QED
    BY <1>0, <2>2, <2>3 DEF TextsRight
<1>8. ASSUME NEW t \in StringUsers, ~OnFreed(t), FreeUnlocks(t) PROVE TextsRight'
  <2>1. FreeUnlocksDoes(t)
    BY <1>8, FreeUnlocksDoesLemma
  <2>2. UNCHANGED shared
    BY <2>1 DEF FreeUnlocksDoes
  <2>3. \A s \in StringNames : Written(s) => Written(s)'
    BY <2>1 DEF FreeUnlocksDoes, JobIs, Goes, Ends, Known, Written
  <2>4. QED
    BY <1>0, <2>2, <2>3 DEF TextsRight
<1>9. ASSUME NEW t \in StringUsers, ~OnFreed(t), FreeMemory(t) PROVE TextsRight'
  <2>1. FreeMemoryDoes(t)
    BY <1>9, FreeMemoryDoesLemma
  <2>2. \A s \in StringNames : Written(s) => Written(s)'
    BY <2>1 DEF FreeMemoryDoes, JobIs, Goes, Ends, Known, Written
  <2>3. QED
    BY <1>0, <2>1, <2>2 DEF FreeMemoryDoes, TextSet, TextsRight
<1>10. ASSUME NEW t \in StringUsers, ~OnFreed(t), UnlockStrings(t) PROVE TextsRight'
  <2>1. UnlockStringsDoes(t)
    BY <1>10, UnlockStringsDoesLemma
  <2>2. UNCHANGED shared
    BY <2>1 DEF UnlockStringsDoes
  <2>3. \A s \in StringNames : Written(s) => Written(s)'
    BY <2>1 DEF UnlockStringsDoes, JobIs, Goes, Ends, Known, Written
  <2>4. QED
    BY <1>0, <2>2, <2>3 DEF TextsRight
<1>11. CASE UNCHANGED lkVars
  BY <1>0, <1>11 DEF lkVars, TextsRight, Written
<1>12. QED
  BY <1>1, <1>2, <1>3, <1>4, <1>5, <1>6, <1>7, <1>8, <1>9, <1>10, <1>11 DEF LkNext

(* Where a thread writes, another changes nothing.                         *)
LEMMA RoomStays ==
  ASSUME LkInv, NEW u \in StringUsers, job'[u] = job[u], job[u].pc = "write", ~OnFreed(u)',
         shared'[job[u].dst] = shared[job[u].dst], shared'[job[u].src] = shared[job[u].src]
  PROVE  RoomOf(u)'
<1>1. ~OnFreed(u)
  BY DEF OnFreed, Touches
<1>2. RoomOf(u)
  BY <1>1 DEF LkInv, RoomMade
<1>3. TextLen(u)' = TextLen(u)
  BY DEF TextLen
<1>4. QED
  BY <1>2, <1>3 DEF RoomOf

(* Room for what is written.                                               *)
LEMMA LkNextRoom ==
  ASSUME LkInv, [LkNext]_lkVars
  PROVE  RoomMade'
<1>0. RoomMade /\ TextsRight /\ LkTypes
  BY DEF LkInv
<1>1. ASSUME NEW t \in StringUsers, ~OnFreed(t), BeginCall(t) PROVE RoomMade'
  <2>1. BeginCallDoes(t)
    BY <1>1, BeginCallDoesLemma
  <2>2. SUFFICES ASSUME NEW u \in StringUsers, job'[u].pc = "write", ~OnFreed(u)' PROVE RoomOf(u)'
    BY DEF RoomMade
  <2>3. u # t /\ job'[u] = job[u]
    BY <2>1, <2>2 DEF BeginCallDoes, JobIs, Goes, Ends, Known
  <2>4. UNCHANGED shared
    BY <2>1 DEF BeginCallDoes
  <2>5. QED
    BY <2>2, <2>3, <2>4, RoomStays
<1>2. ASSUME NEW t \in StringUsers, ~OnFreed(t), LockFirst(t) PROVE RoomMade'
  <2>1. LockFirstDoes(t)
    BY <1>2, LockFirstDoesLemma
  <2>2. SUFFICES ASSUME NEW u \in StringUsers, job'[u].pc = "write", ~OnFreed(u)' PROVE RoomOf(u)'
    BY DEF RoomMade
  <2>3. u # t /\ job'[u] = job[u]
    BY <2>1, <2>2 DEF LockFirstDoes, JobIs, Goes, Ends, Known
  <2>4. UNCHANGED shared
    BY <2>1 DEF LockFirstDoes
  <2>5. QED
    BY <2>2, <2>3, <2>4, RoomStays
<1>3. ASSUME NEW t \in StringUsers, ~OnFreed(t), Lock2(t) PROVE RoomMade'
  <2>1. Lock2Does(t)
    BY <1>3, Lock2DoesLemma
  <2>2. SUFFICES ASSUME NEW u \in StringUsers, job'[u].pc = "write", ~OnFreed(u)' PROVE RoomOf(u)'
    BY DEF RoomMade
  <2>3. u # t /\ job'[u] = job[u]
    BY <2>1, <2>2 DEF Lock2Does, JobIs, Goes, Ends, Known
  <2>4. UNCHANGED shared
    BY <2>1 DEF Lock2Does
  <2>5. QED
    BY <2>2, <2>3, <2>4, RoomStays
<1>4. ASSUME NEW t \in StringUsers, ~OnFreed(t), MakeRoom(t) PROVE RoomMade'
  <2>1. MakeRoomDoes(t)
    BY <1>4, MakeRoomDoesLemma
  <2>2. SUFFICES ASSUME NEW u \in StringUsers, job'[u].pc = "write", ~OnFreed(u)' PROVE RoomOf(u)'
    BY DEF RoomMade
  <2>3. Known(t) /\ Has(t, job[t].dst) /\ job[t].pc = "work" /\ NotFreed(t)
    BY <2>1 DEF MakeRoomDoes, Has
  <2>4. CASE u # t
    <3>1. job'[u] = job[u] /\ job[u].pc = "write"
      BY <2>1, <2>2, <2>4 DEF MakeRoomDoes, JobIs
    <3>2. /\ job[u].dst \in StringNames /\ job[u].src \in StringNames
          /\ job[u].dst # job[t].dst /\ job[u].src # job[t].dst
      BY <2>3, <2>4, <3>1, WriterHas, HasAlone DEF Known
    <3>3. QED
      BY <2>1, <2>2, <3>1, <3>2, RoomStays DEF MakeRoomDoes, TextSet
  <2>5. CASE u = t
    <3> DEFINE d == job[t].dst
               text == shared[d]
    <3>1. text \in Seq(Cells) /\ TextLen(t) \in Nat
      BY <2>3, NewIsText
    <3>2. Len(text \o Room(TextLen(t))) = Len(text) + TextLen(t)
      BY <3>1, RoomBehind
    <3>3. ~Written(d)
      BY <2>3, NotWritten DEF Known
    <3>4. Whole(text)
      BY <1>0, <2>3, <3>3 DEF TextsRight, NotFreed, Known
    <3>5. WholeTo(text, Len(text))
      BY <3>1, <3>4, WholeIsTo
    <3>6. \A i \in 1 .. Len(text) : (text \o Room(TextLen(t)))[i] = text[i]
      BY <3>1, RoomBehind
    <3>7. WholeTo(text \o Room(TextLen(t)), Len(text))
      <4> DEFINE more == text \o Room(TextLen(t))
                 n == Len(text)
      <4>1. n \in Nat /\ \A i \in 1 .. n : more[i] = text[i]
        BY <3>1, <3>6
      <4>2. WholeTo(text, n)
        BY <3>5
      <4> HIDE DEF more, n
      <4>3. WholeTo(more, n)
        BY <4>1, <4>2, SameStart
      <4>4. QED
        BY <4>3 DEF more, n
    <3>8. /\ job'[t].op = job[t].op /\ job'[t].dst = d /\ job'[t].src = job[t].src
          /\ job'[t].new = Len(text) /\ shared'[d] = text \o Room(TextLen(t))
      BY <2>1 DEF MakeRoomDoes, JobIs, TextSet
    <3>9. TextLen(t)' = TextLen(t)
      <4>1. CASE job[t].op = "append"
        BY <3>8, <4>1 DEF TextLen
      <4>2. CASE job[t].op = "appendStp"
        <5>1. job[t].src # d
          BY <2>3, <4>2 DEF LkInv, JobTyped, JobOf, TwoLocks
        <5>2. shared'[job[t].src] = shared[job[t].src]
          BY <2>1, <2>3, <5>1 DEF MakeRoomDoes, TextSet, Known
        <5>3. QED
          BY <3>8, <4>2, <5>2 DEF TextLen
      <4>3. QED
        BY <2>1, <4>1, <4>2 DEF MakeRoomDoes
    <3> HIDE DEF d, text
    <3>10. QED
      BY <2>5, <3>2, <3>7, <3>8, <3>9 DEF RoomOf
  <2>6. QED
    BY <2>4, <2>5
<1>5. ASSUME NEW t \in StringUsers, ~OnFreed(t), WriteText(t) PROVE RoomMade'
  <2>1. WriteTextDoes(t)
    BY <1>5, WriteTextDoesLemma
  <2>2. SUFFICES ASSUME NEW u \in StringUsers, job'[u].pc = "write", ~OnFreed(u)' PROVE RoomOf(u)'
    BY DEF RoomMade
  <2>3. u # t /\ job'[u] = job[u]
    BY <2>1, <2>2 DEF WriteTextDoes, JobIs, Goes, Ends, Known
  <2>4. Known(t) /\ Has(t, job[t].dst)
    BY <2>1 DEF WriteTextDoes, Goes, Has
  <2>5. /\ job[u].dst \in StringNames /\ job[u].src \in StringNames
        /\ job[u].dst # job[t].dst /\ job[u].src # job[t].dst
    BY <2>2, <2>3, <2>4, WriterHas, HasAlone DEF Known
  <2>6. QED
    BY <2>1, <2>2, <2>3, <2>5, RoomStays DEF WriteTextDoes, TextSet
<1>6. ASSUME NEW t \in StringUsers, ~OnFreed(t), Exchange(t) PROVE RoomMade'
  <2>1. ExchangeDoes(t)
    BY <1>6, ExchangeDoesLemma
  <2>2. SUFFICES ASSUME NEW u \in StringUsers, job'[u].pc = "write", ~OnFreed(u)' PROVE RoomOf(u)'
    BY DEF RoomMade
  <2>3. u # t /\ job'[u] = job[u]
    BY <2>1, <2>2 DEF ExchangeDoes, JobIs, Goes, Ends, Known
  <2>4. Known(t) /\ Has(t, job[t].dst) /\ Has(t, job[t].src)
    BY <2>1 DEF ExchangeDoes, Goes, Has, TwoLocks
  <2>5. /\ job[u].dst \in StringNames \ {job[t].dst, job[t].src}
        /\ job[u].src \in StringNames \ {job[t].dst, job[t].src}
    BY <2>2, <2>3, <2>4, WriterHas, HasAlone DEF Known
  <2>6. shared'[job[u].dst] = shared[job[u].dst] /\ shared'[job[u].src] = shared[job[u].src]
    BY <2>1, <2>5 DEF ExchangeDoes
  <2>7. QED
    BY <2>2, <2>3, <2>6, RoomStays
<1>7. ASSUME NEW t \in StringUsers, ~OnFreed(t), Copy(t) PROVE RoomMade'
  <2>1. CopyDoes(t)
    BY <1>7, CopyDoesLemma
  <2>2. SUFFICES ASSUME NEW u \in StringUsers, job'[u].pc = "write", ~OnFreed(u)' PROVE RoomOf(u)'
    BY DEF RoomMade
  <2>3. u # t /\ job'[u] = job[u]
    BY <2>1, <2>2 DEF CopyDoes, JobIs, Goes, Ends, Known
  <2>4. UNCHANGED shared
    BY <2>1 DEF CopyDoes
  <2>5. QED
    BY <2>2, <2>3, <2>4, RoomStays
<1>8. ASSUME NEW t \in StringUsers, ~OnFreed(t), FreeUnlocks(t) PROVE RoomMade'
  <2>1. FreeUnlocksDoes(t)
    BY <1>8, FreeUnlocksDoesLemma
  <2>2. SUFFICES ASSUME NEW u \in StringUsers, job'[u].pc = "write", ~OnFreed(u)' PROVE RoomOf(u)'
    BY DEF RoomMade
  <2>3. u # t /\ job'[u] = job[u]
    BY <2>1, <2>2 DEF FreeUnlocksDoes, JobIs, Goes, Ends, Known
  <2>4. UNCHANGED shared
    BY <2>1 DEF FreeUnlocksDoes
  <2>5. QED
    BY <2>2, <2>3, <2>4, RoomStays
<1>9. ASSUME NEW t \in StringUsers, ~OnFreed(t), FreeMemory(t) PROVE RoomMade'
  <2>1. FreeMemoryDoes(t)
    BY <1>9, FreeMemoryDoesLemma
  <2>2. SUFFICES ASSUME NEW u \in StringUsers, job'[u].pc = "write", ~OnFreed(u)' PROVE RoomOf(u)'
    BY DEF RoomMade
  <2>3. u # t /\ job'[u] = job[u]
    BY <2>1, <2>2 DEF FreeMemoryDoes, JobIs, Goes, Ends, Known
  <2>4. job[u].dst \in StringNames /\ job[u].src \in StringNames /\ job[u].op # "free"
    BY <2>2, <2>3, WriterHas DEF LkInv, JobTyped, JobOf
  <2>5. job[u].dst # job[t].dst /\ job[u].src # job[t].dst
    BY <2>1, <2>2, <2>3, <2>4 DEF FreeMemoryDoes, TextSet, OnFreed, Touches
  <2>6. QED
    BY <2>1, <2>2, <2>3, <2>4, <2>5, RoomStays DEF FreeMemoryDoes, TextSet
<1>10. ASSUME NEW t \in StringUsers, ~OnFreed(t), UnlockStrings(t) PROVE RoomMade'
  <2>1. UnlockStringsDoes(t)
    BY <1>10, UnlockStringsDoesLemma
  <2>2. SUFFICES ASSUME NEW u \in StringUsers, job'[u].pc = "write", ~OnFreed(u)' PROVE RoomOf(u)'
    BY DEF RoomMade
  <2>3. u # t /\ job'[u] = job[u]
    BY <2>1, <2>2 DEF UnlockStringsDoes, JobIs, Goes, Ends, Known
  <2>4. UNCHANGED shared
    BY <2>1 DEF UnlockStringsDoes
  <2>5. QED
    BY <2>2, <2>3, <2>4, RoomStays
<1>11. CASE UNCHANGED lkVars
  BY <1>0, <1>11 DEF lkVars, RoomMade, RoomOf, OnFreed, Touches, TextLen
<1>12. QED
  BY <1>1, <1>2, <1>3, <1>4, <1>5, <1>6, <1>7, <1>8, <1>9, <1>10, <1>11 DEF LkNext

(* Copies are whole.                                                       *)
LEMMA LkNextCopies ==
  ASSUME LkInv, [LkNext]_lkVars
  PROVE  CopiesWhole'
<1>0. CopiesWhole /\ TextsRight
  BY DEF LkInv
<1>1. ASSUME NEW t \in StringUsers, ~OnFreed(t), BeginCall(t) PROVE CopiesWhole'
  <2>1. BeginCallDoes(t)
    BY <1>1, BeginCallDoesLemma
  <2>2. QED
    BY <1>0, <2>1 DEF BeginCallDoes, CopiesWhole
<1>2. ASSUME NEW t \in StringUsers, ~OnFreed(t), LockFirst(t) PROVE CopiesWhole'
  <2>1. LockFirstDoes(t)
    BY <1>2, LockFirstDoesLemma
  <2>2. QED
    BY <1>0, <2>1 DEF LockFirstDoes, CopiesWhole
<1>3. ASSUME NEW t \in StringUsers, ~OnFreed(t), Lock2(t) PROVE CopiesWhole'
  <2>1. Lock2Does(t)
    BY <1>3, Lock2DoesLemma
  <2>2. QED
    BY <1>0, <2>1 DEF Lock2Does, CopiesWhole
<1>4. ASSUME NEW t \in StringUsers, ~OnFreed(t), MakeRoom(t) PROVE CopiesWhole'
  <2>1. MakeRoomDoes(t)
    BY <1>4, MakeRoomDoesLemma
  <2>2. QED
    BY <1>0, <2>1 DEF MakeRoomDoes, CopiesWhole
<1>5. ASSUME NEW t \in StringUsers, ~OnFreed(t), WriteText(t) PROVE CopiesWhole'
  <2>1. WriteTextDoes(t)
    BY <1>5, WriteTextDoesLemma
  <2>2. QED
    BY <1>0, <2>1 DEF WriteTextDoes, CopiesWhole
<1>6. ASSUME NEW t \in StringUsers, ~OnFreed(t), Exchange(t) PROVE CopiesWhole'
  <2>1. ExchangeDoes(t)
    BY <1>6, ExchangeDoesLemma
  <2>2. QED
    BY <1>0, <2>1 DEF ExchangeDoes, CopiesWhole
<1>7. ASSUME NEW t \in StringUsers, ~OnFreed(t), Copy(t) PROVE CopiesWhole'
  <2>1. CopyDoes(t)
    BY <1>7, CopyDoesLemma
  <2>2. Known(t) /\ Has(t, job[t].dst) /\ job[t].pc = "work" /\ NotFreed(t)
    BY <2>1 DEF CopyDoes, Goes, Has
  <2>3. ~Written(job[t].dst)
    BY <2>2, NotWritten DEF Known
  <2>4. Whole(shared[job[t].dst])
    BY <1>0, <2>2, <2>3 DEF TextsRight, NotFreed, Known
  <2>5. QED
    BY <1>0, <2>1, <2>4 DEF CopyDoes, CopiesWhole
<1>8. ASSUME NEW t \in StringUsers, ~OnFreed(t), FreeUnlocks(t) PROVE CopiesWhole'
  <2>1. FreeUnlocksDoes(t)
    BY <1>8, FreeUnlocksDoesLemma
  <2>2. QED
    BY <1>0, <2>1 DEF FreeUnlocksDoes, CopiesWhole
<1>9. ASSUME NEW t \in StringUsers, ~OnFreed(t), FreeMemory(t) PROVE CopiesWhole'
  <2>1. FreeMemoryDoes(t)
    BY <1>9, FreeMemoryDoesLemma
  <2>2. QED
    BY <1>0, <2>1 DEF FreeMemoryDoes, CopiesWhole
<1>10. ASSUME NEW t \in StringUsers, ~OnFreed(t), UnlockStrings(t) PROVE CopiesWhole'
  <2>1. UnlockStringsDoes(t)
    BY <1>10, UnlockStringsDoesLemma
  <2>2. QED
    BY <1>0, <2>1 DEF UnlockStringsDoes, CopiesWhole
<1>11. CASE UNCHANGED lkVars
  BY <1>0, <1>11 DEF lkVars, CopiesWhole, Whole
<1>12. QED
  BY <1>1, <1>2, <1>3, <1>4, <1>5, <1>6, <1>7, <1>8, <1>9, <1>10, <1>11 DEF LkNext

(* The types.                                                              *)
LEMMA LkNextTypes ==
  ASSUME LkInv, [LkNext]_lkVars
  PROVE  LkTypes'
<1>0. LkTypes
  BY DEF LkInv
<1>1. ASSUME NEW t \in StringUsers, ~OnFreed(t), BeginCall(t) PROVE LkTypes'
  <2>1. BeginCallDoes(t)
    BY <1>1, BeginCallDoesLemma
  <2>2. job' \in [StringUsers -> Jobs]
    <3>1. PICK op \in Ops, d \in StringNames, x \in StringNames :
             job' = [job EXCEPT ![t] = [op |-> op, dst |-> d, src |-> x, pc |-> "lock", new |-> 0]]
      BY <1>1 DEF BeginCall
    <3>2. [op |-> op, dst |-> d, src |-> x, pc |-> "lock", new |-> 0] \in Jobs
      BY DEF Jobs
    <3>3. QED
      BY <1>0, <3>1, <3>2 DEF LkTypes
  <2>3. _mux' \in [StringNames -> StringUsers \cup {0}]
    BY <1>0, <2>1 DEF LkTypes, BeginCallDoes
  <2>4. shared' \in [StringNames -> Seq(Cells) \cup {Freed}]
    BY <1>0, <2>1 DEF LkTypes, BeginCallDoes
  <2>5. tooLate' \in SUBSET StringUsers
    BY <1>0, <2>1 DEF LkTypes, BeginCallDoes
  <2>6. QED
    BY <2>2, <2>3, <2>4, <2>5 DEF LkTypes
<1>2. ASSUME NEW t \in StringUsers, ~OnFreed(t), LockFirst(t) PROVE LkTypes'
  <2>1. LockFirstDoes(t)
    BY <1>2, LockFirstDoesLemma
  <2>2. job' \in [StringUsers -> Jobs]
    <3>1. job' = [job EXCEPT ![t].pc = IF job[t].op \in TwoLocks THEN "lock2" ELSE "work"]
      BY <1>2 DEF LockFirst, JobGoes
    <3>2. job[t] \in Jobs
      BY <1>0 DEF LkTypes
    <3>3. [job[t] EXCEPT !.pc = IF job[t].op \in TwoLocks THEN "lock2" ELSE "work"] \in Jobs
      BY <3>2 DEF Jobs
    <3>4. QED
      BY <1>0, <3>1, <3>3 DEF LkTypes
  <2>3. _mux' \in [StringNames -> StringUsers \cup {0}]
    BY <1>0, <1>2 DEF LkTypes, LockFirst, FreeNeedsLock, Locked
  <2>4. shared' \in [StringNames -> Seq(Cells) \cup {Freed}]
    BY <1>0, <2>1 DEF LkTypes, LockFirstDoes
  <2>5. tooLate' \in SUBSET StringUsers
    BY <1>0, <2>1 DEF LkTypes, LockFirstDoes
  <2>6. QED
    BY <2>2, <2>3, <2>4, <2>5 DEF LkTypes
<1>3. ASSUME NEW t \in StringUsers, ~OnFreed(t), Lock2(t) PROVE LkTypes'
  <2>1. Lock2Does(t)
    BY <1>3, Lock2DoesLemma
  <2>2. job' \in [StringUsers -> Jobs]
    <3>1. job' = [job EXCEPT ![t].pc = "work"]
      BY <1>3 DEF Lock2, JobGoes
    <3>2. job[t] \in Jobs
      BY <1>0 DEF LkTypes
    <3>3. [job[t] EXCEPT !.pc = "work"] \in Jobs
      BY <3>2 DEF Jobs
    <3>4. QED
      BY <1>0, <3>1, <3>3 DEF LkTypes
  <2>3. _mux' \in [StringNames -> StringUsers \cup {0}]
    BY <1>0, <1>3 DEF LkTypes, Lock2, LocksSource, Locked
  <2>4. shared' \in [StringNames -> Seq(Cells) \cup {Freed}]
    BY <1>0, <2>1 DEF LkTypes, Lock2Does
  <2>5. tooLate' \in SUBSET StringUsers
    BY <1>0, <2>1 DEF LkTypes, Lock2Does
  <2>6. QED
    BY <2>2, <2>3, <2>4, <2>5 DEF LkTypes
<1>4. ASSUME NEW t \in StringUsers, ~OnFreed(t), MakeRoom(t) PROVE LkTypes'
  <2>1. MakeRoomDoes(t)
    BY <1>4, MakeRoomDoesLemma
  <2>2. job' \in [StringUsers -> Jobs]
    <3>1. job' = [job EXCEPT ![t].pc = "write", ![t].new = Len(shared[job[t].dst])]
      BY <1>4 DEF MakeRoom
    <3>2. job[t] \in Jobs
      BY <1>0 DEF LkTypes
    <3>3. Len(shared[job[t].dst]) \in Nat
      BY <2>1, NewIsText DEF MakeRoomDoes
    <3>4. [job[t] EXCEPT !.pc = "write", !.new = Len(shared[job[t].dst])] \in Jobs
      BY <3>2, <3>3 DEF Jobs
    <3>5. QED
      BY <1>0, <3>1, <3>4 DEF LkTypes
  <2>3. _mux' \in [StringNames -> StringUsers \cup {0}]
    BY <1>0, <2>1 DEF LkTypes, MakeRoomDoes
  <2>4. shared' \in [StringNames -> Seq(Cells) \cup {Freed}]
    <3>1. shared[job[t].dst] \o Room(TextLen(t)) \in Seq(Cells)
      BY <2>1, RoomIsNotFreed DEF MakeRoomDoes
    <3>2. shared' = [shared EXCEPT ![job[t].dst] = shared[job[t].dst] \o Room(TextLen(t))]
      BY <1>4 DEF MakeRoom, TextLen
    <3>3. QED
      BY <1>0, <3>1, <3>2 DEF LkTypes
  <2>5. tooLate' \in SUBSET StringUsers
    BY <1>0, <2>1 DEF LkTypes, MakeRoomDoes
  <2>6. QED
    BY <2>2, <2>3, <2>4, <2>5 DEF LkTypes
<1>5. ASSUME NEW t \in StringUsers, ~OnFreed(t), WriteText(t) PROVE LkTypes'
  <2>1. WriteTextDoes(t)
    BY <1>5, WriteTextDoesLemma
  <2>2. job' \in [StringUsers -> Jobs]
    <3>1. job' = [job EXCEPT ![t].pc = "unlock"]
      BY <1>5 DEF WriteText, JobGoes
    <3>2. job[t] \in Jobs
      BY <1>0 DEF LkTypes
    <3>3. [job[t] EXCEPT !.pc = "unlock"] \in Jobs
      BY <3>2 DEF Jobs
    <3>4. QED
      BY <1>0, <3>1, <3>3 DEF LkTypes
  <2>3. _mux' \in [StringNames -> StringUsers \cup {0}]
    BY <1>0, <2>1 DEF LkTypes, WriteTextDoes
  <2>4. shared' \in [StringNames -> Seq(Cells) \cup {Freed}]
    <3>1. Over(shared[job[t].dst], job[t].new, NewText(t)) \in Seq(Cells)
      BY <2>1, OverIsNotFreed DEF WriteTextDoes
    <3>2. shared' = [shared EXCEPT ![job[t].dst] = Over(shared[job[t].dst], job[t].new, NewText(t))]
      BY <1>5 DEF WriteText, Over, NewText
    <3>3. QED
      BY <1>0, <3>1, <3>2 DEF LkTypes
  <2>5. tooLate' \in SUBSET StringUsers
    BY <1>0, <2>1 DEF LkTypes, WriteTextDoes
  <2>6. QED
    BY <2>2, <2>3, <2>4, <2>5 DEF LkTypes
<1>6. ASSUME NEW t \in StringUsers, ~OnFreed(t), Exchange(t) PROVE LkTypes'
  <2>1. ExchangeDoes(t)
    BY <1>6, ExchangeDoesLemma
  <2>2. job' \in [StringUsers -> Jobs]
    <3>1. job' = [job EXCEPT ![t].pc = "unlock"]
      BY <1>6 DEF Exchange, JobGoes
    <3>2. job[t] \in Jobs
      BY <1>0 DEF LkTypes
    <3>3. [job[t] EXCEPT !.pc = "unlock"] \in Jobs
      BY <3>2 DEF Jobs
    <3>4. QED
      BY <1>0, <3>1, <3>3 DEF LkTypes
  <2>3. _mux' \in [StringNames -> StringUsers \cup {0}]
    BY <1>0, <2>1 DEF LkTypes, ExchangeDoes
  <2>4. shared' \in [StringNames -> Seq(Cells) \cup {Freed}]
    <3>1. Known(t)
      BY <2>1 DEF ExchangeDoes
    <3>2. QED
      BY <1>0, <1>6, <3>1 DEF LkTypes, Exchange, Known
  <2>5. tooLate' \in SUBSET StringUsers
    BY <1>0, <2>1 DEF LkTypes, ExchangeDoes
  <2>6. QED
    BY <2>2, <2>3, <2>4, <2>5 DEF LkTypes
<1>7. ASSUME NEW t \in StringUsers, ~OnFreed(t), Copy(t) PROVE LkTypes'
  <2>1. CopyDoes(t)
    BY <1>7, CopyDoesLemma
  <2>2. job' \in [StringUsers -> Jobs]
    <3>1. job' = [job EXCEPT ![t].pc = "unlock"]
      BY <1>7 DEF Copy, JobGoes
    <3>2. job[t] \in Jobs
      BY <1>0 DEF LkTypes
    <3>3. [job[t] EXCEPT !.pc = "unlock"] \in Jobs
      BY <3>2 DEF Jobs
    <3>4. QED
      BY <1>0, <3>1, <3>3 DEF LkTypes
  <2>3. _mux' \in [StringNames -> StringUsers \cup {0}]
    BY <1>0, <2>1 DEF LkTypes, CopyDoes
  <2>4. shared' \in [StringNames -> Seq(Cells) \cup {Freed}]
    BY <1>0, <2>1 DEF LkTypes, CopyDoes
  <2>5. tooLate' \in SUBSET StringUsers
    BY <1>0, <2>1 DEF LkTypes, CopyDoes
  <2>6. QED
    BY <2>2, <2>3, <2>4, <2>5 DEF LkTypes
<1>8. ASSUME NEW t \in StringUsers, ~OnFreed(t), FreeUnlocks(t) PROVE LkTypes'
  <2>1. FreeUnlocksDoes(t)
    BY <1>8, FreeUnlocksDoesLemma
  <2>2. job' \in [StringUsers -> Jobs]
    <3>1. job' = [job EXCEPT ![t].pc = "free"]
      BY <1>8 DEF FreeUnlocks, JobGoes
    <3>2. job[t] \in Jobs
      BY <1>0 DEF LkTypes
    <3>3. [job[t] EXCEPT !.pc = "free"] \in Jobs
      BY <3>2 DEF Jobs
    <3>4. QED
      BY <1>0, <3>1, <3>3 DEF LkTypes
  <2>3. _mux' \in [StringNames -> StringUsers \cup {0}]
    BY <1>0, <1>8 DEF LkTypes, FreeUnlocks, FreeNeedsLock, Without
  <2>4. shared' \in [StringNames -> Seq(Cells) \cup {Freed}]
    BY <1>0, <2>1 DEF LkTypes, FreeUnlocksDoes
  <2>5. tooLate' \in SUBSET StringUsers
    BY <1>0, <2>1 DEF LkTypes, FreeUnlocksDoes
  <2>6. QED
    BY <2>2, <2>3, <2>4, <2>5 DEF LkTypes
<1>9. ASSUME NEW t \in StringUsers, ~OnFreed(t), FreeMemory(t) PROVE LkTypes'
  <2>1. FreeMemoryDoes(t)
    BY <1>9, FreeMemoryDoesLemma
  <2>2. job' \in [StringUsers -> Jobs]
    <3>1. NoJob \in Jobs
      BY DEF Jobs, NoJob
    <3>2. QED
      BY <1>0, <1>9, <3>1 DEF LkTypes, FreeMemory
  <2>3. _mux' \in [StringNames -> StringUsers \cup {0}]
    BY <1>0, <2>1 DEF LkTypes, FreeMemoryDoes
  <2>4. shared' \in [StringNames -> Seq(Cells) \cup {Freed}]
    BY <1>0, <1>9 DEF LkTypes, FreeMemory
  <2>5. tooLate' \in SUBSET StringUsers
    BY <1>0, <2>1 DEF LkTypes, FreeMemoryDoes
  <2>6. QED
    BY <2>2, <2>3, <2>4, <2>5 DEF LkTypes
<1>10. ASSUME NEW t \in StringUsers, ~OnFreed(t), UnlockStrings(t) PROVE LkTypes'
  <2>1. UnlockStringsDoes(t)
    BY <1>10, UnlockStringsDoesLemma
  <2>2. job' \in [StringUsers -> Jobs]
    <3>1. NoJob \in Jobs
      BY DEF Jobs, NoJob
    <3>2. QED
      BY <1>0, <1>10, <3>1 DEF LkTypes, UnlockStrings
  <2>3. _mux' \in [StringNames -> StringUsers \cup {0}]
    BY <1>0, <1>10 DEF LkTypes, UnlockStrings, UnlockAll, Without
  <2>4. shared' \in [StringNames -> Seq(Cells) \cup {Freed}]
    BY <1>0, <2>1 DEF LkTypes, UnlockStringsDoes
  <2>5. tooLate' \in SUBSET StringUsers
    BY <1>0, <2>1 DEF LkTypes, UnlockStringsDoes
  <2>6. QED
    BY <2>2, <2>3, <2>4, <2>5 DEF LkTypes
<1>11. CASE UNCHANGED lkVars
  BY <1>0, <1>11 DEF lkVars, LkTypes
<1>12. QED
  BY <1>1, <1>2, <1>3, <1>4, <1>5, <1>6, <1>7, <1>8, <1>9, <1>10, <1>11 DEF LkNext

(* The invariant holds in every state of the specification.                *)
LEMMA LkInvHolds == LkSpec => []LkInv
<1>1. LkInit => LkInv
  <2> SUFFICES ASSUME LkInit PROVE LkInv
    OBVIOUS
  <2>1. NoJob \in Jobs
    BY DEF NoJob, Jobs
  <2>2. << >> \in Seq(Cells)
    OBVIOUS
  <2>3. LkTypes
    BY <2>1, <2>2 DEF LkInit, LkTypes
  <2>4. \A t \in StringUsers : job[t].op = "none" /\ job[t].pc = "idle" /\ job[t].src = job[t].dst
    BY DEF LkInit, NoJob
  <2>5. JobTyped
    BY <2>4 DEF JobTyped, JobOf, TwoLocks
  <2>6. MuxHeld
    BY <2>4, StringLocksAssumption DEF LkInit, MuxHeld, Has
  <2>7. FreeComes /\ FreedLate
    BY <2>4 DEF FreeComes, FreedLate, Uses
  <2>8. \A s \in StringNames : Whole(shared[s])
    BY DEF LkInit, Whole
  <2>9. TextsRight /\ RoomMade /\ CopiesWhole
    BY <2>4, <2>8 DEF LkInit, TextsRight, RoomMade, CopiesWhole
  <2>10. QED
    BY <2>3, <2>5, <2>6, <2>7, <2>9 DEF LkInv
<1>2. LkInv /\ [LkNext]_lkVars => LkInv'
  <2> SUFFICES ASSUME LkInv, [LkNext]_lkVars PROVE LkInv'
    OBVIOUS
  <2>1. LkTypes' /\ JobTyped' /\ MuxHeld'
    BY LkNextTypes, LkNextJobs, LkNextMux
  <2>2. FreeComes' /\ FreedLate'
    BY LkNextFree, LkNextFreed
  <2>3. TextsRight' /\ RoomMade' /\ CopiesWhole'
    BY LkNextTexts, LkNextRoom, LkNextCopies
  <2>4. QED
    BY <2>1, <2>2, <2>3 DEF LkInv
<1>3. QED
  BY <1>1, <1>2, PTL DEF LkSpec

(* For all threads, strings and calls: texts and copies are of whole       *)
(* pieces, a string is freed in use only by a call that came too late for  *)
(* its mutex, and threads that all wait stand in a ring of second locks.   *)
THEOREM StringsStayWhole == LkSpec => []SharedStringsKept
<1>1. LkInv => SharedStringsKept
  <2> SUFFICES ASSUME LkInv PROVE SharedStringsKept
    OBVIOUS
  <2>0. LkTypes /\ JobTyped /\ MuxHeld
    BY DEF LkInv
  <2>1. TextsWhole
    <3>1. ASSUME NEW s \in StringNames, IsFree(s), shared[s] # Freed PROVE Whole(shared[s])
      <4>1. \A t \in StringUsers : ~Has(t, s)
        BY <2>0, <3>1, StringLocksAssumption DEF MuxHeld, IsFree
      <4>2. ~Written(s)
        BY <4>1 DEF Written, Has
      <4>3. QED
        BY <3>1, <4>2 DEF LkInv, TextsRight
    <3>2. QED
      BY <3>1 DEF LkInv, CopiesWhole, TextsWhole
  <2>2. FreeWaits
    <3>1. ASSUME NEW t \in StringUsers, OnFreed(t) PROVE t \in tooLate
      <4>1. job[t].op # "none" /\ job[t].dst \in StringNames /\ job[t].src \in StringNames
        BY <2>0, <3>1 DEF JobTyped, JobOf, OnFreed, Touches
      <4>2. PICK s \in {job[t].dst, job[t].src} : shared[s] = Freed
        BY <3>1 DEF OnFreed
      <4>3. QED
        BY <4>1, <4>2 DEF LkInv, FreedLate, Uses
    <3>2. QED
      BY <3>1 DEF FreeWaits
  <2>3. ASSUME \A t \in StringUsers : Blocked(t)
        PROVE  /\ \E t \in StringUsers : job[t].pc = "lock2"
               /\ \A t \in StringUsers : job[t].pc = "lock2" =>
                    \E u \in StringUsers : job[u].pc = "lock2" /\ job[u].dst = job[t].src
    <3>1. \A t \in StringUsers : job[t].pc \in {"lock", "lock2"}
      BY <2>3 DEF Blocked, WaitsFor
    <3>2. ASSUME NEW t \in StringUsers
          PROVE  \E u \in StringUsers : job[u].pc = "lock2" /\ job[u].dst = WaitsFor(t)
      <4>1. WaitsFor(t) \in StringNames
        <5>1. job[t].op # "none"
          BY <2>0, <3>1 DEF JobTyped, JobOf
        <5>2. job[t].dst \in StringNames /\ job[t].src \in StringNames
          BY <2>0, <5>1 DEF JobTyped, JobOf
        <5>3. job[t].pc = "lock" \/ job[t].pc = "lock2"
          BY <3>1
        <5>4. QED
          BY <5>2, <5>3 DEF WaitsFor
      <4>2. _mux[WaitsFor(t)] # 0
        BY <2>3 DEF Blocked, IsFree
      <4>3. PICK u \in StringUsers : _mux[WaitsFor(t)] = u
        BY <2>0, <4>1, <4>2 DEF LkTypes
      <4>4. Has(u, WaitsFor(t))
        BY <2>0, <4>1, <4>3 DEF MuxHeld
      <4>5. QED
        BY <3>1, <4>4 DEF Has
    <3>3. ASSUME NEW t \in StringUsers, job[t].pc = "lock2" PROVE WaitsFor(t) = job[t].src
      BY <3>3 DEF WaitsFor
    <3>4. \E t \in StringUsers : job[t].pc = "lock2"
      BY <3>2, StringLocksAssumption
    <3>5. QED
      BY <3>2, <3>3, <3>4
  <2>4. StuckOnlyCrossed
    BY <2>3 DEF StuckOnlyCrossed
  <2>5. QED
    BY <2>1, <2>2, <2>4 DEF SharedStringsKept
<1>2. QED
  BY <1>1, LkInvHolds, PTL

-----------------------------------------------------------------------------
(* Events.                                                                 *)
(* Who is in which call.                                                   *)
SetPcs == {"set", "set1", "set2", "set3", "set4", "set5"}
ResetPcs == {"reset", "reset1", "reset2", "reset3", "reset4", "reset5"}
ShotPcs == {"shot", "shot1", "shot2", "shot3", "shot4", "shot5", "shot6", "shot7"}
WaitPcs == {"wait", "test", "shared", "meet", "met"}
Pcs == SetPcs \cup ResetPcs \cup ShotPcs \cup WaitPcs \cup {"idle", "waitto", "release", "taken"}
EvTypes == TypeOK /\ case \in Cases /\ pc \in [Threads -> Pcs] /\ clock \in Nat
FitsCalls(t) ==
  /\ pc[t] \in SetPcs => "set" \in case.calls[t]
  /\ pc[t] \in ResetPcs => "reset" \in case.calls[t]
  /\ pc[t] \in ShotPcs => "shot" \in case.calls[t]
  /\ pc[t] \in WaitPcs => "wait" \in case.calls[t]
  /\ pc[t] = "waitto" => "waitto" \in case.calls[t]
CallsFit == \A t \in Threads : FitsCalls(t)
(* mux is of the thread that has come that far.                            *)
InMux == {"set1", "set2", "set3", "set4", "set5", "reset1", "reset2", "reset3", "reset4", "reset5",
          "met", "shot3", "shot4", "shot5", "shot6", "shot7"}
MuxIsHeld == \A t \in Threads : pc[t] \in InMux => mux = t
(* An auto reset event: what was raised and not taken is what mWait shows. *)
AutoCounts ==
  ~case.manual =>
    /\ passed + (IF mWait THEN 0 ELSE 1) <= raised
    /\ \A t \in Threads : pc[t] \notin {"shared", "release"}
(* Where no call resets, the event is down only before it is ever raised.  *)
NeverRaised ==
  Resetless(case) /\ down => mWait /\ \A t \in Threads : pc[t] \notin Woken \cup SetPcs \cup ShotPcs
BegunWhenDown ==
  /\ ~down => begunDown = {}
  /\ down => \A t \in Threads : pc[t] \notin SetPcs \cup ShotPcs
(* Where one thread u sets and resets, one thread at most has mWait        *)
(* (besides the reset that holds it down), and the flag tells whether the  *)
(* event is up, except while u changes it.                                 *)
Holder(t) == pc[t] \in {"test", "release"}
IsDown == mWait /\ \A t \in Threads : ~Holder(t)
OneHolds(u) ==
  /\ \A t \in Threads : Holder(t) => mWait
  /\ \A s, t \in Threads : Holder(s) /\ Holder(t) => s = t
NoShots(u) ==
  /\ OneShot \notin iFlags /\ \A t \in Threads : OneShot \notin reg[t]
  /\ \A t \in Threads : pc[t] \notin {"shared", "meet", "met", "taken"}
FlagTells(u) ==
  /\ Signaled \notin iFlags /\ pc[u] # "reset4" => IsDown
  /\ pc[u] = "set4" => IsDown /\ Signaled \in iFlags
  /\ pc[u] \in {"set", "set1", "set2", "set3"} => Signaled \notin iFlags
  /\ pc[u] \in {"reset2", "reset3"} => Signaled \in iFlags
  /\ pc[u] = "reset3" => Signaled \in reg[u]
  /\ pc[u] \in {"reset4", "reset5"} => Signaled \notin iFlags
DownTells(u) ==
  /\ down => Signaled \notin iFlags /\ pc[u] \notin SetPcs \cup {"reset2", "reset3", "reset4"}
  /\ down => \A t \in begunDown : pc[t] \notin Woken
Steered ==
  \A u \in Threads : case.manual /\ SteeredBy(case, u) => OneHolds(u) /\ NoShots(u) /\ FlagTells(u) /\ DownTells(u)
(* Where one thread u shoots, a waiter that has passed stays in the shot.  *)
PassedStay(u) ==
  /\ pc[u] \in {"shot2", "shot3", "shot4", "shot5", "shot6"} => OneShot \in iFlags
  /\ \A t \in Threads : got[t] <= 1
  /\ pc[u] = "shot4" => \A t \in Threads : got[t] = 1 => pc[t] \in {"test", "shared", "meet"}
ShotOnce == \A u \in Threads : ShotBy(case, u) => PassedStay(u)
NoneGot == (\A t \in Threads : "shot" \notin case.calls[t]) => \A t \in Threads : got[t] = 0
EvInv ==
  /\ EvTypes /\ CallsFit /\ MuxIsHeld /\ AutoCounts /\ NeverRaised /\ BegunWhenDown
  /\ Steered /\ ShotOnce /\ NoneGot

(* Who is in which call.                                                   *)
LEMMA EvNextFits ==
  ASSUME EvInv, [Next]_vars
  PROVE  CallsFit'
<1>0. CallsFit /\ pc \in [Threads -> Pcs] /\ case \in Cases
  BY StlEventAssumption DEF EvInv, EvTypes, TypeOK, Signaled, OneShot
<1>1. CASE Tick
  BY <1>0, <1>1 DEF Tick, event, hist, CallsFit, FitsCalls, SetPcs, ResetPcs, ShotPcs, WaitPcs
<1>2. ASSUME NEW t \in Threads, Call(t) PROVE CallsFit'
  <2>1. case.calls[t] \subseteq {"set", "reset", "wait", "waitto", "shot"}
    BY <1>0, StlEventAssumption
  <2>2. QED
    BY <1>0, <1>2, <2>1 DEF Call, Begin, BeginTo, At, Goto, event, hist, CallsFit, FitsCalls, SetPcs, ResetPcs, ShotPcs, WaitPcs
<1>3. ASSUME NEW t \in Threads, stlEventSet(t) PROVE CallsFit'
  BY <1>0, <1>3 DEF stlEventSet, LockMux, Skip, Load, Store, SetRelease, UnlockMux, At, Goto, event, hist, CallsFit, FitsCalls, SetPcs, ResetPcs, ShotPcs, WaitPcs
<1>4. ASSUME NEW t \in Threads, stlEventReset(t) PROVE CallsFit'
  BY <1>0, <1>4 DEF stlEventReset, LockMux, Skip, Load, Store, ResetHold, Lower, UnlockMux, At, Goto, event, hist, CallsFit, FitsCalls, SetPcs, ResetPcs, ShotPcs, WaitPcs
<1>5. ASSUME NEW t \in Threads, stlEventWait(t) PROVE CallsFit'
  BY <1>0, <1>5 DEF stlEventWait, Pass, Skip, PassOn, AfterPass, PassesOn, InShot, LockMux, UnlockMux, Finish, At, Goto, event, hist, CallsFit, FitsCalls, SetPcs, ResetPcs, ShotPcs, WaitPcs
<1>6. ASSUME NEW t \in Threads, stlEventWaitTo(t) PROVE CallsFit'
  BY <1>0, <1>6 DEF stlEventWaitTo, Pass, PassesOn, Timeout, At, Goto, event, hist, CallsFit, FitsCalls, SetPcs, ResetPcs, ShotPcs, WaitPcs
<1>7. ASSUME NEW t \in Threads, stlEvent1Shot(t) PROVE CallsFit'
  BY <1>0, <1>7 DEF stlEvent1Shot, Load, Store, LockMux, ShotRelease, Lower, UnlockMux, At, Goto, event, hist, CallsFit, FitsCalls, SetPcs, ResetPcs, ShotPcs, WaitPcs
<1>8. CASE UNCHANGED vars
  BY <1>0, <1>8 DEF vars, event, hist, CallsFit, FitsCalls, SetPcs, ResetPcs, ShotPcs, WaitPcs
<1>9. QED
  BY <1>1, <1>2, <1>3, <1>4, <1>5, <1>6, <1>7, <1>8 DEF Next, Step

(* Who has mux.                                                            *)
LEMMA EvNextMux ==
  ASSUME EvInv, [Next]_vars
  PROVE  MuxIsHeld'
<1>0. MuxIsHeld /\ None \notin Threads /\ pc \in [Threads -> Pcs] /\ case \in Cases
  BY StlEventAssumption DEF EvInv, EvTypes, TypeOK, Signaled, OneShot
<1>1. CASE Tick
  BY <1>0, <1>1 DEF Tick, event, hist, MuxIsHeld, InMux
<1>2. ASSUME NEW t \in Threads, Call(t) PROVE MuxIsHeld'
  <2>1. case.calls[t] \subseteq {"set", "reset", "wait", "waitto", "shot"}
    BY <1>0, StlEventAssumption
  <2>2. QED
    BY <1>0, <1>2, <2>1 DEF Call, Begin, BeginTo, At, Goto, event, hist, MuxIsHeld, InMux
<1>3. ASSUME NEW t \in Threads, stlEventSet(t) PROVE MuxIsHeld'
  BY <1>0, <1>3 DEF stlEventSet, LockMux, Skip, Load, Store, SetRelease, UnlockMux, At, Goto, event, hist, MuxIsHeld, InMux
<1>4. ASSUME NEW t \in Threads, stlEventReset(t) PROVE MuxIsHeld'
  BY <1>0, <1>4 DEF stlEventReset, LockMux, Skip, Load, Store, ResetHold, Lower, UnlockMux, At, Goto, event, hist, MuxIsHeld, InMux
<1>5. ASSUME NEW t \in Threads, stlEventWait(t) PROVE MuxIsHeld'
  BY <1>0, <1>5 DEF stlEventWait, Pass, Skip, PassOn, AfterPass, PassesOn, InShot, LockMux, UnlockMux, Finish, At, Goto, event, hist, MuxIsHeld, InMux
<1>6. ASSUME NEW t \in Threads, stlEventWaitTo(t) PROVE MuxIsHeld'
  BY <1>0, <1>6 DEF stlEventWaitTo, Pass, PassesOn, Timeout, At, Goto, event, hist, MuxIsHeld, InMux
<1>7. ASSUME NEW t \in Threads, stlEvent1Shot(t) PROVE MuxIsHeld'
  BY <1>0, <1>7 DEF stlEvent1Shot, Load, Store, LockMux, ShotRelease, Lower, UnlockMux, At, Goto, event, hist, MuxIsHeld, InMux
<1>8. CASE UNCHANGED vars
  BY <1>0, <1>8 DEF vars, event, hist, MuxIsHeld, InMux
<1>9. QED
  BY <1>1, <1>2, <1>3, <1>4, <1>5, <1>6, <1>7, <1>8 DEF Next, Step

(* Raised and taken.                                                       *)
LEMMA EvNextAuto ==
  ASSUME EvInv, [Next]_vars
  PROVE  AutoCounts'
<1>0. AutoCounts /\ pc \in [Threads -> Pcs] /\ case \in Cases /\ raised \in Nat /\ passed \in Nat /\ mWait \in BOOLEAN
  BY StlEventAssumption DEF EvInv, EvTypes, TypeOK, Signaled, OneShot
<1>1. CASE Tick
  BY <1>0, <1>1 DEF Tick, event, hist, AutoCounts
<1>2. ASSUME NEW t \in Threads, Call(t) PROVE AutoCounts'
  <2>1. case.calls[t] \subseteq {"set", "reset", "wait", "waitto", "shot"}
    BY <1>0, StlEventAssumption
  <2>2. QED
    BY <1>0, <1>2, <2>1 DEF Call, Begin, BeginTo, At, Goto, event, hist, AutoCounts
<1>3. ASSUME NEW t \in Threads, stlEventSet(t) PROVE AutoCounts'
  BY <1>0, <1>3 DEF stlEventSet, LockMux, Skip, Load, Store, SetRelease, UnlockMux, At, Goto, event, hist, AutoCounts
<1>4. ASSUME NEW t \in Threads, stlEventReset(t) PROVE AutoCounts'
  BY <1>0, <1>4 DEF stlEventReset, LockMux, Skip, Load, Store, ResetHold, Lower, UnlockMux, At, Goto, event, hist, AutoCounts
<1>5. ASSUME NEW t \in Threads, stlEventWait(t) PROVE AutoCounts'
  BY <1>0, <1>5 DEF stlEventWait, Pass, Skip, PassOn, AfterPass, PassesOn, InShot, LockMux, UnlockMux, Finish, At, Goto, event, hist, AutoCounts
<1>6. ASSUME NEW t \in Threads, stlEventWaitTo(t) PROVE AutoCounts'
  BY <1>0, <1>6 DEF stlEventWaitTo, Pass, PassesOn, Timeout, At, Goto, event, hist, AutoCounts
<1>7. ASSUME NEW t \in Threads, stlEvent1Shot(t) PROVE AutoCounts'
  BY <1>0, <1>7 DEF stlEvent1Shot, Load, Store, LockMux, ShotRelease, Lower, UnlockMux, At, Goto, event, hist, AutoCounts
<1>8. CASE UNCHANGED vars
  BY <1>0, <1>8 DEF vars, event, hist, AutoCounts
<1>9. QED
  BY <1>1, <1>2, <1>3, <1>4, <1>5, <1>6, <1>7, <1>8 DEF Next, Step

(* Not raised yet.                                                         *)
LEMMA EvNextNever ==
  ASSUME EvInv, [Next]_vars
  PROVE  NeverRaised'
<1>0. NeverRaised /\ CallsFit /\ pc \in [Threads -> Pcs] /\ case \in Cases /\ mWait \in BOOLEAN /\ down \in BOOLEAN
  BY StlEventAssumption DEF EvInv, EvTypes, TypeOK, Signaled, OneShot
<1>1. CASE Tick
  BY <1>0, <1>1 DEF Tick, event, hist, NeverRaised, Woken, CallsFit, FitsCalls, Resetless, ShotBy, SetPcs, ResetPcs, ShotPcs, WaitPcs
<1>2. ASSUME NEW t \in Threads, Call(t) PROVE NeverRaised'
  <2>1. case.calls[t] \subseteq {"set", "reset", "wait", "waitto", "shot"}
    BY <1>0, StlEventAssumption
  <2>2. PICK op \in case.calls[t] : Begin(t, op)
    BY <1>2 DEF Call, BeginTo
  <2>3. CASE op \in {"set", "shot"}
    BY <1>0, <2>2, <2>3 DEF Begin, NeverRaised
  <2>4. CASE op \in {"reset", "wait", "waitto"}
    BY <1>0, <2>2, <2>4 DEF Begin, At, Goto, event, NeverRaised, Woken, SetPcs, ResetPcs, ShotPcs, WaitPcs
  <2>5. QED
    BY <2>1, <2>3, <2>4
<1>3. ASSUME NEW t \in Threads, stlEventSet(t) PROVE NeverRaised'
  BY <1>0, <1>3 DEF stlEventSet, LockMux, Skip, Load, Store, SetRelease, UnlockMux, At, Goto, event, hist, NeverRaised, Woken, SetPcs, ResetPcs, ShotPcs, WaitPcs
<1>4. ASSUME NEW t \in Threads, stlEventReset(t) PROVE NeverRaised'
  BY <1>0, <1>4 DEF stlEventReset, LockMux, Skip, Load, Store, ResetHold, Lower, UnlockMux, At, Goto, event, hist, NeverRaised, Woken, CallsFit, FitsCalls, Resetless, ShotBy, SetPcs, ResetPcs, ShotPcs, WaitPcs
<1>5. ASSUME NEW t \in Threads, stlEventWait(t) PROVE NeverRaised'
  BY <1>0, <1>5 DEF stlEventWait, Pass, Skip, PassOn, AfterPass, PassesOn, InShot, LockMux, UnlockMux, Finish, At, Goto, event, hist, NeverRaised, Woken, SetPcs, ResetPcs, ShotPcs, WaitPcs
<1>6. ASSUME NEW t \in Threads, stlEventWaitTo(t) PROVE NeverRaised'
  BY <1>0, <1>6 DEF stlEventWaitTo, Pass, PassesOn, Timeout, At, Goto, event, hist, NeverRaised, Woken, SetPcs, ResetPcs, ShotPcs, WaitPcs
<1>7. ASSUME NEW t \in Threads, stlEvent1Shot(t) PROVE NeverRaised'
  BY <1>0, <1>7 DEF stlEvent1Shot, Load, Store, LockMux, ShotRelease, Lower, UnlockMux, At, Goto, event, hist, NeverRaised, Woken, SetPcs, ResetPcs, ShotPcs, WaitPcs
<1>8. CASE UNCHANGED vars
  BY <1>0, <1>8 DEF vars, event, hist, NeverRaised, Woken, CallsFit, FitsCalls, Resetless, ShotBy, SetPcs, ResetPcs, ShotPcs, WaitPcs
<1>9. QED
  BY <1>1, <1>2, <1>3, <1>4, <1>5, <1>6, <1>7, <1>8 DEF Next, Step

(* Waits that began while the event is down.                               *)
LEMMA EvNextBegun ==
  ASSUME EvInv, [Next]_vars
  PROVE  BegunWhenDown'
<1>0. BegunWhenDown /\ down \in BOOLEAN /\ pc \in [Threads -> Pcs] /\ case \in Cases
  BY StlEventAssumption DEF EvInv, EvTypes, TypeOK, Signaled, OneShot
<1>1. CASE Tick
  BY <1>0, <1>1 DEF Tick, event, hist, BegunWhenDown, Raising, SetPcs, ShotPcs
<1>2. ASSUME NEW t \in Threads, Call(t) PROVE BegunWhenDown'
  <2>1. case.calls[t] \subseteq {"set", "reset", "wait", "waitto", "shot"}
    BY <1>0, StlEventAssumption
  <2>2. QED
    BY <1>0, <1>2, <2>1 DEF Call, Begin, BeginTo, At, Goto, event, hist, BegunWhenDown, Raising, SetPcs, ShotPcs
<1>3. ASSUME NEW t \in Threads, stlEventSet(t) PROVE BegunWhenDown'
  BY <1>0, <1>3 DEF stlEventSet, LockMux, Skip, Load, Store, SetRelease, UnlockMux, At, Goto, event, hist, BegunWhenDown, Raising, SetPcs, ShotPcs
<1>4. ASSUME NEW t \in Threads, stlEventReset(t) PROVE BegunWhenDown'
  BY <1>0, <1>4 DEF stlEventReset, LockMux, Skip, Load, Store, ResetHold, Lower, UnlockMux, At, Goto, event, hist, BegunWhenDown, Raising, SetPcs, ShotPcs
<1>5. ASSUME NEW t \in Threads, stlEventWait(t) PROVE BegunWhenDown'
  BY <1>0, <1>5 DEF stlEventWait, Pass, Skip, PassOn, AfterPass, PassesOn, InShot, LockMux, UnlockMux, Finish, At, Goto, event, hist, BegunWhenDown, Raising, SetPcs, ShotPcs
<1>6. ASSUME NEW t \in Threads, stlEventWaitTo(t) PROVE BegunWhenDown'
  BY <1>0, <1>6 DEF stlEventWaitTo, Pass, PassesOn, Timeout, At, Goto, event, hist, BegunWhenDown, Raising, SetPcs, ShotPcs
<1>7. ASSUME NEW t \in Threads, stlEvent1Shot(t) PROVE BegunWhenDown'
  BY <1>0, <1>7 DEF stlEvent1Shot, Load, Store, LockMux, ShotRelease, Lower, UnlockMux, At, Goto, event, hist, BegunWhenDown, Raising, SetPcs, ShotPcs
<1>8. CASE UNCHANGED vars
  BY <1>0, <1>8 DEF vars, event, hist, BegunWhenDown, Raising, SetPcs, ShotPcs
<1>9. QED
  BY <1>1, <1>2, <1>3, <1>4, <1>5, <1>6, <1>7, <1>8 DEF Next, Step

(* Where nobody shoots.                                                    *)
LEMMA EvNextNone ==
  ASSUME EvInv, [Next]_vars
  PROVE  NoneGot'
<1>0. NoneGot /\ CallsFit /\ pc \in [Threads -> Pcs] /\ case \in Cases /\ got \in [Threads -> Nat]
  BY StlEventAssumption DEF EvInv, EvTypes, TypeOK, Signaled, OneShot
<1>1. CASE Tick
  BY <1>0, <1>1 DEF Tick, event, hist, NoneGot, CallsFit, FitsCalls, SetPcs, ResetPcs, ShotPcs, WaitPcs
<1>2. ASSUME NEW t \in Threads, Call(t) PROVE NoneGot'
  <2>1. case.calls[t] \subseteq {"set", "reset", "wait", "waitto", "shot"}
    BY <1>0, StlEventAssumption
  <2>2. QED
    BY <1>0, <1>2, <2>1 DEF Call, Begin, BeginTo, At, Goto, event, hist, NoneGot, CallsFit, FitsCalls, SetPcs, ResetPcs, ShotPcs, WaitPcs
<1>3. ASSUME NEW t \in Threads, stlEventSet(t) PROVE NoneGot'
  BY <1>0, <1>3 DEF stlEventSet, LockMux, Skip, Load, Store, SetRelease, UnlockMux, At, Goto, event, hist, NoneGot, CallsFit, FitsCalls, SetPcs, ResetPcs, ShotPcs, WaitPcs
<1>4. ASSUME NEW t \in Threads, stlEventReset(t) PROVE NoneGot'
  BY <1>0, <1>4 DEF stlEventReset, LockMux, Skip, Load, Store, ResetHold, Lower, UnlockMux, At, Goto, event, hist, NoneGot, CallsFit, FitsCalls, SetPcs, ResetPcs, ShotPcs, WaitPcs
<1>5. ASSUME NEW t \in Threads, stlEventWait(t) PROVE NoneGot'
  BY <1>0, <1>5 DEF stlEventWait, Pass, Skip, PassOn, AfterPass, PassesOn, InShot, LockMux, UnlockMux, Finish, At, Goto, event, hist, NoneGot, CallsFit, FitsCalls, SetPcs, ResetPcs, ShotPcs, WaitPcs
<1>6. ASSUME NEW t \in Threads, stlEventWaitTo(t) PROVE NoneGot'
  BY <1>0, <1>6 DEF stlEventWaitTo, Pass, PassesOn, Timeout, At, Goto, event, hist, NoneGot, CallsFit, FitsCalls, SetPcs, ResetPcs, ShotPcs, WaitPcs
<1>7. ASSUME NEW t \in Threads, stlEvent1Shot(t) PROVE NoneGot'
  BY <1>0, <1>7 DEF stlEvent1Shot, Load, Store, LockMux, ShotRelease, Lower, UnlockMux, At, Goto, event, hist, NoneGot, CallsFit, FitsCalls, SetPcs, ResetPcs, ShotPcs, WaitPcs
<1>8. CASE UNCHANGED vars
  BY <1>0, <1>8 DEF vars, event, hist, NoneGot, CallsFit, FitsCalls, SetPcs, ResetPcs, ShotPcs, WaitPcs
<1>9. QED
  BY <1>1, <1>2, <1>3, <1>4, <1>5, <1>6, <1>7, <1>8 DEF Next, Step

(* Who has passed in a shot.                                               *)
LEMMA EvNextShot ==
  ASSUME EvInv, [Next]_vars
  PROVE  ShotOnce'
<1>0. ShotOnce /\ None \notin Threads /\ CallsFit /\ MuxIsHeld /\ pc \in [Threads -> Pcs] /\ case \in Cases /\ got \in [Threads -> Nat] /\ reg \in [Threads -> SUBSET {Signaled, OneShot}] /\ Signaled # OneShot
  BY StlEventAssumption DEF EvInv, EvTypes, TypeOK, Signaled, OneShot
<1>1. CASE Tick
  BY <1>0, <1>1 DEF Tick, event, hist, ShotOnce, PassedStay, ShotBy, MuxIsHeld, InMux, CallsFit, FitsCalls, SetPcs, ResetPcs, ShotPcs, WaitPcs
<1>2. ASSUME NEW t \in Threads, Call(t) PROVE ShotOnce'
  <2>1. case.calls[t] \subseteq {"set", "reset", "wait", "waitto", "shot"}
    BY <1>0, StlEventAssumption
  <2>2. QED
    BY <1>0, <1>2, <2>1 DEF Call, Begin, BeginTo, At, Goto, event, hist, ShotOnce, PassedStay, ShotBy, MuxIsHeld, InMux, CallsFit, FitsCalls, SetPcs, ResetPcs, ShotPcs, WaitPcs
<1>3. ASSUME NEW t \in Threads, stlEventSet(t) PROVE ShotOnce'
  BY <1>0, <1>3 DEF stlEventSet, LockMux, Skip, Load, Store, SetRelease, UnlockMux, At, Goto, event, hist, ShotOnce, PassedStay, ShotBy, MuxIsHeld, InMux, CallsFit, FitsCalls, SetPcs, ResetPcs, ShotPcs, WaitPcs
<1>4. ASSUME NEW t \in Threads, stlEventReset(t) PROVE ShotOnce'
  BY <1>0, <1>4 DEF stlEventReset, LockMux, Skip, Load, Store, ResetHold, Lower, UnlockMux, At, Goto, event, hist, ShotOnce, PassedStay, ShotBy, MuxIsHeld, InMux, CallsFit, FitsCalls, SetPcs, ResetPcs, ShotPcs, WaitPcs
<1>5. ASSUME NEW t \in Threads, stlEventWait(t) PROVE ShotOnce'
  <2>1. SUFFICES ASSUME NEW u \in Threads, ShotBy(case, u)' PROVE PassedStay(u)'
    BY DEF ShotOnce
  <2>2. UNCHANGED case
    BY <1>5 DEF stlEventWait, Pass, Skip, PassOn, AfterPass, PassesOn, InShot, LockMux, UnlockMux, Finish, At, Goto, event, hist
  <2>3. PassedStay(u)
    BY <1>0, <2>1, <2>2 DEF ShotOnce, ShotBy
  <2>4. CASE Pass(t, "wait", "test")
    <3>1. \A v \in Threads : pc[v] = "shot4" => v = u
      BY <1>0, <2>1, <2>2 DEF CallsFit, FitsCalls, ShotBy, ShotPcs
    <3>2. t # u \/ pc[u] # "shot4"
      BY <2>4 DEF Pass, At
    <3>3. pc[u] = "shot4" => got[t] = 0
      BY <1>0, <2>3, <2>4 DEF PassedStay, Pass, At
    <3>4. QED
      BY <1>0, <2>3, <2>4, <3>1, <3>2, <3>3 DEF Pass, At, Goto, PassedStay
  <2>5. CASE Skip(t, "test", AfterPass)
    <3>1. pc[u] = "shot4" => AfterPass \in {"shared", "meet"}
      BY <2>3 DEF PassedStay, AfterPass, InShot
    <3>2. t = u => AfterPass \notin {"shot2", "shot3", "shot4", "shot5", "shot6"}
      BY DEF AfterPass
    <3> HIDE DEF AfterPass
    <3>3. QED
      BY <1>0, <2>3, <2>5, <3>1, <3>2 DEF Skip, At, Goto, event, hist, PassedStay
  <2>6. CASE LockMux(t, "meet", "met")
    <3>1. pc[u] # "shot4"
      BY <1>0, <2>6 DEF LockMux, MuxIsHeld, InMux
    <3>2. QED
      BY <1>0, <2>3, <2>6, <3>1 DEF LockMux, At, Goto, event, hist, PassedStay
  <2>7. CASE UnlockMux(t, "met")
    BY <1>0, <2>3, <2>7 DEF UnlockMux, At, Goto, event, hist, PassedStay
  <2>8. CASE PassOn(t, "shared", "meet")
    BY <1>0, <2>3, <2>8 DEF PassOn, At, Goto, event, hist, PassedStay
  <2>9. CASE PassOn(t, "release", "idle") \/ Finish(t, "taken")
    BY <1>0, <2>3, <2>9 DEF PassOn, Finish, At, Goto, event, hist, PassedStay
  <2>10. QED
    BY <1>5, <2>4, <2>5, <2>6, <2>7, <2>8, <2>9 DEF stlEventWait
<1>6. ASSUME NEW t \in Threads, stlEventWaitTo(t) PROVE ShotOnce'
  BY <1>0, <1>6 DEF stlEventWaitTo, Pass, PassesOn, Timeout, At, Goto, event, hist, ShotOnce, PassedStay, ShotBy, MuxIsHeld, InMux, CallsFit, FitsCalls, SetPcs, ResetPcs, ShotPcs, WaitPcs
<1>7. ASSUME NEW t \in Threads, stlEvent1Shot(t) PROVE ShotOnce'
  BY <1>0, <1>7 DEF stlEvent1Shot, Load, Store, LockMux, ShotRelease, Lower, UnlockMux, At, Goto, event, hist, ShotOnce, PassedStay, ShotBy, MuxIsHeld, InMux, CallsFit, FitsCalls, SetPcs, ResetPcs, ShotPcs, WaitPcs
<1>8. CASE UNCHANGED vars
  BY <1>0, <1>8 DEF vars, event, hist, ShotOnce, PassedStay, ShotBy, MuxIsHeld, InMux, CallsFit, FitsCalls, SetPcs, ResetPcs, ShotPcs, WaitPcs
<1>9. QED
  BY <1>1, <1>2, <1>3, <1>4, <1>5, <1>6, <1>7, <1>8 DEF Next, Step

(* What one thread steers.                                                 *)
Steers(u) == case.manual /\ SteeredBy(case, u)
SteeredInv(u) == OneHolds(u) /\ NoShots(u) /\ FlagTells(u) /\ DownTells(u)
LEMMA SteeredCalls ==
  ASSUME EvInv, NEW u \in Threads, Steers(u), NEW t \in Threads
  PROVE  /\ pc[t] \notin ShotPcs /\ (pc[t] \in SetPcs \cup ResetPcs => t = u)
         /\ ~case.again /\ (case.calls[t] \cap {"set", "reset"} # {} => t = u) /\ "shot" \notin case.calls[t]
BY DEF EvInv, CallsFit, FitsCalls, Steers, SteeredBy, SetPcs, ResetPcs

(* One thread has mWait.                                                   *)
LEMMA EvNextOneHolds ==
  ASSUME EvInv, [Next]_vars, NEW u \in Threads, Steers(u)
  PROVE  OneHolds(u)'
<1>0. SteeredInv(u) /\ case.manual /\ BegunWhenDown /\ pc \in [Threads -> Pcs] /\ case \in Cases /\ mWait \in BOOLEAN /\ down \in BOOLEAN /\ iFlags \subseteq {Signaled, OneShot} /\ reg \in [Threads -> SUBSET {Signaled, OneShot}] /\ Signaled # OneShot
  BY StlEventAssumption DEF EvInv, EvTypes, TypeOK, Signaled, OneShot, Steered, Steers, SteeredInv
<1>1. CASE Tick
  BY <1>0, <1>1 DEF Tick, event, hist, SteeredInv, OneHolds, Holder, IsDown, NoShots, FlagTells, DownTells, BegunWhenDown, Raising, Toggled, Woken, SetPcs, ResetPcs, ShotPcs
<1>2. ASSUME NEW t \in Threads, Call(t) PROVE OneHolds(u)'
  <2>1. case.calls[t] \subseteq {"set", "reset", "wait", "waitto", "shot"}
    BY <1>0, StlEventAssumption
  <2>2. /\ \A v \in Threads : pc[v] \notin ShotPcs /\ (pc[v] \in SetPcs \cup ResetPcs => v = u)
        /\ ~case.again /\ (case.calls[t] \cap {"set", "reset"} # {} => t = u) /\ "shot" \notin case.calls[t]
    BY SteeredCalls
  <2>3. QED
    BY <1>0, <1>2, <2>1, <2>2 DEF Call, Begin, BeginTo, At, Goto, event, hist, SteeredInv, OneHolds, Holder, IsDown, NoShots, FlagTells, DownTells, BegunWhenDown, Raising, Toggled, Woken, SetPcs, ResetPcs, ShotPcs
<1>3. ASSUME NEW t \in Threads, stlEventSet(t) PROVE OneHolds(u)'
  <2>1. case.calls[t] \subseteq {"set", "reset", "wait", "waitto", "shot"}
    BY <1>0, StlEventAssumption
  <2>2. /\ \A v \in Threads : pc[v] \notin ShotPcs /\ (pc[v] \in SetPcs \cup ResetPcs => v = u)
        /\ ~case.again /\ (case.calls[t] \cap {"set", "reset"} # {} => t = u) /\ "shot" \notin case.calls[t]
    BY SteeredCalls
  <2>3. QED
    BY <1>0, <1>3, <2>1, <2>2 DEF stlEventSet, LockMux, Skip, Load, Store, SetRelease, UnlockMux, At, Goto, event, hist, SteeredInv, OneHolds, Holder, IsDown, NoShots, FlagTells, DownTells, BegunWhenDown, Raising, Toggled, Woken, SetPcs, ResetPcs, ShotPcs
<1>4. ASSUME NEW t \in Threads, stlEventReset(t) PROVE OneHolds(u)'
  <2>1. case.calls[t] \subseteq {"set", "reset", "wait", "waitto", "shot"}
    BY <1>0, StlEventAssumption
  <2>2. /\ \A v \in Threads : pc[v] \notin ShotPcs /\ (pc[v] \in SetPcs \cup ResetPcs => v = u)
        /\ ~case.again /\ (case.calls[t] \cap {"set", "reset"} # {} => t = u) /\ "shot" \notin case.calls[t]
    BY SteeredCalls
  <2>3. QED
    BY <1>0, <1>4, <2>1, <2>2 DEF stlEventReset, LockMux, Skip, Load, Store, ResetHold, Lower, UnlockMux, At, Goto, event, hist, SteeredInv, OneHolds, Holder, IsDown, NoShots, FlagTells, DownTells, BegunWhenDown, Raising, Toggled, Woken, SetPcs, ResetPcs, ShotPcs
<1>5. ASSUME NEW t \in Threads, stlEventWait(t) PROVE OneHolds(u)'
  <2>1. case.calls[t] \subseteq {"set", "reset", "wait", "waitto", "shot"}
    BY <1>0, StlEventAssumption
  <2>2. /\ \A v \in Threads : pc[v] \notin ShotPcs /\ (pc[v] \in SetPcs \cup ResetPcs => v = u)
        /\ ~case.again /\ (case.calls[t] \cap {"set", "reset"} # {} => t = u) /\ "shot" \notin case.calls[t]
    BY SteeredCalls
  <2>3. QED
    BY <1>0, <1>5, <2>1, <2>2 DEF stlEventWait, Pass, Skip, PassOn, AfterPass, PassesOn, InShot, LockMux, UnlockMux, Finish, At, Goto, event, hist, SteeredInv, OneHolds, Holder, IsDown, NoShots, FlagTells, DownTells, BegunWhenDown, Raising, Toggled, Woken, SetPcs, ResetPcs, ShotPcs
<1>6. ASSUME NEW t \in Threads, stlEventWaitTo(t) PROVE OneHolds(u)'
  <2>1. case.calls[t] \subseteq {"set", "reset", "wait", "waitto", "shot"}
    BY <1>0, StlEventAssumption
  <2>2. /\ \A v \in Threads : pc[v] \notin ShotPcs /\ (pc[v] \in SetPcs \cup ResetPcs => v = u)
        /\ ~case.again /\ (case.calls[t] \cap {"set", "reset"} # {} => t = u) /\ "shot" \notin case.calls[t]
    BY SteeredCalls
  <2>3. QED
    BY <1>0, <1>6, <2>1, <2>2 DEF stlEventWaitTo, Pass, PassesOn, Timeout, At, Goto, event, hist, SteeredInv, OneHolds, Holder, IsDown, NoShots, FlagTells, DownTells, BegunWhenDown, Raising, Toggled, Woken, SetPcs, ResetPcs, ShotPcs
<1>7. ASSUME NEW t \in Threads, stlEvent1Shot(t) PROVE OneHolds(u)'
  <2>1. case.calls[t] \subseteq {"set", "reset", "wait", "waitto", "shot"}
    BY <1>0, StlEventAssumption
  <2>2. /\ \A v \in Threads : pc[v] \notin ShotPcs /\ (pc[v] \in SetPcs \cup ResetPcs => v = u)
        /\ ~case.again /\ (case.calls[t] \cap {"set", "reset"} # {} => t = u) /\ "shot" \notin case.calls[t]
    BY SteeredCalls
  <2>3. QED
    BY <1>0, <1>7, <2>1, <2>2 DEF stlEvent1Shot, Load, Store, LockMux, ShotRelease, Lower, UnlockMux, At, Goto, event, hist, SteeredInv, OneHolds, Holder, IsDown, NoShots, FlagTells, DownTells, BegunWhenDown, Raising, Toggled, Woken, SetPcs, ResetPcs, ShotPcs
<1>8. CASE UNCHANGED vars
  BY <1>0, <1>8 DEF vars, event, hist, SteeredInv, OneHolds, Holder, IsDown, NoShots, FlagTells, DownTells, BegunWhenDown, Raising, Toggled, Woken, SetPcs, ResetPcs, ShotPcs
<1>9. QED
  BY <1>1, <1>2, <1>3, <1>4, <1>5, <1>6, <1>7, <1>8 DEF Next, Step

(* Nobody shoots.                                                          *)
LEMMA EvNextNoShots ==
  ASSUME EvInv, [Next]_vars, NEW u \in Threads, Steers(u)
  PROVE  NoShots(u)'
<1>0. SteeredInv(u) /\ case.manual /\ BegunWhenDown /\ pc \in [Threads -> Pcs] /\ case \in Cases /\ mWait \in BOOLEAN /\ down \in BOOLEAN /\ iFlags \subseteq {Signaled, OneShot} /\ reg \in [Threads -> SUBSET {Signaled, OneShot}] /\ Signaled # OneShot
  BY StlEventAssumption DEF EvInv, EvTypes, TypeOK, Signaled, OneShot, Steered, Steers, SteeredInv
<1>1. CASE Tick
  BY <1>0, <1>1 DEF Tick, event, hist, SteeredInv, OneHolds, Holder, IsDown, NoShots, FlagTells, DownTells, BegunWhenDown, Raising, Toggled, Woken, SetPcs, ResetPcs, ShotPcs
<1>2. ASSUME NEW t \in Threads, Call(t) PROVE NoShots(u)'
  <2>1. case.calls[t] \subseteq {"set", "reset", "wait", "waitto", "shot"}
    BY <1>0, StlEventAssumption
  <2>2. /\ \A v \in Threads : pc[v] \notin ShotPcs /\ (pc[v] \in SetPcs \cup ResetPcs => v = u)
        /\ ~case.again /\ (case.calls[t] \cap {"set", "reset"} # {} => t = u) /\ "shot" \notin case.calls[t]
    BY SteeredCalls
  <2>3. QED
    BY <1>0, <1>2, <2>1, <2>2 DEF Call, Begin, BeginTo, At, Goto, event, hist, SteeredInv, OneHolds, Holder, IsDown, NoShots, FlagTells, DownTells, BegunWhenDown, Raising, Toggled, Woken, SetPcs, ResetPcs, ShotPcs
<1>3. ASSUME NEW t \in Threads, stlEventSet(t) PROVE NoShots(u)'
  <2>1. case.calls[t] \subseteq {"set", "reset", "wait", "waitto", "shot"}
    BY <1>0, StlEventAssumption
  <2>2. /\ \A v \in Threads : pc[v] \notin ShotPcs /\ (pc[v] \in SetPcs \cup ResetPcs => v = u)
        /\ ~case.again /\ (case.calls[t] \cap {"set", "reset"} # {} => t = u) /\ "shot" \notin case.calls[t]
    BY SteeredCalls
  <2>3. QED
    BY <1>0, <1>3, <2>1, <2>2 DEF stlEventSet, LockMux, Skip, Load, Store, SetRelease, UnlockMux, At, Goto, event, hist, SteeredInv, OneHolds, Holder, IsDown, NoShots, FlagTells, DownTells, BegunWhenDown, Raising, Toggled, Woken, SetPcs, ResetPcs, ShotPcs
<1>4. ASSUME NEW t \in Threads, stlEventReset(t) PROVE NoShots(u)'
  <2>1. case.calls[t] \subseteq {"set", "reset", "wait", "waitto", "shot"}
    BY <1>0, StlEventAssumption
  <2>2. /\ \A v \in Threads : pc[v] \notin ShotPcs /\ (pc[v] \in SetPcs \cup ResetPcs => v = u)
        /\ ~case.again /\ (case.calls[t] \cap {"set", "reset"} # {} => t = u) /\ "shot" \notin case.calls[t]
    BY SteeredCalls
  <2>3. QED
    BY <1>0, <1>4, <2>1, <2>2 DEF stlEventReset, LockMux, Skip, Load, Store, ResetHold, Lower, UnlockMux, At, Goto, event, hist, SteeredInv, OneHolds, Holder, IsDown, NoShots, FlagTells, DownTells, BegunWhenDown, Raising, Toggled, Woken, SetPcs, ResetPcs, ShotPcs
<1>5. ASSUME NEW t \in Threads, stlEventWait(t) PROVE NoShots(u)'
  <2>1. case.calls[t] \subseteq {"set", "reset", "wait", "waitto", "shot"}
    BY <1>0, StlEventAssumption
  <2>2. /\ \A v \in Threads : pc[v] \notin ShotPcs /\ (pc[v] \in SetPcs \cup ResetPcs => v = u)
        /\ ~case.again /\ (case.calls[t] \cap {"set", "reset"} # {} => t = u) /\ "shot" \notin case.calls[t]
    BY SteeredCalls
  <2>3. QED
    BY <1>0, <1>5, <2>1, <2>2 DEF stlEventWait, Pass, Skip, PassOn, AfterPass, PassesOn, InShot, LockMux, UnlockMux, Finish, At, Goto, event, hist, SteeredInv, OneHolds, Holder, IsDown, NoShots, FlagTells, DownTells, BegunWhenDown, Raising, Toggled, Woken, SetPcs, ResetPcs, ShotPcs
<1>6. ASSUME NEW t \in Threads, stlEventWaitTo(t) PROVE NoShots(u)'
  <2>1. case.calls[t] \subseteq {"set", "reset", "wait", "waitto", "shot"}
    BY <1>0, StlEventAssumption
  <2>2. /\ \A v \in Threads : pc[v] \notin ShotPcs /\ (pc[v] \in SetPcs \cup ResetPcs => v = u)
        /\ ~case.again /\ (case.calls[t] \cap {"set", "reset"} # {} => t = u) /\ "shot" \notin case.calls[t]
    BY SteeredCalls
  <2>3. QED
    BY <1>0, <1>6, <2>1, <2>2 DEF stlEventWaitTo, Pass, PassesOn, Timeout, At, Goto, event, hist, SteeredInv, OneHolds, Holder, IsDown, NoShots, FlagTells, DownTells, BegunWhenDown, Raising, Toggled, Woken, SetPcs, ResetPcs, ShotPcs
<1>7. ASSUME NEW t \in Threads, stlEvent1Shot(t) PROVE NoShots(u)'
  <2>1. case.calls[t] \subseteq {"set", "reset", "wait", "waitto", "shot"}
    BY <1>0, StlEventAssumption
  <2>2. /\ \A v \in Threads : pc[v] \notin ShotPcs /\ (pc[v] \in SetPcs \cup ResetPcs => v = u)
        /\ ~case.again /\ (case.calls[t] \cap {"set", "reset"} # {} => t = u) /\ "shot" \notin case.calls[t]
    BY SteeredCalls
  <2>3. QED
    BY <1>0, <1>7, <2>1, <2>2 DEF stlEvent1Shot, Load, Store, LockMux, ShotRelease, Lower, UnlockMux, At, Goto, event, hist, SteeredInv, OneHolds, Holder, IsDown, NoShots, FlagTells, DownTells, BegunWhenDown, Raising, Toggled, Woken, SetPcs, ResetPcs, ShotPcs
<1>8. CASE UNCHANGED vars
  BY <1>0, <1>8 DEF vars, event, hist, SteeredInv, OneHolds, Holder, IsDown, NoShots, FlagTells, DownTells, BegunWhenDown, Raising, Toggled, Woken, SetPcs, ResetPcs, ShotPcs
<1>9. QED
  BY <1>1, <1>2, <1>3, <1>4, <1>5, <1>6, <1>7, <1>8 DEF Next, Step

(* What the flag tells.                                                    *)
LEMMA EvNextFlagTells ==
  ASSUME EvInv, [Next]_vars, NEW u \in Threads, Steers(u)
  PROVE  FlagTells(u)'
<1>0. SteeredInv(u) /\ case.manual /\ BegunWhenDown /\ pc \in [Threads -> Pcs] /\ case \in Cases /\ mWait \in BOOLEAN /\ down \in BOOLEAN /\ iFlags \subseteq {Signaled, OneShot} /\ reg \in [Threads -> SUBSET {Signaled, OneShot}] /\ Signaled # OneShot
  BY StlEventAssumption DEF EvInv, EvTypes, TypeOK, Signaled, OneShot, Steered, Steers, SteeredInv
<1>1. CASE Tick
  BY <1>0, <1>1 DEF Tick, event, hist, SteeredInv, OneHolds, Holder, IsDown, NoShots, FlagTells, DownTells, BegunWhenDown, Raising, Toggled, Woken, SetPcs, ResetPcs, ShotPcs
<1>2. ASSUME NEW t \in Threads, Call(t) PROVE FlagTells(u)'
  <2>1. case.calls[t] \subseteq {"set", "reset", "wait", "waitto", "shot"}
    BY <1>0, StlEventAssumption
  <2>2. /\ \A v \in Threads : pc[v] \notin ShotPcs /\ (pc[v] \in SetPcs \cup ResetPcs => v = u)
        /\ ~case.again /\ (case.calls[t] \cap {"set", "reset"} # {} => t = u) /\ "shot" \notin case.calls[t]
    BY SteeredCalls
  <2>3. QED
    BY <1>0, <1>2, <2>1, <2>2 DEF Call, Begin, BeginTo, At, Goto, event, hist, SteeredInv, OneHolds, Holder, IsDown, NoShots, FlagTells, DownTells, BegunWhenDown, Raising, Toggled, Woken, SetPcs, ResetPcs, ShotPcs
<1>3. ASSUME NEW t \in Threads, stlEventSet(t) PROVE FlagTells(u)'
  <2>1. case.calls[t] \subseteq {"set", "reset", "wait", "waitto", "shot"}
    BY <1>0, StlEventAssumption
  <2>2. /\ \A v \in Threads : pc[v] \notin ShotPcs /\ (pc[v] \in SetPcs \cup ResetPcs => v = u)
        /\ ~case.again /\ (case.calls[t] \cap {"set", "reset"} # {} => t = u) /\ "shot" \notin case.calls[t]
    BY SteeredCalls
  <2>3. QED
    BY <1>0, <1>3, <2>1, <2>2 DEF stlEventSet, LockMux, Skip, Load, Store, SetRelease, UnlockMux, At, Goto, event, hist, SteeredInv, OneHolds, Holder, IsDown, NoShots, FlagTells, DownTells, BegunWhenDown, Raising, Toggled, Woken, SetPcs, ResetPcs, ShotPcs
<1>4. ASSUME NEW t \in Threads, stlEventReset(t) PROVE FlagTells(u)'
  <2>1. case.calls[t] \subseteq {"set", "reset", "wait", "waitto", "shot"}
    BY <1>0, StlEventAssumption
  <2>2. /\ \A v \in Threads : pc[v] \notin ShotPcs /\ (pc[v] \in SetPcs \cup ResetPcs => v = u)
        /\ ~case.again /\ (case.calls[t] \cap {"set", "reset"} # {} => t = u) /\ "shot" \notin case.calls[t]
    BY SteeredCalls
  <2>3. QED
    BY <1>0, <1>4, <2>1, <2>2 DEF stlEventReset, LockMux, Skip, Load, Store, ResetHold, Lower, UnlockMux, At, Goto, event, hist, SteeredInv, OneHolds, Holder, IsDown, NoShots, FlagTells, DownTells, BegunWhenDown, Raising, Toggled, Woken, SetPcs, ResetPcs, ShotPcs
<1>5. ASSUME NEW t \in Threads, stlEventWait(t) PROVE FlagTells(u)'
  <2>1. case.calls[t] \subseteq {"set", "reset", "wait", "waitto", "shot"}
    BY <1>0, StlEventAssumption
  <2>2. /\ \A v \in Threads : pc[v] \notin ShotPcs /\ (pc[v] \in SetPcs \cup ResetPcs => v = u)
        /\ ~case.again /\ (case.calls[t] \cap {"set", "reset"} # {} => t = u) /\ "shot" \notin case.calls[t]
    BY SteeredCalls
  <2>3. QED
    BY <1>0, <1>5, <2>1, <2>2 DEF stlEventWait, Pass, Skip, PassOn, AfterPass, PassesOn, InShot, LockMux, UnlockMux, Finish, At, Goto, event, hist, SteeredInv, OneHolds, Holder, IsDown, NoShots, FlagTells, DownTells, BegunWhenDown, Raising, Toggled, Woken, SetPcs, ResetPcs, ShotPcs
<1>6. ASSUME NEW t \in Threads, stlEventWaitTo(t) PROVE FlagTells(u)'
  <2>1. case.calls[t] \subseteq {"set", "reset", "wait", "waitto", "shot"}
    BY <1>0, StlEventAssumption
  <2>2. /\ \A v \in Threads : pc[v] \notin ShotPcs /\ (pc[v] \in SetPcs \cup ResetPcs => v = u)
        /\ ~case.again /\ (case.calls[t] \cap {"set", "reset"} # {} => t = u) /\ "shot" \notin case.calls[t]
    BY SteeredCalls
  <2>3. QED
    BY <1>0, <1>6, <2>1, <2>2 DEF stlEventWaitTo, Pass, PassesOn, Timeout, At, Goto, event, hist, SteeredInv, OneHolds, Holder, IsDown, NoShots, FlagTells, DownTells, BegunWhenDown, Raising, Toggled, Woken, SetPcs, ResetPcs, ShotPcs
<1>7. ASSUME NEW t \in Threads, stlEvent1Shot(t) PROVE FlagTells(u)'
  <2>1. case.calls[t] \subseteq {"set", "reset", "wait", "waitto", "shot"}
    BY <1>0, StlEventAssumption
  <2>2. /\ \A v \in Threads : pc[v] \notin ShotPcs /\ (pc[v] \in SetPcs \cup ResetPcs => v = u)
        /\ ~case.again /\ (case.calls[t] \cap {"set", "reset"} # {} => t = u) /\ "shot" \notin case.calls[t]
    BY SteeredCalls
  <2>3. QED
    BY <1>0, <1>7, <2>1, <2>2 DEF stlEvent1Shot, Load, Store, LockMux, ShotRelease, Lower, UnlockMux, At, Goto, event, hist, SteeredInv, OneHolds, Holder, IsDown, NoShots, FlagTells, DownTells, BegunWhenDown, Raising, Toggled, Woken, SetPcs, ResetPcs, ShotPcs
<1>8. CASE UNCHANGED vars
  BY <1>0, <1>8 DEF vars, event, hist, SteeredInv, OneHolds, Holder, IsDown, NoShots, FlagTells, DownTells, BegunWhenDown, Raising, Toggled, Woken, SetPcs, ResetPcs, ShotPcs
<1>9. QED
  BY <1>1, <1>2, <1>3, <1>4, <1>5, <1>6, <1>7, <1>8 DEF Next, Step

(* What down tells.                                                        *)
LEMMA EvNextDownTells ==
  ASSUME EvInv, [Next]_vars, NEW u \in Threads, Steers(u)
  PROVE  DownTells(u)'
<1>0. SteeredInv(u) /\ case.manual /\ BegunWhenDown /\ pc \in [Threads -> Pcs] /\ case \in Cases /\ mWait \in BOOLEAN /\ down \in BOOLEAN /\ iFlags \subseteq {Signaled, OneShot} /\ reg \in [Threads -> SUBSET {Signaled, OneShot}] /\ Signaled # OneShot
  BY StlEventAssumption DEF EvInv, EvTypes, TypeOK, Signaled, OneShot, Steered, Steers, SteeredInv
<1>1. CASE Tick
  BY <1>0, <1>1 DEF Tick, event, hist, SteeredInv, OneHolds, Holder, IsDown, NoShots, FlagTells, DownTells, BegunWhenDown, Raising, Toggled, Woken, SetPcs, ResetPcs, ShotPcs
<1>2. ASSUME NEW t \in Threads, Call(t) PROVE DownTells(u)'
  <2>1. case.calls[t] \subseteq {"set", "reset", "wait", "waitto", "shot"}
    BY <1>0, StlEventAssumption
  <2>2. /\ \A v \in Threads : pc[v] \notin ShotPcs /\ (pc[v] \in SetPcs \cup ResetPcs => v = u)
        /\ ~case.again /\ (case.calls[t] \cap {"set", "reset"} # {} => t = u) /\ "shot" \notin case.calls[t]
    BY SteeredCalls
  <2>3. CASE down'
    <3>1. down /\ begunDown' \subseteq begunDown \cup {t} /\ pc[t] = "idle"
      BY <1>0, <1>2, <2>3 DEF Call, Begin, BeginTo, At, Goto, event, hist
    <3>2. \A v \in Threads : v # t => pc'[v] = pc[v]
      BY <1>0, <1>2 DEF Call, Begin, BeginTo, At, Goto, event, hist
    <3>3. pc'[t] \in {"reset", "wait", "waitto"}
      BY <1>0, <1>2, <2>1, <2>2, <2>3 DEF Call, Begin, BeginTo, At, Goto, event, hist
    <3>4. UNCHANGED iFlags
      BY <1>2 DEF Call, Begin, BeginTo, At, Goto, event, hist
    <3>5. begunDown \subseteq Threads
      BY DEF EvInv, EvTypes, TypeOK
    <3>6. QED
      BY <1>0, <3>1, <3>2, <3>3, <3>4, <3>5 DEF SteeredInv, DownTells, SetPcs, Woken
  <2>4. CASE ~down'
    BY <2>4 DEF DownTells
  <2>5. QED
    BY <2>3, <2>4
<1>3. ASSUME NEW t \in Threads, stlEventSet(t) PROVE DownTells(u)'
  <2>1. case.calls[t] \subseteq {"set", "reset", "wait", "waitto", "shot"}
    BY <1>0, StlEventAssumption
  <2>2. /\ \A v \in Threads : pc[v] \notin ShotPcs /\ (pc[v] \in SetPcs \cup ResetPcs => v = u)
        /\ ~case.again /\ (case.calls[t] \cap {"set", "reset"} # {} => t = u) /\ "shot" \notin case.calls[t]
    BY SteeredCalls
  <2>3. QED
    BY <1>0, <1>3, <2>1, <2>2 DEF stlEventSet, LockMux, Skip, Load, Store, SetRelease, UnlockMux, At, Goto, event, hist, SteeredInv, OneHolds, Holder, IsDown, NoShots, FlagTells, DownTells, BegunWhenDown, Raising, Toggled, Woken, SetPcs, ResetPcs, ShotPcs
<1>4. ASSUME NEW t \in Threads, stlEventReset(t) PROVE DownTells(u)'
  <2>1. case.calls[t] \subseteq {"set", "reset", "wait", "waitto", "shot"}
    BY <1>0, StlEventAssumption
  <2>2. /\ \A v \in Threads : pc[v] \notin ShotPcs /\ (pc[v] \in SetPcs \cup ResetPcs => v = u)
        /\ ~case.again /\ (case.calls[t] \cap {"set", "reset"} # {} => t = u) /\ "shot" \notin case.calls[t]
    BY SteeredCalls
  <2>3. t = u
    BY <1>0, <1>4, <2>2 DEF stlEventReset, LockMux, Skip, Load, Store, ResetHold, Lower, UnlockMux, At, Goto, event, hist, ResetPcs
  <2>4. CASE pc[t] = "reset5"
    <3>1. UnlockMux(t, "reset5")
      BY <1>4, <2>4 DEF stlEventReset, LockMux, Skip, Load, Store, ResetHold, Lower, UnlockMux, At, Goto, event, hist
    <3>2. pc' = [pc EXCEPT ![t] = "idle"] /\ begunDown' = begunDown \ {t} /\ UNCHANGED iFlags
      BY <3>1 DEF UnlockMux, Goto
    <3>3. Signaled \notin iFlags
      BY <1>0, <2>3, <2>4 DEF SteeredInv, FlagTells
    <3>4. \A v \in begunDown : v \in Threads /\ pc[v] \notin Woken
      BY <1>0 DEF SteeredInv, DownTells, BegunWhenDown, EvInv, EvTypes, TypeOK
    <3>5. QED
      BY <1>0, <2>3, <3>2, <3>3, <3>4 DEF DownTells, SetPcs, Woken
  <2>5. CASE pc[t] # "reset5"
    <3>1. UNCHANGED <<down, begunDown>>
      BY <1>4, <2>5 DEF stlEventReset, LockMux, Skip, Load, Store, ResetHold, Lower, UnlockMux, At, Goto, event, hist
    <3>2. begunDown \subseteq Threads
      BY DEF EvInv, EvTypes, TypeOK
    <3> USE <3>1, <3>2
    <3>3. CASE pc[t] \in {"reset", "reset1"}
      BY <1>0, <1>4, <2>3, <3>3 DEF SteeredInv, FlagTells, DownTells, Woken, SetPcs, stlEventReset, LockMux, Skip, Load, Store, ResetHold, Lower, UnlockMux, At, Goto, event, hist
    <3>4. CASE pc[t] \in {"reset2", "reset3", "reset4"}
      <4>1. ~down
        BY <1>0, <2>3, <3>4 DEF SteeredInv, DownTells
      <4>2. QED
        BY <4>1 DEF DownTells
    <3>5. QED
      BY <1>4, <2>5, <3>3, <3>4 DEF stlEventReset, LockMux, Skip, Load, Store, ResetHold, Lower, UnlockMux, At, Goto, event, hist
  <2>6. QED
    BY <2>4, <2>5
<1>5. ASSUME NEW t \in Threads, stlEventWait(t) PROVE DownTells(u)'
  <2>1. case.calls[t] \subseteq {"set", "reset", "wait", "waitto", "shot"}
    BY <1>0, StlEventAssumption
  <2>2. /\ \A v \in Threads : pc[v] \notin ShotPcs /\ (pc[v] \in SetPcs \cup ResetPcs => v = u)
        /\ ~case.again /\ (case.calls[t] \cap {"set", "reset"} # {} => t = u) /\ "shot" \notin case.calls[t]
    BY SteeredCalls
  <2>3. QED
    BY <1>0, <1>5, <2>1, <2>2 DEF stlEventWait, Pass, Skip, PassOn, AfterPass, PassesOn, InShot, LockMux, UnlockMux, Finish, At, Goto, event, hist, SteeredInv, OneHolds, Holder, IsDown, NoShots, FlagTells, DownTells, BegunWhenDown, Raising, Toggled, Woken, SetPcs, ResetPcs, ShotPcs
<1>6. ASSUME NEW t \in Threads, stlEventWaitTo(t) PROVE DownTells(u)'
  <2>1. case.calls[t] \subseteq {"set", "reset", "wait", "waitto", "shot"}
    BY <1>0, StlEventAssumption
  <2>2. /\ \A v \in Threads : pc[v] \notin ShotPcs /\ (pc[v] \in SetPcs \cup ResetPcs => v = u)
        /\ ~case.again /\ (case.calls[t] \cap {"set", "reset"} # {} => t = u) /\ "shot" \notin case.calls[t]
    BY SteeredCalls
  <2>3. UNCHANGED <<down, iFlags>> /\ begunDown' \subseteq begunDown /\ begunDown \subseteq Threads
    BY <1>6 DEF stlEventWaitTo, Pass, PassesOn, Timeout, At, Goto, event, hist, EvInv, EvTypes, TypeOK
  <2>4. CASE Pass(t, "waitto", "release") \/ Pass(t, "waitto", "taken")
    <3>1. ~down
      BY <1>0, <2>4 DEF Pass, SteeredInv, DownTells, FlagTells, IsDown
    <3>2. QED
      BY <2>3, <3>1 DEF DownTells
  <2>5. CASE Timeout(t)
    <3>1. pc' = [pc EXCEPT ![t] = "idle"]
      BY <2>5 DEF Timeout, Goto
    <3>2. QED
      BY <1>0, <2>3, <3>1 DEF SteeredInv, DownTells, Woken, SetPcs
  <2>6. QED
    BY <1>6, <2>4, <2>5 DEF stlEventWaitTo
<1>7. ASSUME NEW t \in Threads, stlEvent1Shot(t) PROVE DownTells(u)'
  <2>1. case.calls[t] \subseteq {"set", "reset", "wait", "waitto", "shot"}
    BY <1>0, StlEventAssumption
  <2>2. /\ \A v \in Threads : pc[v] \notin ShotPcs /\ (pc[v] \in SetPcs \cup ResetPcs => v = u)
        /\ ~case.again /\ (case.calls[t] \cap {"set", "reset"} # {} => t = u) /\ "shot" \notin case.calls[t]
    BY SteeredCalls
  <2>3. QED
    BY <1>0, <1>7, <2>1, <2>2 DEF stlEvent1Shot, Load, Store, LockMux, ShotRelease, Lower, UnlockMux, At, Goto, event, hist, SteeredInv, OneHolds, Holder, IsDown, NoShots, FlagTells, DownTells, BegunWhenDown, Raising, Toggled, Woken, SetPcs, ResetPcs, ShotPcs
<1>8. CASE UNCHANGED vars
  BY <1>0, <1>8 DEF vars, event, hist, SteeredInv, OneHolds, Holder, IsDown, NoShots, FlagTells, DownTells, BegunWhenDown, Raising, Toggled, Woken, SetPcs, ResetPcs, ShotPcs
<1>9. QED
  BY <1>1, <1>2, <1>3, <1>4, <1>5, <1>6, <1>7, <1>8 DEF Next, Step

(* The time to give up is a time.                                          *)
LEMMA DeadlineIsTime ==
  ASSUME NEW now \in Nat, NEW iTimeOut \in Nat
  PROVE  Deadline(now, iTimeOut) \in [sec : Nat, ticks : 0 .. SecTicks]
<1>1. SecTicks \in Nat \ {0}
  BY StlEventAssumption
<1>2. /\ now \div SecTicks \in Nat /\ now % SecTicks \in 0 .. SecTicks - 1
      /\ iTimeOut \div SecTicks \in Nat /\ iTimeOut % SecTicks \in 0 .. SecTicks - 1
  BY <1>1
<1> DEFINE sec == (now \div SecTicks) + (iTimeOut \div SecTicks)
           ticks == (now % SecTicks) + (iTimeOut % SecTicks)
<1>3. sec \in Nat /\ ticks \in Nat /\ ticks <= 2 * SecTicks - 2
  BY <1>1, <1>2
<1>4. Deadline(now, iTimeOut) = IF ticks > SecTicks THEN [sec |-> sec + 1, ticks |-> ticks - SecTicks]
                                ELSE [sec |-> sec, ticks |-> ticks]
  BY DEF Deadline
<1> HIDE DEF sec, ticks
<1>5. CASE ticks > SecTicks
  <2>1. ticks - SecTicks \in 0 .. SecTicks /\ sec + 1 \in Nat
    BY <1>1, <1>3, <1>5
  <2>2. QED
    BY <1>4, <1>5, <2>1
<1>6. CASE ~(ticks > SecTicks)
  <2>1. ticks \in 0 .. SecTicks
    BY <1>1, <1>3, <1>6
  <2>2. QED
    BY <1>3, <1>4, <1>6, <2>1
<1>7. QED
  BY <1>5, <1>6

(* The types.                                                              *)
LEMMA EvNextTypes ==
  ASSUME EvInv, [Next]_vars
  PROVE  EvTypes'
<1>0. EvTypes
  BY StlEventAssumption DEF EvInv, EvTypes, TypeOK, Signaled, OneShot
<1>1. CASE Tick
  BY <1>0, <1>1 DEF Tick, event, hist, EvTypes, TypeOK, Pcs, SetPcs, ResetPcs, ShotPcs, WaitPcs
<1>2. ASSUME NEW t \in Threads, Call(t) PROVE EvTypes'
  <2>1. case.calls[t] \subseteq {"set", "reset", "wait", "waitto", "shot"}
    BY <1>0, StlEventAssumption DEF EvTypes
  <2>2. tmo' \in [Threads -> [sec : Nat, ticks : 0 .. SecTicks]]
    <3>1. CASE UNCHANGED tmo
      BY <1>0, <3>1 DEF EvTypes, TypeOK
    <3>2. CASE \E iTimeOut \in Timeouts : BeginTo(t, iTimeOut)
      <4>1. PICK iTimeOut \in Timeouts : tmo' = [tmo EXCEPT ![t] = Deadline(clock, iTimeOut)]
        BY <3>2 DEF BeginTo
      <4>2. iTimeOut \in Nat
        BY StlEventAssumption
      <4>3. QED
        BY <1>0, <4>1, <4>2, DeadlineIsTime DEF EvTypes, TypeOK
    <3>3. QED
      BY <1>2, <3>1, <3>2 DEF Call
  <2>3. PICK op \in case.calls[t] : Begin(t, op)
    BY <1>2 DEF Call, BeginTo
  <2>4. op \in Pcs
    BY <2>1 DEF Pcs, SetPcs, ResetPcs, ShotPcs, WaitPcs
  <2>5. pc' \in [Threads -> Pcs]
    BY <1>0, <2>3, <2>4 DEF EvTypes, Begin, Goto
  <2>6. down' \in BOOLEAN /\ begunDown' \subseteq Threads
    BY <1>0, <2>3 DEF EvTypes, TypeOK, Begin
  <2>7. QED
    BY <1>0, <2>2, <2>3, <2>5, <2>6 DEF EvTypes, TypeOK, Begin, event
<1>3. ASSUME NEW t \in Threads, stlEventSet(t) PROVE EvTypes'
  <2>1. mux' \in Threads \cup {None}
    BY <1>0, <1>3 DEF EvTypes, TypeOK, stlEventSet, LockMux, Skip, Load, Store, SetRelease, UnlockMux, At, Goto, event, hist
  <2>2. mWait' \in BOOLEAN
    BY <1>0, <1>3 DEF EvTypes, TypeOK, stlEventSet, LockMux, Skip, Load, Store, SetRelease, UnlockMux, At, Goto, event, hist
  <2>3. iFlags' \subseteq {Signaled, OneShot}
    BY <1>0, <1>3 DEF EvTypes, TypeOK, Toggled, stlEventSet, LockMux, Skip, Load, Store, SetRelease, UnlockMux, At, Goto, event, hist
  <2>4. reg' \in [Threads -> SUBSET {Signaled, OneShot}]
    BY <1>0, <1>3 DEF EvTypes, TypeOK, stlEventSet, LockMux, Skip, Load, Store, SetRelease, UnlockMux, At, Goto, event, hist
  <2>5. tmo' \in [Threads -> [sec : Nat, ticks : 0 .. SecTicks]]
    BY <1>0, <1>3 DEF EvTypes, TypeOK, stlEventSet, LockMux, Skip, Load, Store, SetRelease, UnlockMux, At, Goto, event, hist
  <2>6. raised' \in Nat /\ passed' \in Nat /\ clock' \in Nat
    BY <1>0, <1>3 DEF EvTypes, TypeOK, stlEventSet, LockMux, Skip, Load, Store, SetRelease, UnlockMux, At, Goto, event, hist
  <2>7. down' \in BOOLEAN
    BY <1>0, <1>3 DEF EvTypes, TypeOK, Raising, stlEventSet, LockMux, Skip, Load, Store, SetRelease, UnlockMux, At, Goto, event, hist
  <2>8. begunDown' \subseteq Threads
    BY <1>0, <1>3 DEF EvTypes, TypeOK, stlEventSet, LockMux, Skip, Load, Store, SetRelease, UnlockMux, At, Goto, event, hist
  <2>9. got' \in [Threads -> Nat]
    BY <1>0, <1>3 DEF EvTypes, TypeOK, stlEventSet, LockMux, Skip, Load, Store, SetRelease, UnlockMux, At, Goto, event, hist
  <2>10. pc' \in [Threads -> Pcs]
    BY <1>0, <1>3 DEF EvTypes, TypeOK, Pcs, SetPcs, ResetPcs, ShotPcs, WaitPcs, stlEventSet, LockMux, Skip, Load, Store, SetRelease, UnlockMux, At, Goto, event, hist
  <2>11. case' \in Cases
    BY <1>0, <1>3 DEF EvTypes, TypeOK, stlEventSet, LockMux, Skip, Load, Store, SetRelease, UnlockMux, At, Goto, event, hist
  <2>12. QED
    BY <2>1, <2>2, <2>3, <2>4, <2>5, <2>6, <2>7, <2>8, <2>9, <2>10, <2>11 DEF EvTypes, TypeOK
<1>4. ASSUME NEW t \in Threads, stlEventReset(t) PROVE EvTypes'
  <2>1. mux' \in Threads \cup {None}
    BY <1>0, <1>4 DEF EvTypes, TypeOK, stlEventReset, LockMux, Skip, Load, Store, ResetHold, Lower, UnlockMux, At, Goto, event, hist
  <2>2. mWait' \in BOOLEAN
    BY <1>0, <1>4 DEF EvTypes, TypeOK, stlEventReset, LockMux, Skip, Load, Store, ResetHold, Lower, UnlockMux, At, Goto, event, hist
  <2>3. iFlags' \subseteq {Signaled, OneShot}
    BY <1>0, <1>4 DEF EvTypes, TypeOK, Toggled, stlEventReset, LockMux, Skip, Load, Store, ResetHold, Lower, UnlockMux, At, Goto, event, hist
  <2>4. reg' \in [Threads -> SUBSET {Signaled, OneShot}]
    BY <1>0, <1>4 DEF EvTypes, TypeOK, stlEventReset, LockMux, Skip, Load, Store, ResetHold, Lower, UnlockMux, At, Goto, event, hist
  <2>5. tmo' \in [Threads -> [sec : Nat, ticks : 0 .. SecTicks]]
    BY <1>0, <1>4 DEF EvTypes, TypeOK, stlEventReset, LockMux, Skip, Load, Store, ResetHold, Lower, UnlockMux, At, Goto, event, hist
  <2>6. raised' \in Nat /\ passed' \in Nat /\ clock' \in Nat
    BY <1>0, <1>4 DEF EvTypes, TypeOK, stlEventReset, LockMux, Skip, Load, Store, ResetHold, Lower, UnlockMux, At, Goto, event, hist
  <2>7. down' \in BOOLEAN
    BY <1>0, <1>4 DEF EvTypes, TypeOK, Raising, stlEventReset, LockMux, Skip, Load, Store, ResetHold, Lower, UnlockMux, At, Goto, event, hist
  <2>8. begunDown' \subseteq Threads
    BY <1>0, <1>4 DEF EvTypes, TypeOK, stlEventReset, LockMux, Skip, Load, Store, ResetHold, Lower, UnlockMux, At, Goto, event, hist
  <2>9. got' \in [Threads -> Nat]
    BY <1>0, <1>4 DEF EvTypes, TypeOK, stlEventReset, LockMux, Skip, Load, Store, ResetHold, Lower, UnlockMux, At, Goto, event, hist
  <2>10. pc' \in [Threads -> Pcs]
    BY <1>0, <1>4 DEF EvTypes, TypeOK, Pcs, SetPcs, ResetPcs, ShotPcs, WaitPcs, stlEventReset, LockMux, Skip, Load, Store, ResetHold, Lower, UnlockMux, At, Goto, event, hist
  <2>11. case' \in Cases
    BY <1>0, <1>4 DEF EvTypes, TypeOK, stlEventReset, LockMux, Skip, Load, Store, ResetHold, Lower, UnlockMux, At, Goto, event, hist
  <2>12. QED
    BY <2>1, <2>2, <2>3, <2>4, <2>5, <2>6, <2>7, <2>8, <2>9, <2>10, <2>11 DEF EvTypes, TypeOK
<1>5. ASSUME NEW t \in Threads, stlEventWait(t) PROVE EvTypes'
  <2>1. mux' \in Threads \cup {None}
    BY <1>0, <1>5 DEF EvTypes, TypeOK, stlEventWait, Pass, Skip, PassOn, AfterPass, PassesOn, InShot, LockMux, UnlockMux, Finish, At, Goto, event, hist
  <2>2. mWait' \in BOOLEAN
    BY <1>0, <1>5 DEF EvTypes, TypeOK, stlEventWait, Pass, Skip, PassOn, AfterPass, PassesOn, InShot, LockMux, UnlockMux, Finish, At, Goto, event, hist
  <2>3. iFlags' \subseteq {Signaled, OneShot}
    BY <1>0, <1>5 DEF EvTypes, TypeOK, Toggled, stlEventWait, Pass, Skip, PassOn, AfterPass, PassesOn, InShot, LockMux, UnlockMux, Finish, At, Goto, event, hist
  <2>4. reg' \in [Threads -> SUBSET {Signaled, OneShot}]
    BY <1>0, <1>5 DEF EvTypes, TypeOK, stlEventWait, Pass, Skip, PassOn, AfterPass, PassesOn, InShot, LockMux, UnlockMux, Finish, At, Goto, event, hist
  <2>5. tmo' \in [Threads -> [sec : Nat, ticks : 0 .. SecTicks]]
    BY <1>0, <1>5 DEF EvTypes, TypeOK, stlEventWait, Pass, Skip, PassOn, AfterPass, PassesOn, InShot, LockMux, UnlockMux, Finish, At, Goto, event, hist
  <2>6. raised' \in Nat /\ passed' \in Nat /\ clock' \in Nat
    BY <1>0, <1>5 DEF EvTypes, TypeOK, stlEventWait, Pass, Skip, PassOn, AfterPass, PassesOn, InShot, LockMux, UnlockMux, Finish, At, Goto, event, hist
  <2>7. down' \in BOOLEAN
    BY <1>0, <1>5 DEF EvTypes, TypeOK, Raising, stlEventWait, Pass, Skip, PassOn, AfterPass, PassesOn, InShot, LockMux, UnlockMux, Finish, At, Goto, event, hist
  <2>8. begunDown' \subseteq Threads
    BY <1>0, <1>5 DEF EvTypes, TypeOK, stlEventWait, Pass, Skip, PassOn, AfterPass, PassesOn, InShot, LockMux, UnlockMux, Finish, At, Goto, event, hist
  <2>9. got' \in [Threads -> Nat]
    BY <1>0, <1>5 DEF EvTypes, TypeOK, stlEventWait, Pass, Skip, PassOn, AfterPass, PassesOn, InShot, LockMux, UnlockMux, Finish, At, Goto, event, hist
  <2>10. pc' \in [Threads -> Pcs]
    BY <1>0, <1>5 DEF EvTypes, TypeOK, Pcs, SetPcs, ResetPcs, ShotPcs, WaitPcs, stlEventWait, Pass, Skip, PassOn, AfterPass, PassesOn, InShot, LockMux, UnlockMux, Finish, At, Goto, event, hist
  <2>11. case' \in Cases
    BY <1>0, <1>5 DEF EvTypes, TypeOK, stlEventWait, Pass, Skip, PassOn, AfterPass, PassesOn, InShot, LockMux, UnlockMux, Finish, At, Goto, event, hist
  <2>12. QED
    BY <2>1, <2>2, <2>3, <2>4, <2>5, <2>6, <2>7, <2>8, <2>9, <2>10, <2>11 DEF EvTypes, TypeOK
<1>6. ASSUME NEW t \in Threads, stlEventWaitTo(t) PROVE EvTypes'
  <2>1. mux' \in Threads \cup {None}
    BY <1>0, <1>6 DEF EvTypes, TypeOK, stlEventWaitTo, Pass, PassesOn, Timeout, At, Goto, event, hist
  <2>2. mWait' \in BOOLEAN
    BY <1>0, <1>6 DEF EvTypes, TypeOK, stlEventWaitTo, Pass, PassesOn, Timeout, At, Goto, event, hist
  <2>3. iFlags' \subseteq {Signaled, OneShot}
    BY <1>0, <1>6 DEF EvTypes, TypeOK, Toggled, stlEventWaitTo, Pass, PassesOn, Timeout, At, Goto, event, hist
  <2>4. reg' \in [Threads -> SUBSET {Signaled, OneShot}]
    BY <1>0, <1>6 DEF EvTypes, TypeOK, stlEventWaitTo, Pass, PassesOn, Timeout, At, Goto, event, hist
  <2>5. tmo' \in [Threads -> [sec : Nat, ticks : 0 .. SecTicks]]
    BY <1>0, <1>6 DEF EvTypes, TypeOK, stlEventWaitTo, Pass, PassesOn, Timeout, At, Goto, event, hist
  <2>6. raised' \in Nat /\ passed' \in Nat /\ clock' \in Nat
    BY <1>0, <1>6 DEF EvTypes, TypeOK, stlEventWaitTo, Pass, PassesOn, Timeout, At, Goto, event, hist
  <2>7. down' \in BOOLEAN
    BY <1>0, <1>6 DEF EvTypes, TypeOK, Raising, stlEventWaitTo, Pass, PassesOn, Timeout, At, Goto, event, hist
  <2>8. begunDown' \subseteq Threads
    BY <1>0, <1>6 DEF EvTypes, TypeOK, stlEventWaitTo, Pass, PassesOn, Timeout, At, Goto, event, hist
  <2>9. got' \in [Threads -> Nat]
    BY <1>0, <1>6 DEF EvTypes, TypeOK, stlEventWaitTo, Pass, PassesOn, Timeout, At, Goto, event, hist
  <2>10. pc' \in [Threads -> Pcs]
    BY <1>0, <1>6 DEF EvTypes, TypeOK, Pcs, SetPcs, ResetPcs, ShotPcs, WaitPcs, stlEventWaitTo, Pass, PassesOn, Timeout, At, Goto, event, hist
  <2>11. case' \in Cases
    BY <1>0, <1>6 DEF EvTypes, TypeOK, stlEventWaitTo, Pass, PassesOn, Timeout, At, Goto, event, hist
  <2>12. QED
    BY <2>1, <2>2, <2>3, <2>4, <2>5, <2>6, <2>7, <2>8, <2>9, <2>10, <2>11 DEF EvTypes, TypeOK
<1>7. ASSUME NEW t \in Threads, stlEvent1Shot(t) PROVE EvTypes'
  <2>1. mux' \in Threads \cup {None}
    BY <1>0, <1>7 DEF EvTypes, TypeOK, stlEvent1Shot, Load, Store, LockMux, ShotRelease, Lower, UnlockMux, At, Goto, event, hist
  <2>2. mWait' \in BOOLEAN
    BY <1>0, <1>7 DEF EvTypes, TypeOK, stlEvent1Shot, Load, Store, LockMux, ShotRelease, Lower, UnlockMux, At, Goto, event, hist
  <2>3. iFlags' \subseteq {Signaled, OneShot}
    BY <1>0, <1>7 DEF EvTypes, TypeOK, Toggled, stlEvent1Shot, Load, Store, LockMux, ShotRelease, Lower, UnlockMux, At, Goto, event, hist
  <2>4. reg' \in [Threads -> SUBSET {Signaled, OneShot}]
    BY <1>0, <1>7 DEF EvTypes, TypeOK, stlEvent1Shot, Load, Store, LockMux, ShotRelease, Lower, UnlockMux, At, Goto, event, hist
  <2>5. tmo' \in [Threads -> [sec : Nat, ticks : 0 .. SecTicks]]
    BY <1>0, <1>7 DEF EvTypes, TypeOK, stlEvent1Shot, Load, Store, LockMux, ShotRelease, Lower, UnlockMux, At, Goto, event, hist
  <2>6. raised' \in Nat /\ passed' \in Nat /\ clock' \in Nat
    BY <1>0, <1>7 DEF EvTypes, TypeOK, stlEvent1Shot, Load, Store, LockMux, ShotRelease, Lower, UnlockMux, At, Goto, event, hist
  <2>7. down' \in BOOLEAN
    BY <1>0, <1>7 DEF EvTypes, TypeOK, Raising, stlEvent1Shot, Load, Store, LockMux, ShotRelease, Lower, UnlockMux, At, Goto, event, hist
  <2>8. begunDown' \subseteq Threads
    BY <1>0, <1>7 DEF EvTypes, TypeOK, stlEvent1Shot, Load, Store, LockMux, ShotRelease, Lower, UnlockMux, At, Goto, event, hist
  <2>9. got' \in [Threads -> Nat]
    BY <1>0, <1>7 DEF EvTypes, TypeOK, stlEvent1Shot, Load, Store, LockMux, ShotRelease, Lower, UnlockMux, At, Goto, event, hist
  <2>10. pc' \in [Threads -> Pcs]
    BY <1>0, <1>7 DEF EvTypes, TypeOK, Pcs, SetPcs, ResetPcs, ShotPcs, WaitPcs, stlEvent1Shot, Load, Store, LockMux, ShotRelease, Lower, UnlockMux, At, Goto, event, hist
  <2>11. case' \in Cases
    BY <1>0, <1>7 DEF EvTypes, TypeOK, stlEvent1Shot, Load, Store, LockMux, ShotRelease, Lower, UnlockMux, At, Goto, event, hist
  <2>12. QED
    BY <2>1, <2>2, <2>3, <2>4, <2>5, <2>6, <2>7, <2>8, <2>9, <2>10, <2>11 DEF EvTypes, TypeOK
<1>8. CASE UNCHANGED vars
  BY <1>0, <1>8 DEF vars, event, hist, EvTypes, TypeOK, Pcs, SetPcs, ResetPcs, ShotPcs, WaitPcs
<1>9. QED
  BY <1>1, <1>2, <1>3, <1>4, <1>5, <1>6, <1>7, <1>8 DEF Next, Step

(* The invariant holds in every state of the specification.                *)
LEMMA EvInvHolds ==
  ASSUME UsualUse
  PROVE  Spec => []EvInv
<1>1. Init => EvInv
  <2> SUFFICES ASSUME Init PROVE EvInv
    OBVIOUS
  <2>1. case \in Cases /\ case.initial \in BOOLEAN
    BY StlEventAssumption DEF Init
  <2>2. \A t \in Threads : pc[t] = "idle" /\ reg[t] = {} /\ got[t] = 0
    BY DEF Init
  <2>3. TypeOK
    <3>1. SecTicks \in Nat
      BY StlEventAssumption
    <3>2. [sec |-> 0, ticks |-> 0] \in [sec : Nat, ticks : 0 .. SecTicks]
      BY <3>1
    <3>3. QED
      BY <2>1, <3>2 DEF Init, TypeOK
  <2>4. EvTypes
    BY <2>1, <2>3 DEF Init, EvTypes, Pcs
  <2>5. CallsFit /\ MuxIsHeld /\ NeverRaised /\ BegunWhenDown
    BY <2>1, <2>2 DEF Init, CallsFit, FitsCalls, MuxIsHeld, InMux, NeverRaised, BegunWhenDown, Woken,
                      SetPcs, ResetPcs, ShotPcs, WaitPcs
  <2>6. AutoCounts
    <3>1. CASE case.initial
      BY <2>2, <3>1 DEF Init, AutoCounts
    <3>2. CASE ~case.initial
      <4>1. mWait /\ raised = 0 /\ passed = 0
        BY <3>2 DEF Init
      <4>2. QED
        BY <2>2, <4>1 DEF AutoCounts
    <3>3. QED
      BY <3>1, <3>2
  <2>7. Signaled # OneShot
    BY DEF Signaled, OneShot
  <2>8. Steered
    BY <2>1, <2>2, <2>7 DEF Init, Steered, OneHolds, NoShots, FlagTells, DownTells, Holder, IsDown, SetPcs, Woken
  <2>9. ShotOnce /\ NoneGot
    BY <2>2 DEF ShotOnce, PassedStay, NoneGot
  <2>10. QED
    BY <2>4, <2>5, <2>6, <2>8, <2>9 DEF EvInv
<1>2. EvInv /\ [Next]_vars => EvInv'
  <2> SUFFICES ASSUME EvInv, [Next]_vars PROVE EvInv'
    OBVIOUS
  <2>1. EvTypes' /\ CallsFit' /\ MuxIsHeld' /\ AutoCounts' /\ NeverRaised' /\ BegunWhenDown'
    BY EvNextTypes, EvNextFits, EvNextMux, EvNextAuto, EvNextNever, EvNextBegun
  <2>2. ShotOnce' /\ NoneGot'
    BY EvNextShot, EvNextNone
  <2>3. UNCHANGED case
    BY DEF Next, Tick, Step, vars, Call, Begin, BeginTo, stlEventSet, stlEventReset, stlEventWait, stlEventWaitTo,
           stlEvent1Shot, LockMux, UnlockMux, Load, Store, Skip, Lower, SetRelease, ResetHold, Pass, PassOn,
           Finish, Timeout, ShotRelease
  <2>4. ASSUME NEW u \in Threads, Steers(u) PROVE OneHolds(u)' /\ NoShots(u)' /\ FlagTells(u)' /\ DownTells(u)'
    BY <2>4, EvNextOneHolds, EvNextNoShots, EvNextFlagTells, EvNextDownTells
  <2>5. Steered'
    BY <2>3, <2>4 DEF Steered, Steers, SteeredBy
  <2>6. QED
    BY <2>1, <2>2, <2>5 DEF EvInv
<1>3. QED
  BY <1>1, <1>2, PTL DEF Spec

(* Used as stl_thread.h says, by any number of threads: a wait that begins *)
(* after a reset does not pass before the event is raised, an auto reset   *)
(* event lets one pass for each raise, and nobody passes twice in a shot.  *)
THEOREM EventsWakeRight ==
  ASSUME UsualUse
  PROVE  Spec => []EventKept
<1>1. EvInv => EventKept
  <2> SUFFICES ASSUME EvInv PROVE EventKept
    OBVIOUS
  <2>1. TypeOK /\ case \in Cases /\ got \in [Threads -> Nat]
    BY DEF EvInv, EvTypes, TypeOK
  <2>2. UsualCase(case)
    BY <2>1 DEF UsualUse
  <2>3. AutoWakesOne
    <3>1. raised \in Nat /\ passed \in Nat
      BY <2>1 DEF TypeOK
    <3>2. QED
      BY <3>1 DEF EvInv, AutoCounts, AutoWakesOne
  <2>4. CASE Resetless(case)
    <3>1. NoWakeAfterReset
      <4>1. begunDown \subseteq Threads
        BY <2>1 DEF TypeOK
      <4>2. QED
        BY <2>4, <4>1 DEF EvInv, NeverRaised, NoWakeAfterReset
    <3>2. OncePerShot
      <4>1. CASE \A t \in Threads : case.calls[t] \subseteq {"set", "wait", "waitto"}
        <5>1. \A t \in Threads : "shot" \notin case.calls[t]
          BY <4>1
        <5>2. QED
          BY <5>1 DEF EvInv, NoneGot, OncePerShot
      <4>2. CASE \E u \in Threads : ShotBy(case, u)
        BY <4>2 DEF EvInv, ShotOnce, PassedStay, OncePerShot
      <4>3. QED
        BY <2>4, <4>1, <4>2 DEF Resetless
    <3>3. QED
      BY <2>1, <2>3, <3>1, <3>2 DEF EventKept
  <2>5. CASE case.manual /\ \E u \in Threads : SteeredBy(case, u)
    <3>1. PICK u \in Threads : SteeredBy(case, u)
      BY <2>5
    <3>2. NoWakeAfterReset
      BY <2>5, <3>1 DEF EvInv, Steered, DownTells, NoWakeAfterReset
    <3>3. \A t \in Threads : "shot" \notin case.calls[t]
      BY <3>1 DEF SteeredBy
    <3>4. OncePerShot
      BY <3>3 DEF EvInv, NoneGot, OncePerShot
    <3>5. QED
      BY <2>1, <2>3, <3>2, <3>4 DEF EventKept
  <2>6. QED
    BY <2>2, <2>4, <2>5 DEF UsualCase
<1>2. QED
  BY <1>1, EvInvHolds, PTL
=============================================================================
