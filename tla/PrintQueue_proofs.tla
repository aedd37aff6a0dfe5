-------------------------- MODULE PrintQueue_proofs -------------------------
(***************************************************************************)
(* Proofs about PrintQueue, for every ring size N, every Slack, every set  *)
(* of callers and any number of messages.                                  *)
(***************************************************************************)
EXTENDS PrintQueue, SequenceTheorems, FiniteSetTheorems, TLAPS

(* Before the print thread has set the flag nobody uses the ring, and the  *)
(* service is started only once: this is what makes the memset of the ring *)
(* in stlPrintfThread harmless.                                            *)
StartInv ==
  /\ thread \in {"none", "starting"} =>
       /\ ~stlPrintfBackgroundActive
       /\ \A c \in Clients : pc[c] \in {"idle", "direct"}
       /\ warnHead = warnTail
  /\ main = "run" /\ stlPrintThreadFlg = 0 => thread = "none"
  /\ stlPrintThreadFlg = 2 => main # "run"

(* A caller that is printing has a message.                                *)
SentInv == \A c \in Clients : pc[c] # "idle" => sent[c] > 0

(* The thread fetches and advances only while there is something.          *)
FetchInv == thread \in {"fetch", "advance"} => warnHead # warnTail

(* It has a message in hand from its fetch to its write.                   *)
HandInv == WI # NoMsg <=> thread \in {"advance", "process"}

IInv == TypeOK /\ StartInv /\ SentInv /\ FetchInv /\ SlotsMatchIndexes /\ SlackKept /\ HandInv

-----------------------------------------------------------------------------
(* The successor of a slot, going round.                                   *)
LEMMA SuccValue ==
  ASSUME NEW i \in Slots
  PROVE  Succ(i) = (IF i = N - 1 THEN 0 ELSE i + 1) /\ Succ(i) \in Slots
BY RingAssumption DEF Slots, Succ

LEMMA UsedRange ==
  ASSUME TypeOK
  PROVE  iUsed \in 0 .. N - 1 /\ (iUsed = 0 <=> warnHead = warnTail)
BY RingAssumption DEF TypeOK, Slots, iUsed

LEMMA InitIInv == Init => IInv
<1> SUFFICES ASSUME Init PROVE IInv
  OBVIOUS
<1> USE RingAssumption, ClientAssumption, BoundAssumption
<1>0. 0 \in Slots
  BY DEF Slots
<1>1. TypeOK
  <2>1. warnDb \in [Slots -> Messages \cup {NoMsg}] /\ warnHead \in Slots /\ warnTail \in Slots
    BY <1>0 DEF Init
  <2>2. sent \in [Clients -> 0 .. MaxMsgs] /\ polls \in 0 .. MaxPolls
    BY DEF Init
  <2>3. log \in Seq(Messages) /\ dropped \subseteq Messages
    BY DEF Init
  <2>4. printfDroppedMsgs \in Nat /\ stlPrintThreadFlg \in 0 .. 2
    BY DEF Init
  <2>5. stlPrintfBackgroundActive \in BOOLEAN
    BY DEF Init
  <2>6. /\ warnMux \in Clients \cup {NoThread} /\ WI \in Messages \cup {NoMsg}
        /\ pc \in [Clients -> {"idle", "direct", "queue", "locked", "stored"}]
        /\ thread = "none" /\ main = "run"
    BY DEF Init
  <2>7. QED
    BY <2>1, <2>2, <2>3, <2>4, <2>5, <2>6 DEF TypeOK
<1>2. StartInv /\ SentInv /\ FetchInv /\ HandInv
  BY DEF Init, StartInv, SentInv, FetchInv, HandInv
<1>3. SlotsMatchIndexes /\ SlackKept
  BY DEF Init, SlotsMatchIndexes, SlackKept, Slots, Offset, iUsed
<1>4. QED
  BY <1>1, <1>2, <1>3 DEF IInv

(* Every step keeps the types.                                             *)
LEMMA NextTypeOK ==
  ASSUME TypeOK, SentInv, [Next]_vars
  PROVE  TypeOK'
<1> USE RingAssumption, ClientAssumption, BoundAssumption
        DEF TypeOK, ring, drops, flags, clients, printer, exiting
<1>1. ASSUME NEW c \in Clients, ClientStep(c) PROVE TypeOK'
  <2> Msg(c) \in Messages \/ pc[c] = "idle"
    BY DEF SentInv, Msg, Messages
  <2>1. CASE Printf(c)
    BY <2>1 DEF Printf, Route
  <2>2. CASE ProcessDirect(c)
    BY <2>2 DEF ProcessDirect
  <2>3. CASE QueueLock(c)
    BY <2>3 DEF QueueLock
  <2>4. CASE QueueStore(c)
    <3>1. warnHead' \in Slots
      BY <2>4, SuccValue DEF QueueStore
    <3>2. warnDb' \in [Slots -> Messages \cup {NoMsg}]
      BY <2>4 DEF QueueStore
    <3>3. printfDroppedMsgs' \in Nat /\ dropped' \subseteq Messages
      BY <2>4 DEF QueueStore
    <3>4. QED
      BY <2>4, <3>1, <3>2, <3>3 DEF QueueStore
  <2>5. CASE QueueUnlock(c)
    BY <2>5 DEF QueueUnlock
  <2>6. QED
    BY <1>1, <2>1, <2>2, <2>3, <2>4, <2>5 DEF ClientStep
<1>2. ASSUME ThreadStep PROVE TypeOK'
  <2>1. CASE ThreadEnter
    BY <2>1 DEF ThreadEnter
  <2>2. CASE ThreadTest
    BY <2>2 DEF ThreadTest
  <2>3. CASE ThreadEmpty
    BY <2>3 DEF ThreadEmpty
  <2>4. CASE ThreadFetch
    BY <2>4 DEF ThreadFetch
  <2>5. CASE ThreadAdvance
    BY <2>5, SuccValue DEF ThreadAdvance
  <2>6. CASE ThreadProcess
    BY <2>6 DEF ThreadProcess
  <2>7. QED
    BY <1>2, <2>1, <2>2, <2>3, <2>4, <2>5, <2>6 DEF ThreadStep
<1>3. CASE stlPrintfThread
  BY <1>3 DEF stlPrintfThread
<1>4. ASSUME AbortStep PROVE TypeOK'
  <2>1. CASE AbortSetFlag
    BY <2>1 DEF AbortSetFlag
  <2>2. CASE AbortDeactivate
    BY <2>2 DEF AbortDeactivate
  <2>3. CASE AbortPoll
    BY <2>3 DEF AbortPoll
  <2>4. CASE AbortTimeout
    BY <2>4 DEF AbortTimeout
  <2>5. QED
    BY <1>4, <2>1, <2>2, <2>3, <2>4 DEF AbortStep
<1>5. CASE UNCHANGED vars
  BY <1>5 DEF vars
<1>6. QED
  BY <1>1, <1>2, <1>3, <1>4, <1>5 DEF Next

(* Every step keeps the control invariants.                                *)
LEMMA NextControl ==
  ASSUME IInv, [Next]_vars
  PROVE  StartInv' /\ SentInv' /\ FetchInv'
<1> USE RingAssumption, ClientAssumption
        DEF IInv, StartInv, SentInv, FetchInv, ring, drops, flags, clients, printer, exiting
<1>0. warnHead \in Slots /\ warnTail \in Slots /\ sent \in [Clients -> 0 .. MaxMsgs]
      /\ pc \in [Clients -> {"idle", "direct", "queue", "locked", "stored"}]
  BY DEF TypeOK
<1>1. ASSUME NEW c \in Clients, ClientStep(c) PROVE StartInv' /\ SentInv' /\ FetchInv'
  <2>1. CASE Printf(c)
    BY <1>0, <2>1 DEF Printf, Route
  <2>2. CASE ProcessDirect(c)
    BY <1>0, <2>2 DEF ProcessDirect
  <2>3. CASE QueueLock(c)
    BY <1>0, <2>3 DEF QueueLock
  <2>4. CASE QueueStore(c)
    <3>1. pc[c] = "locked" /\ thread \notin {"none", "starting"}
      BY <2>4 DEF QueueStore
    <3>2. StartInv' /\ SentInv'
      BY <1>0, <2>4, <3>1 DEF QueueStore
    <3>3. FetchInv'
      <4>1. CASE HasRoom
        <5>1. iUsed < N - 1
          BY <4>1, UsedRange DEF HasRoom, queueWarnGetFree
        <5>2. Succ(warnHead) # warnTail
          BY <1>0, <5>1, SuccValue DEF iUsed, Slots
        <5>3. QED
          BY <2>4, <4>1, <5>2 DEF QueueStore
      <4>2. CASE ~HasRoom
        BY <2>4, <4>2 DEF QueueStore
      <4>3. QED
        BY <4>1, <4>2
    <3>4. QED
      BY <3>2, <3>3
  <2>5. CASE QueueUnlock(c)
    BY <1>0, <2>5 DEF QueueUnlock
  <2>6. QED
    BY <1>1, <2>1, <2>2, <2>3, <2>4, <2>5 DEF ClientStep
<1>2. ASSUME ThreadStep PROVE StartInv' /\ SentInv' /\ FetchInv'
  <2>1. CASE ThreadEnter
    BY <2>1 DEF ThreadEnter
  <2>2. CASE ThreadTest
    BY <2>2 DEF ThreadTest, LooksEmpty
  <2>3. CASE ThreadEmpty
    BY <2>3 DEF ThreadEmpty
  <2>4. CASE ThreadFetch
    BY <2>4 DEF ThreadFetch
  <2>5. CASE ThreadAdvance
    BY <2>5 DEF ThreadAdvance
  <2>6. CASE ThreadProcess
    BY <2>6 DEF ThreadProcess
  <2>7. QED
    BY <1>2, <2>1, <2>2, <2>3, <2>4, <2>5, <2>6 DEF ThreadStep
<1>3. CASE stlPrintfThread
  BY <1>3 DEF stlPrintfThread
<1>4. CASE AbortStep
  <2>1. CASE AbortSetFlag
    BY <2>1 DEF AbortSetFlag
  <2>2. CASE AbortDeactivate
    BY <2>2 DEF AbortDeactivate
  <2>3. CASE AbortPoll
    BY <2>3 DEF AbortPoll
  <2>4. CASE AbortTimeout
    BY <2>4 DEF AbortTimeout
  <2>5. QED
    BY <1>4, <2>1, <2>2, <2>3, <2>4 DEF AbortStep
<1>5. CASE UNCHANGED vars
  BY <1>5 DEF vars
<1>6. QED
  BY <1>1, <1>2, <1>3, <1>4, <1>5 DEF Next

-----------------------------------------------------------------------------
(* The ring: three steps touch it.                                         *)

(* A message is stored at the head, which is the first free slot.          *)
LEMMA StoreKeepsRing ==
  ASSUME IInv, NEW c \in Clients, QueueStore(c)
  PROVE  SlotsMatchIndexes' /\ SlackKept'
<1> USE RingAssumption DEF IInv
<1>0. /\ warnHead \in Slots /\ warnTail \in Slots
      /\ warnDb \in [Slots -> Messages \cup {NoMsg}]
      /\ warnTail' = warnTail /\ thread' = thread
  BY DEF TypeOK, QueueStore, printer
<1>1. CASE ~HasRoom
  <2>1. UNCHANGED <<warnDb, warnHead, warnTail, thread>>
    BY <1>0, <1>1 DEF QueueStore
  <2>2. QED
    BY <2>1 DEF SlotsMatchIndexes, SlackKept, Offset, iUsed
<1>2. CASE HasRoom
  <2>1. iUsed < N - Slack /\ iUsed \in 0 .. N - 1
    BY <1>2, UsedRange DEF HasRoom, queueWarnGetFree
  <2>2. warnHead' = (IF warnHead = N - 1 THEN 0 ELSE warnHead + 1)
    BY <1>0, <1>2, SuccValue DEF QueueStore
  <2>3. iUsed' = iUsed + 1
    BY <1>0, <2>1, <2>2 DEF iUsed, Slots
  <2>4. SlackKept'
    BY <2>1, <2>3 DEF SlackKept
  <2>5. Msg(c) # NoMsg
    BY ClientAssumption DEF Msg, TypeOK
  <2>6. ASSUME NEW i \in Slots
        PROVE  Offset(i)' = Offset(i) /\ (Offset(i) < iUsed + 1 <=> Offset(i) < iUsed \/ i = warnHead)
    BY <1>0, <2>1 DEF Offset, iUsed, Slots
  <2>7. ASSUME NEW i \in Slots
        PROVE  warnDb'[i] # NoMsg <=> i = warnHead \/ warnDb[i] # NoMsg
    BY <1>0, <1>2, <2>5 DEF QueueStore
  <2>8. ~(thread = "advance" /\ warnHead = warnTail)
    BY DEF FetchInv
  <2>9. SlotsMatchIndexes'
    BY <1>0, <2>3, <2>6, <2>7, <2>8 DEF SlotsMatchIndexes
  <2>10. QED
    BY <2>4, <2>9
<1>3. QED
  BY <1>1, <1>2

(* The thread clears the tail slot: the exception in SlotsMatchIndexes.    *)
LEMMA FetchKeepsRing ==
  ASSUME IInv, ThreadFetch
  PROVE  SlotsMatchIndexes' /\ SlackKept'
<1> USE RingAssumption DEF IInv
<1>0. /\ warnHead \in Slots /\ warnTail \in Slots
      /\ warnDb \in [Slots -> Messages \cup {NoMsg}]
      /\ thread = "fetch" /\ thread' = "advance"
      /\ UNCHANGED <<warnHead, warnTail>>
      /\ warnDb' = [warnDb EXCEPT ![warnTail] = NoMsg]
  BY DEF TypeOK, ThreadFetch
<1>1. SlackKept' /\ iUsed' = iUsed /\ \A i \in Slots : Offset(i)' = Offset(i)
  BY <1>0 DEF SlackKept, iUsed, Offset
<1>2. ASSUME NEW i \in Slots
      PROVE  warnDb'[i] # NoMsg <=> warnDb[i] # NoMsg /\ i # warnTail
  BY <1>0
<1>3. QED
  BY <1>0, <1>1, <1>2 DEF SlotsMatchIndexes

(* The tail moves past the slot that was cleared.                          *)
LEMMA AdvanceKeepsRing ==
  ASSUME IInv, ThreadAdvance
  PROVE  SlotsMatchIndexes' /\ SlackKept'
<1> USE RingAssumption DEF IInv
<1>0. /\ warnHead \in Slots /\ warnTail \in Slots
      /\ warnHead # warnTail
      /\ thread = "advance" /\ thread' = "process"
      /\ UNCHANGED <<warnDb, warnHead>>
      /\ warnTail' = Succ(warnTail)
  BY DEF TypeOK, ThreadAdvance, FetchInv
<1>1. warnTail' = (IF warnTail = N - 1 THEN 0 ELSE warnTail + 1)
  BY <1>0, SuccValue
<1>2. iUsed' = iUsed - 1
  BY <1>0, <1>1 DEF iUsed, Slots
<1>3. SlackKept'
  BY <1>2, UsedRange DEF SlackKept
<1>4. ASSUME NEW i \in Slots
      PROVE  Offset(i)' < iUsed - 1 <=> Offset(i) < iUsed /\ i # warnTail
  BY <1>0, <1>1, UsedRange DEF Offset, Slots
<1>5. SlotsMatchIndexes'
  BY <1>0, <1>2, <1>4 DEF SlotsMatchIndexes
<1>6. QED
  BY <1>3, <1>5

LEMMA NextRing ==
  ASSUME IInv, [Next]_vars
  PROVE  SlotsMatchIndexes' /\ SlackKept'
<1> DEFINE Same == /\ UNCHANGED <<warnDb, warnHead, warnTail>>
                   /\ (thread # "advance" /\ thread' # "advance") \/ thread' = thread
<1> USE DEF ring, drops, flags, clients, printer, exiting
<1>1. ASSUME Same PROVE SlotsMatchIndexes' /\ SlackKept'
  BY <1>1 DEF IInv, SlotsMatchIndexes, SlackKept, Offset, iUsed
<1>2. ASSUME NEW c \in Clients, ClientStep(c) PROVE SlotsMatchIndexes' /\ SlackKept'
  <2>1. CASE QueueStore(c)
    BY <2>1, StoreKeepsRing
  <2>2. CASE Printf(c) \/ ProcessDirect(c) \/ QueueLock(c) \/ QueueUnlock(c)
    BY <1>1, <2>2 DEF Printf, ProcessDirect, QueueLock, QueueUnlock
  <2>3. QED
    BY <1>2, <2>1, <2>2 DEF ClientStep
<1>3. CASE ThreadFetch
  BY <1>3, FetchKeepsRing
<1>4. CASE ThreadAdvance
  BY <1>4, AdvanceKeepsRing
<1>5. CASE ThreadEnter \/ ThreadTest \/ ThreadEmpty \/ ThreadProcess
  BY <1>1, <1>5 DEF ThreadEnter, ThreadTest, ThreadEmpty, ThreadProcess
<1>6. CASE stlPrintfThread
  <2>1. /\ thread = "none" /\ warnHead = warnTail
        /\ thread' = "starting" /\ UNCHANGED <<warnHead, warnTail>>
        /\ warnDb' = [i \in Slots |-> NoMsg]
    BY <1>6 DEF stlPrintfThread, IInv, StartInv
  <2>2. iUsed' = 0
    BY <2>1, UsedRange DEF IInv, iUsed
  <2>3. QED
    BY <2>1, <2>2, RingAssumption DEF IInv, TypeOK, SlotsMatchIndexes, SlackKept, Offset, Slots
<1>7. CASE AbortStep
  BY <1>1, <1>7 DEF AbortStep, AbortSetFlag, AbortDeactivate, AbortPoll, AbortTimeout
<1>8. CASE UNCHANGED vars
  BY <1>1, <1>8 DEF vars
<1>9. QED
  BY <1>2, <1>3, <1>4, <1>5, <1>6, <1>7, <1>8 DEF Next, ThreadStep

(* What the thread fetches is a message: the tail slot is full.            *)
LEMMA NextHand ==
  ASSUME IInv, [Next]_vars
  PROVE  HandInv'
<1> USE DEF IInv, HandInv, ring, drops, flags, clients, printer, exiting
<1>1. ASSUME NEW c \in Clients, ClientStep(c) PROVE HandInv'
  BY <1>1 DEF ClientStep, Printf, ProcessDirect, QueueLock, QueueStore, QueueUnlock
<1>2. CASE ThreadFetch
  <2>1. warnTail \in Slots /\ Offset(warnTail) = 0
    BY DEF TypeOK, Slots, Offset
  <2>2. iUsed > 0
    BY <1>2, UsedRange DEF ThreadFetch, FetchInv
  <2>3. warnDb[warnTail] # NoMsg
    BY <1>2, <2>1, <2>2 DEF ThreadFetch, SlotsMatchIndexes
  <2>4. QED
    BY <1>2, <2>3 DEF ThreadFetch
<1>3. CASE ThreadEnter \/ ThreadTest \/ ThreadEmpty \/ ThreadAdvance \/ ThreadProcess
  BY <1>3 DEF ThreadEnter, ThreadTest, ThreadEmpty, ThreadAdvance, ThreadProcess
<1>4. CASE stlPrintfThread
  BY <1>4 DEF stlPrintfThread, StartInv
<1>5. CASE AbortStep
  BY <1>5 DEF AbortStep, AbortSetFlag, AbortDeactivate, AbortPoll, AbortTimeout
<1>6. CASE UNCHANGED vars
  BY <1>6 DEF vars
<1>7. QED
  BY <1>1, <1>2, <1>3, <1>4, <1>5, <1>6 DEF Next, ThreadStep

-----------------------------------------------------------------------------

LEMMA NextIInv == IInv /\ [Next]_vars => IInv'
<1> SUFFICES ASSUME IInv, [Next]_vars PROVE IInv'
  OBVIOUS
<1>1. TypeOK'
  BY NextTypeOK DEF IInv
<1>2. QED
  BY <1>1, NextControl, NextRing, NextHand DEF IInv

LEMMA AlwaysIInv == Spec => []IInv
BY InitIInv, NextIInv, PTL DEF Spec

-----------------------------------------------------------------------------
(* Pending as a sequence: the held message and the slots from the tail.    *)

LEMMA Around ==
  ASSUME NEW a \in Nat, a < 2 * N
  PROVE  a % N = (IF a < N THEN a ELSE a - N)
BY RingAssumption

Skip  == IF thread = "advance" THEN 1 ELSE 0
At(k) == LET a == warnTail + Skip + k - 1 IN IF a < N THEN a ELSE a - N
Ring  == [k \in 1 .. iUsed - Skip |-> warnDb[At(k)]]

(* A function on 1 .. n is a sequence of length n.                         *)
LEMMA FunIsSeq ==
  ASSUME NEW S, NEW n \in Nat, NEW f \in [1 .. n -> S]
  PROVE  f \in Seq(S) /\ Len(f) = n
OBVIOUS

(* The slots between tail and head hold messages.                          *)
RingShape ==
  /\ iUsed \in 0 .. N - 1 /\ Skip \in {0, 1} /\ iUsed - Skip \in Nat
  /\ Ring \in Seq(Messages) /\ Len(Ring) = iUsed - Skip
  /\ \A k \in 1 .. iUsed - Skip : At(k) \in Slots /\ Offset(At(k)) = Skip + k - 1
LEMMA RingSeq == IInv => RingShape
<1> SUFFICES ASSUME IInv PROVE RingShape
  OBVIOUS
<1> USE RingAssumption DEF IInv
<1>0. /\ warnHead \in Slots /\ warnTail \in Slots
      /\ warnDb \in [Slots -> Messages \cup {NoMsg}]
  BY DEF TypeOK
<1>1. iUsed \in 0 .. N - 1 /\ Skip \in {0, 1} /\ iUsed - Skip \in Nat
  BY UsedRange DEF FetchInv, Skip
<1>2. ASSUME NEW k \in 1 .. iUsed - Skip
      PROVE  At(k) \in Slots /\ Offset(At(k)) = Skip + k - 1
  BY <1>0, <1>1 DEF At, Slots, Offset, Skip
<1>3. ASSUME NEW k \in 1 .. iUsed - Skip PROVE warnDb[At(k)] \in Messages
  <2>1. Offset(At(k)) < iUsed /\ ~(thread = "advance" /\ At(k) = warnTail)
    BY <1>0, <1>1, <1>2 DEF Skip, Offset, Slots
  <2>2. QED
    BY <1>0, <1>2, <2>1 DEF SlotsMatchIndexes
<1>4. Ring \in [1 .. iUsed - Skip -> Messages]
  BY <1>3 DEF Ring
<1>5. QED
  BY <1>1, <1>2, <1>4, FunIsSeq DEF RingShape

PendingShape ==
  /\ Pending = Held \o Ring
  /\ Held \in Seq(Messages) /\ Len(Held) = (IF WI = NoMsg THEN 0 ELSE 1)
  /\ Pending \in Seq(Messages) /\ Len(Pending) = Len(Held) + iUsed - Skip
LEMMA PendingSeq == IInv => PendingShape
<1> SUFFICES ASSUME IInv PROVE PendingShape
  OBVIOUS
<1>1. Held \in Seq(Messages) /\ Len(Held) = (IF WI = NoMsg THEN 0 ELSE 1)
  BY DEF Held, IInv, TypeOK
<1>2. /\ iUsed \in 0 .. N - 1 /\ Skip \in {0, 1} /\ iUsed - Skip \in Nat
      /\ Ring \in Seq(Messages) /\ Len(Ring) = iUsed - Skip
  BY RingSeq DEF RingShape
<1>3. ASSUME NEW k \in 1 .. iUsed - Skip
      PROVE  (warnTail + Skip + k - 1) % N = At(k)
  <2>1. warnTail + Skip + k - 1 \in Nat /\ warnTail + Skip + k - 1 < 2 * N
    BY <1>2, RingAssumption DEF IInv, TypeOK, Slots
  <2>2. QED
    BY <2>1, Around DEF At
<1>4. Ring = [k \in 1 .. iUsed - Skip |-> warnDb[(warnTail + Skip + k - 1) % N]]
  BY <1>3 DEF Ring
<1>5. Pending = Held \o Ring
  BY <1>4 DEF Pending, Skip
<1>6. Pending \in Seq(Messages) /\ Len(Pending) = Len(Held) + Len(Ring)
  BY <1>1, <1>2, <1>5, ConcatProperties
<1>7. QED
  BY <1>1, <1>2, <1>5, <1>6, RingAssumption DEF PendingShape

-----------------------------------------------------------------------------
(* What each step does to Pending.                                         *)

(* What is appended to the second part is appended to the whole.           *)
LEMMA AppendToSecond ==
  ASSUME NEW S, NEW s \in Seq(S), NEW t \in Seq(S), NEW m \in S
  PROVE  s \o Append(t, m) = Append(s \o t, m)
<1>1. <<m>> \in Seq(S) /\ s \o t \in Seq(S)
  OBVIOUS
<1>2. Append(t, m) = t \o <<m>>
  BY AppendIsConcat
<1>3. Append(s \o t, m) = (s \o t) \o <<m>>
  BY <1>1, AppendIsConcat
<1>4. (s \o t) \o <<m>> = s \o (t \o <<m>>)
  BY <1>1, ConcatAssociative
<1>5. QED
  BY <1>2, <1>3, <1>4

(* Storing a message puts it last.                                         *)
LEMMA StorePending ==
  ASSUME IInv, IInv', NEW c \in Clients, QueueStore(c)
  PROVE  /\ Msg(c) \in Messages
         /\ HasRoom => Pending' = Append(Pending, Msg(c))
         /\ ~HasRoom => Pending' = Pending
<1> USE RingAssumption
<1>s. RingShape /\ RingShape' /\ PendingShape /\ PendingShape'
  BY RingSeq, PendingSeq, PTL
<1>0. /\ warnHead \in Slots /\ warnTail \in Slots
      /\ warnDb \in [Slots -> Messages \cup {NoMsg}]
      /\ UNCHANGED <<warnTail, thread, WI>>
  BY DEF IInv, TypeOK, QueueStore, printer
<1>1. Msg(c) \in Messages
  BY BoundAssumption DEF IInv, TypeOK, SentInv, QueueStore, Msg, Messages
<1>2. ASSUME ~HasRoom PROVE Pending' = Pending
  BY <1>0, <1>2 DEF QueueStore, Pending, Held, iUsed
<1>3. ASSUME HasRoom PROVE Pending' = Append(Pending, Msg(c))
  <2>1. iUsed < N - Slack /\ iUsed \in 0 .. N - 1
    BY <1>3, UsedRange DEF IInv, HasRoom, queueWarnGetFree
  <2>2. warnHead' = (IF warnHead = N - 1 THEN 0 ELSE warnHead + 1)
    BY <1>0, <1>3, SuccValue DEF QueueStore
  <2>3. iUsed' = iUsed + 1 /\ Skip' = Skip /\ Held' = Held
    BY <1>0, <2>1, <2>2 DEF iUsed, Slots, Skip, Held
  <2>4. warnDb' = [warnDb EXCEPT ![warnHead] = Msg(c)]
    BY <1>3 DEF QueueStore
  <2>5. /\ Ring \in Seq(Messages) /\ Len(Ring) = iUsed - Skip /\ iUsed - Skip \in Nat
        /\ Ring' \in Seq(Messages) /\ Len(Ring') = iUsed - Skip + 1
        /\ Skip \in {0, 1}
    BY <1>s, <2>1, <2>3 DEF RingShape
  <2>6. At(iUsed - Skip + 1) = warnHead
    BY <1>0, <2>1, <2>5 DEF At, iUsed, Slots
  <2>7. ASSUME NEW k \in 1 .. iUsed - Skip PROVE At(k) # warnHead
    BY <1>0, <2>1, <2>5 DEF At, iUsed, Slots
  <2>8. ASSUME NEW k \in 1 .. iUsed - Skip + 1
        PROVE  Ring'[k] = Append(Ring, Msg(c))[k]
    <3>1. Ring'[k] = warnDb'[At(k)] /\ At(k) \in Slots
      <4>1. At(k)' = At(k)
        BY <1>0, <2>3 DEF At
      <4>2. k \in 1 .. iUsed' - Skip'
        BY <2>1, <2>3, <2>5
      <4>3. At(k)' \in Slots
        BY <1>s, <4>2 DEF RingShape
      <4>4. QED
        BY <4>1, <4>2, <4>3 DEF Ring
    <3>2. CASE k = iUsed - Skip + 1
      <4>1. Append(Ring, Msg(c))[k] = Msg(c)
        BY <1>1, <2>5, <3>2, AppendProperties
      <4>2. QED
        BY <1>0, <2>4, <2>6, <3>1, <3>2, <4>1
    <3>3. CASE k \in 1 .. iUsed - Skip
      <4>1. Append(Ring, Msg(c))[k] = Ring[k]
        BY <1>1, <2>5, <3>3, AppendProperties
      <4>2. Ring[k] = warnDb[At(k)]
        BY <3>3 DEF Ring
      <4>3. QED
        BY <1>0, <2>4, <2>7, <3>1, <3>3, <4>1, <4>2
    <3>4. QED
      BY <2>1, <2>5, <3>2, <3>3
  <2>9. Ring' = Append(Ring, Msg(c))
    <3>1. Append(Ring, Msg(c)) \in Seq(Messages) /\ Len(Append(Ring, Msg(c))) = Len(Ring')
      BY <1>1, <2>5, AppendProperties
    <3>2. QED
      BY <2>5, <2>8, <3>1, SeqEqual
  <2>10. Pending = Held \o Ring /\ Held \in Seq(Messages) /\ Pending' = Held' \o Ring'
    BY <1>s DEF PendingShape
  <2>11. Held \o Append(Ring, Msg(c)) = Append(Held \o Ring, Msg(c))
    BY <1>1, <2>5, <2>10, AppendToSecond
  <2>12. QED
    BY <2>3, <2>9, <2>10, <2>11
<1>4. QED
  BY <1>1, <1>2, <1>3

(* The fetch takes the first message of the ring in hand.                  *)
LEMMA FetchPending ==
  ASSUME IInv, IInv', ThreadFetch
  PROVE  Pending' = Pending
<1> USE RingAssumption
<1>s. RingShape /\ RingShape' /\ PendingShape /\ PendingShape'
  BY RingSeq, PendingSeq, PTL
<1>0. /\ warnHead \in Slots /\ warnTail \in Slots
      /\ warnDb \in [Slots -> Messages \cup {NoMsg}]
      /\ thread = "fetch" /\ thread' = "advance"
      /\ UNCHANGED <<warnHead, warnTail>>
      /\ warnDb' = [warnDb EXCEPT ![warnTail] = NoMsg]
      /\ WI' = warnDb[warnTail]
      /\ WI = NoMsg /\ WI' # NoMsg
  BY DEF IInv, TypeOK, ThreadFetch, HandInv
<1>1. iUsed' = iUsed /\ Skip = 0 /\ Skip' = 1 /\ iUsed \in 1 .. N - 1
  BY <1>0, UsedRange DEF iUsed, Skip, IInv, FetchInv
<1>2. Held = <<>> /\ Held' = <<WI'>> /\ WI' \in Messages
  BY <1>0 DEF Held, IInv, TypeOK
<1>3. Pending = Ring /\ Ring \in Seq(Messages) /\ Len(Ring) = iUsed
  BY <1>s, <1>1, <1>2, ConcatEmptySeq DEF PendingShape, RingShape
<1>4. /\ Pending' = <<WI'>> \o Ring' /\ Ring' \in Seq(Messages) /\ Len(Ring') = iUsed - 1
      /\ Pending' \in Seq(Messages) /\ Len(Pending') = iUsed
  BY <1>s, <1>1, <1>2 DEF PendingShape, RingShape
<1>5. ASSUME NEW k \in 1 .. iUsed PROVE Pending'[k] = Ring[k]
  <2>0. <<WI'>> \in Seq(Messages) /\ Len(<<WI'>>) = 1 /\ <<WI'>>[1] = WI'
    BY <1>2
  <2>1. Ring[k] = warnDb[At(k)]
    BY <1>1 DEF Ring
  <2>2. CASE k = 1
    <3>1. Pending'[1] = WI'
      BY <1>1, <1>4, <2>0, ConcatProperties
    <3>2. At(1) = warnTail
      BY <1>0, <1>1 DEF At, Slots
    <3>3. QED
      BY <1>0, <2>1, <2>2, <3>1, <3>2
  <2>3. CASE k > 1
    <3>1. Pending'[k] = Ring'[k - 1] /\ k - 1 \in 1 .. iUsed' - Skip'
      BY <1>1, <1>4, <2>0, <2>3, ConcatProperties
    <3>2. Ring'[k - 1] = warnDb'[At(k - 1)']
      BY <3>1 DEF Ring
    <3>3. At(k - 1)' = At(k) /\ At(k) \in Slots /\ At(k) # warnTail
      BY <1>0, <1>1, <2>3 DEF At, Slots
    <3>4. QED
      BY <1>0, <2>1, <3>1, <3>2, <3>3
  <2>4. QED
    BY <1>1, <2>2, <2>3
<1>6. QED
  BY <1>3, <1>4, <1>5, SeqEqual

(* The tail moves past the slot that was fetched.                          *)
LEMMA AdvancePending ==
  ASSUME IInv, IInv', ThreadAdvance
  PROVE  Pending' = Pending
<1> USE RingAssumption
<1>s. RingShape /\ RingShape' /\ PendingShape /\ PendingShape'
  BY RingSeq, PendingSeq, PTL
<1>0. /\ warnHead \in Slots /\ warnTail \in Slots
      /\ warnHead # warnTail
      /\ thread = "advance" /\ thread' = "process"
      /\ UNCHANGED <<warnDb, warnHead, WI>>
      /\ warnTail' = Succ(warnTail)
  BY DEF IInv, TypeOK, ThreadAdvance, FetchInv
<1>1. warnTail' = (IF warnTail = N - 1 THEN 0 ELSE warnTail + 1)
  BY <1>0, SuccValue
<1>2. iUsed' = iUsed - 1 /\ Skip = 1 /\ Skip' = 0 /\ iUsed \in 1 .. N - 1
  BY <1>0, <1>1, UsedRange DEF iUsed, Slots, Skip, IInv
<1>3. ASSUME NEW k \in 1 .. iUsed - 1 PROVE At(k)' = At(k)
  BY <1>0, <1>1, <1>2 DEF At, Slots
<1>4. Ring' = Ring
  BY <1>0, <1>2, <1>3 DEF Ring
<1>5. QED
  BY <1>s, <1>0, <1>4 DEF PendingShape, Held

(* The thread writes the first pending message.                            *)
LEMMA ProcessPending ==
  ASSUME IInv, IInv', ThreadProcess
  PROVE  /\ Pending # <<>> /\ Pending' = Tail(Pending)
         /\ log' = Append(log, Head(Pending))
<1>s. RingShape /\ RingShape' /\ PendingShape /\ PendingShape'
  BY RingSeq, PendingSeq, PTL
<1>1. /\ WI \in Messages /\ WI # NoMsg /\ WI' = NoMsg
      /\ log' = Append(log, WI)
  BY DEF IInv, TypeOK, ThreadProcess, HandInv
<1>2. Ring' = Ring /\ Ring \in Seq(Messages)
  BY <1>s DEF ThreadProcess, ring, Ring, At, Skip, iUsed, RingShape
<1>3. Held = <<WI>> /\ Held' = <<>>
  BY <1>1 DEF Held
<1>4. Pending = <<WI>> \o Ring /\ Pending' = Ring
  BY <1>s, <1>2, <1>3, ConcatEmptySeq DEF PendingShape
<1>5. Head(<<WI>> \o Ring) = WI /\ Tail(<<WI>> \o Ring) = Ring /\ <<WI>> \o Ring # <<>>
  <2>1. /\ <<WI>> \o Ring \in Seq(Messages) /\ Len(<<WI>> \o Ring) = 1 + Len(Ring)
        /\ Len(Ring) \in Nat /\ <<WI>> \in Seq(Messages) /\ Len(<<WI>>) = 1
        /\ \A i \in 1 .. 1 + Len(Ring) :
              (<<WI>> \o Ring)[i] = IF i <= 1 THEN <<WI>>[i] ELSE Ring[i - 1]
    BY <1>1, <1>2, ConcatProperties, LenProperties
  <2>2. (<<WI>> \o Ring)[1] = WI /\ <<WI>> \o Ring # <<>>
    BY <2>1
  <2>3. Head(<<WI>> \o Ring) = WI
    BY <2>1, <2>2
  <2>4. /\ Tail(<<WI>> \o Ring) \in Seq(Messages) /\ Len(Tail(<<WI>> \o Ring)) = Len(Ring)
        /\ \A i \in 1 .. Len(Ring) : Tail(<<WI>> \o Ring)[i] = (<<WI>> \o Ring)[i + 1]
    BY <2>1, <2>2, HeadTailProperties
  <2>5. \A i \in 1 .. Len(Ring) : Tail(<<WI>> \o Ring)[i] = Ring[i]
    BY <2>1, <2>4
  <2>6. QED
    BY <1>2, <2>2, <2>3, <2>4, <2>5, SeqEqual
<1>6. QED
  BY <1>1, <1>4, <1>5

(* The other steps leave what is pending alone.                            *)
LEMMA StartPending ==
  ASSUME IInv, IInv', stlPrintfThread
  PROVE  Pending' = Pending /\ Pending = <<>>
<1>1. /\ iUsed = 0 /\ iUsed' = 0 /\ WI = NoMsg /\ WI' = NoMsg
  BY UsedRange DEF stlPrintfThread, printer, IInv, StartInv, HandInv, iUsed
<1>2. thread # "advance" /\ thread' # "advance"
  BY DEF stlPrintfThread, IInv, StartInv
<1>3. Ring = <<>> /\ Ring' = <<>>
  BY <1>1, <1>2 DEF Ring, Skip
<1>4. PendingShape /\ PendingShape'
  BY PendingSeq, PTL
<1>5. QED
  BY <1>1, <1>3, <1>4 DEF PendingShape, Held

-----------------------------------------------------------------------------
(* What is in a sequence, how often, and in which order.                   *)

In(s, m)     == \E i \in DOMAIN s : s[i] = m
Distinct(s)  == \A i, j \in DOMAIN s : s[i] = s[j] => i = j
Before(a, b) == a[1] = b[1] => a[2] < b[2]     \* of one client: printed before
Ordered(s)   == \A i, j \in DOMAIN s : i < j => Before(s[i], s[j])
AllBefore(s, t) == \A i \in DOMAIN s, j \in DOMAIN t : Before(s[i], t[j])

LEMMA InAppend ==
  ASSUME NEW S, NEW s \in Seq(S), NEW e \in S
  PROVE  /\ \A m : In(Append(s, e), m) <=> In(s, m) \/ m = e
         /\ Distinct(s) /\ ~In(s, e) => Distinct(Append(s, e))
<1>1. /\ Len(s) \in Nat /\ DOMAIN s = 1 .. Len(s)
      /\ DOMAIN Append(s, e) = 1 .. Len(s) + 1
      /\ \A i \in 1 .. Len(s) : Append(s, e)[i] = s[i]
      /\ Append(s, e)[Len(s) + 1] = e
  BY AppendProperties, LenProperties
<1>2. ASSUME NEW m PROVE In(Append(s, e), m) <=> In(s, m) \/ m = e
  BY <1>1 DEF In
<1>3. ASSUME Distinct(s), ~In(s, e) PROVE Distinct(Append(s, e))
  BY <1>1, <1>3 DEF In, Distinct
<1>4. QED
  BY <1>2, <1>3

LEMMA InTail ==
  ASSUME NEW S, NEW s \in Seq(S), s # <<>>
  PROVE  /\ \A m : In(s, m) <=> m = Head(s) \/ In(Tail(s), m)
         /\ Distinct(s) => Distinct(Tail(s)) /\ ~In(Tail(s), Head(s))
<1>1. /\ Len(s) \in Nat \ {0} /\ DOMAIN s = 1 .. Len(s)
      /\ DOMAIN Tail(s) = 1 .. Len(s) - 1
      /\ \A i \in 1 .. Len(s) - 1 : Tail(s)[i] = s[i + 1]
      /\ Head(s) = s[1]
  BY HeadTailProperties, LenProperties, EmptySeq
<1>2. ASSUME NEW m PROVE In(s, m) <=> m = Head(s) \/ In(Tail(s), m)
  <2>1. ASSUME NEW i \in 1 .. Len(s), s[i] = m PROVE m = Head(s) \/ In(Tail(s), m)
    <3>1. CASE i = 1
      BY <1>1, <2>1, <3>1
    <3>2. CASE i # 1
      <4>1. i - 1 \in 1 .. Len(s) - 1 /\ Tail(s)[i - 1] = m
        BY <1>1, <2>1, <3>2
      <4>2. QED
        BY <1>1, <4>1 DEF In
    <3>3. QED
      BY <3>1, <3>2
  <2>2. ASSUME NEW i \in 1 .. Len(s) - 1, Tail(s)[i] = m PROVE In(s, m)
    <3>1. i + 1 \in 1 .. Len(s) /\ s[i + 1] = m
      BY <1>1, <2>2
    <3>2. QED
      BY <1>1, <3>1 DEF In
  <2>3. QED
    BY <1>1, <2>1, <2>2 DEF In
<1>3. ASSUME Distinct(s) PROVE Distinct(Tail(s)) /\ ~In(Tail(s), Head(s))
  <2>1. ASSUME NEW i \in 1 .. Len(s) - 1, NEW j \in 1 .. Len(s) - 1, Tail(s)[i] = Tail(s)[j]
        PROVE  i = j
    <3>1. i + 1 \in 1 .. Len(s) /\ j + 1 \in 1 .. Len(s) /\ s[i + 1] = s[j + 1]
      BY <1>1, <2>1
    <3>2. i + 1 = j + 1
      BY <1>1, <1>3, <3>1 DEF Distinct
    <3>3. QED
      BY <3>2
  <2>2. ASSUME NEW i \in 1 .. Len(s) - 1, Tail(s)[i] = Head(s) PROVE FALSE
    <3>1. 1 \in 1 .. Len(s) /\ i + 1 \in 1 .. Len(s) /\ s[i + 1] = s[1]
      BY <1>1, <2>2
    <3>2. i + 1 = 1
      BY <1>1, <1>3, <3>1 DEF Distinct
    <3>3. QED
      BY <3>2
  <2>3. QED
    BY <1>1, <2>1, <2>2 DEF Distinct, In
<1>4. QED
  BY <1>2, <1>3

LEMMA OrderedAppend ==
  ASSUME NEW S, NEW s \in Seq(S), NEW e \in S, Ordered(s),
         \A m : In(s, m) => Before(m, e)
  PROVE  Ordered(Append(s, e))
<1>1. /\ Len(s) \in Nat /\ DOMAIN s = 1 .. Len(s)
      /\ DOMAIN Append(s, e) = 1 .. Len(s) + 1
      /\ \A i \in 1 .. Len(s) : Append(s, e)[i] = s[i]
      /\ Append(s, e)[Len(s) + 1] = e
  BY AppendProperties, LenProperties
<1>2. ASSUME NEW i \in 1 .. Len(s) + 1, NEW j \in 1 .. Len(s) + 1, i < j
      PROVE  Before(Append(s, e)[i], Append(s, e)[j])
  <2>1. CASE j = Len(s) + 1
    BY <1>1, <1>2, <2>1 DEF In
  <2>2. CASE j # Len(s) + 1
    BY <1>1, <1>2, <2>2 DEF Ordered
  <2>3. QED
    BY <2>1, <2>2
<1>3. QED
  BY <1>1, <1>2 DEF Ordered

LEMMA OrderedTail ==
  ASSUME NEW S, NEW s \in Seq(S), s # <<>>, Ordered(s)
  PROVE  Ordered(Tail(s)) /\ \A m : In(Tail(s), m) => Before(Head(s), m)
<1>1. /\ Len(s) \in Nat \ {0} /\ DOMAIN s = 1 .. Len(s)
      /\ DOMAIN Tail(s) = 1 .. Len(s) - 1
      /\ \A i \in 1 .. Len(s) - 1 : Tail(s)[i] = s[i + 1]
      /\ Head(s) = s[1]
  BY HeadTailProperties, LenProperties, EmptySeq
<1>2. ASSUME NEW i \in 1 .. Len(s) - 1
      PROVE  i + 1 \in 1 .. Len(s) /\ Tail(s)[i] = s[i + 1] /\ 1 < i + 1 /\ 1 \in 1 .. Len(s)
  BY <1>1
<1>3. ASSUME NEW i \in 1 .. Len(s) - 1, NEW j \in 1 .. Len(s) - 1, i < j
      PROVE  Before(Tail(s)[i], Tail(s)[j])
  BY <1>1, <1>2, <1>3 DEF Ordered
<1>4. ASSUME NEW i \in 1 .. Len(s) - 1 PROVE Before(Head(s), Tail(s)[i])
  BY <1>1, <1>2 DEF Ordered
<1>5. QED
  BY <1>1, <1>3, <1>4 DEF Ordered, In

-----------------------------------------------------------------------------
(* Every message is at one place.                                          *)

OnceInv == NothingLostOrDoubled /\ IsFiniteSet(dropped)

(* The same with In and Distinct.                                          *)
Places(m) ==
  /\ m[2] <= sent[m[1]] <=> InHand(m) \/ In(Pending, m) \/ In(log, m) \/ m \in dropped
  /\ ~(In(Pending, m) /\ In(log, m))
  /\ InHand(m) => ~In(Pending, m) /\ ~In(log, m)
  /\ m \in dropped => ~InHand(m) /\ ~In(Pending, m) /\ ~In(log, m)

Once ==
  /\ Distinct(Pending) /\ Distinct(log)
  /\ \A m \in Messages : Places(m)
  /\ IsFiniteSet(dropped) /\ printfDroppedMsgs = Cardinality(dropped)

LEMMA OnceIs == OnceInv <=> Once
BY DEF OnceInv, Once, NothingLostOrDoubled, AtOnePlace, Places, IsPending, Written, In, Distinct

LEMMA InitOnce == Init => Once
<1> SUFFICES ASSUME Init PROVE Once
  OBVIOUS
<1>1. Pending = <<>>
  <2>1. iUsed = 0 /\ WI = NoMsg /\ thread = "none"
    BY DEF Init, iUsed
  <2>2. IInv
    BY InitIInv
  <2>3. Ring = <<>> /\ Held = <<>> /\ PendingShape
    BY <2>1, <2>2, PendingSeq DEF Ring, Skip, Held
  <2>4. QED
    BY <2>3 DEF PendingShape
<1>2. log = <<>> /\ dropped = {} /\ printfDroppedMsgs = 0
  BY DEF Init
<1>3. ASSUME NEW m \in Messages PROVE Places(m)
  <2>1. m[1] \in Clients /\ m[2] \in Nat \ {0}
    BY BoundAssumption DEF Messages
  <2>2. sent[m[1]] = 0 /\ pc[m[1]] = "idle"
    BY <2>1 DEF Init
  <2>3. ~In(Pending, m) /\ ~In(log, m) /\ m \notin dropped
    BY <1>1, <1>2 DEF In
  <2>4. QED
    BY <2>1, <2>2, <2>3 DEF Places, InHand
<1>4. Distinct(Pending) /\ Distinct(log)
  BY <1>1, <1>2 DEF Distinct
<1>5. IsFiniteSet(dropped) /\ printfDroppedMsgs = Cardinality(dropped)
  BY <1>2, FS_EmptySet
<1>6. QED
  BY <1>3, <1>4, <1>5 DEF Once

(* A step that moves no message: nothing that Once reads changes, except   *)
(* that a caller may go from waiting for warnMux to holding it.            *)
LEMMA StillOnce ==
  ASSUME Once, Pending' = Pending, UNCHANGED <<log, drops, sent>>,
         \A m \in Messages : InHand(m)' <=> InHand(m)
  PROVE  Once'
<1>1. ASSUME NEW m \in Messages PROVE Places(m)'
  BY <1>1 DEF Once, Places, drops, In
<1>2. QED
  BY <1>1 DEF Once, drops, Distinct

(* The message a client is printing.                                       *)
LEMMA OwnMessage ==
  ASSUME IInv, NEW c \in Clients, pc[c] # "idle"
  PROVE  Msg(c) \in Messages /\ Msg(c)[1] = c /\ Msg(c)[2] = sent[c] /\ sent[c] \in Nat
BY BoundAssumption DEF IInv, TypeOK, SentInv, Msg, Messages

LEMMA PrintfOnce ==
  ASSUME IInv, IInv', Once, NEW c \in Clients, Printf(c)
  PROVE  Once'
<1>1. Pending' = Pending /\ UNCHANGED <<log, drops>>
  BY DEF Printf, ring, printer, Pending, Held, iUsed
<1>2. ASSUME NEW m \in Messages PROVE Places(m)'
  <2>1. /\ m[1] \in Clients /\ m[2] \in Nat /\ m = <<m[1], m[2]>>
        /\ sent[c] \in Nat /\ pc[c] = "idle"
        /\ sent' = [sent EXCEPT ![c] = @ + 1] /\ sent \in [Clients -> 0 .. MaxMsgs]
        /\ pc'[c] \in {"queue", "direct"} /\ \A d \in Clients \ {c} : pc'[d] = pc[d]
    BY BoundAssumption DEF Printf, Route, Messages, IInv, TypeOK
  <2>2. Places(m)
    BY DEF Once
  <2>3. CASE m[1] # c
    <3>1. InHand(m)' <=> InHand(m)
      BY <2>1, <2>3 DEF InHand, Msg
    <3>2. sent'[m[1]] = sent[m[1]]
      BY <2>1, <2>3
    <3>3. QED
      BY <1>1, <2>2, <3>1, <3>2 DEF Places, drops
  <2>4. CASE m[1] = c
    <3>1. ~InHand(m) /\ sent'[c] = sent[c] + 1
      BY <2>1, <2>4 DEF InHand
    <3>2. InHand(m)' <=> m[2] = sent[c] + 1
      BY <2>1, <2>4, <3>1 DEF InHand, Msg
    <3>3. m[2] <= sent'[c] <=> m[2] <= sent[c] \/ m[2] = sent[c] + 1
      BY <2>1, <3>1
    <3>4. m[2] = sent[c] + 1 => ~(m[2] <= sent[c])
      BY <2>1
    <3>5. QED
      BY <1>1, <2>2, <2>4, <3>1, <3>2, <3>3, <3>4 DEF Places, drops
  <2>5. QED
    BY <2>3, <2>4
<1>3. QED
  BY <1>1, <1>2 DEF Once, drops, Distinct

(* A client whose message has left its hands.                              *)
LEMMA HandedOver ==
  ASSUME IInv, NEW c \in Clients, pc[c] \in {"direct", "queue", "locked"},
         NEW to \in {"idle", "stored"}, pc' = [pc EXCEPT ![c] = to], sent' = sent,
         NEW m \in Messages
  PROVE  InHand(m)' <=> InHand(m) /\ m # Msg(c)
<1>1. pc \in [Clients -> {"idle", "direct", "queue", "locked", "stored"}] /\ m[1] \in Clients
  BY DEF IInv, TypeOK, Messages
<1>2. Msg(c)[1] = c
  BY OwnMessage
<1>3. CASE m[1] = c
  BY <1>1, <1>2, <1>3 DEF InHand, Msg
<1>4. CASE m[1] # c
  BY <1>1, <1>2, <1>4 DEF InHand, Msg
<1>5. QED
  BY <1>3, <1>4

LEMMA DirectOnce ==
  ASSUME IInv, IInv', Once, NEW c \in Clients, ProcessDirect(c)
  PROVE  Once'
<1>1. Pending' = Pending /\ UNCHANGED drops /\ sent' = sent /\ log' = Append(log, Msg(c))
  BY DEF ProcessDirect, ring, printer, Pending, Held, iUsed
<1>2. Msg(c) \in Messages /\ InHand(Msg(c)) /\ log \in Seq(Messages)
  BY OwnMessage DEF ProcessDirect, InHand, IInv, TypeOK
<1>3. ~In(log, Msg(c)) /\ ~In(Pending, Msg(c)) /\ Msg(c) \notin dropped
  BY <1>2 DEF Once, Places
<1>4. Distinct(log') /\ \A m : In(log', m) <=> In(log, m) \/ m = Msg(c)
  BY <1>1, <1>2, <1>3, InAppend DEF Once
<1>5. ASSUME NEW m \in Messages PROVE Places(m)'
  <2>1. InHand(m)' <=> InHand(m) /\ m # Msg(c)
    BY <1>1, HandedOver DEF ProcessDirect
  <2>2. QED
    BY <1>1, <1>2, <1>3, <1>4, <2>1 DEF Once, Places, drops
<1>6. QED
  BY <1>1, <1>4, <1>5 DEF Once, drops

LEMMA StoreOnce ==
  ASSUME IInv, IInv', Once, NEW c \in Clients, QueueStore(c)
  PROVE  Once'
<1>1. sent' = sent /\ log' = log
  BY DEF QueueStore
<1>2. Msg(c) \in Messages /\ InHand(Msg(c)) /\ Pending \in Seq(Messages)
  BY OwnMessage, PendingSeq DEF QueueStore, InHand, PendingShape
<1>3. ~In(log, Msg(c)) /\ ~In(Pending, Msg(c)) /\ Msg(c) \notin dropped
  BY <1>2 DEF Once, Places
<1>4. ASSUME NEW m \in Messages PROVE InHand(m)' <=> InHand(m) /\ m # Msg(c)
  BY <1>1, HandedOver DEF QueueStore
<1>5. CASE HasRoom
  <2>1. Pending' = Append(Pending, Msg(c)) /\ UNCHANGED drops
    BY <1>5, StorePending DEF QueueStore
  <2>2. Distinct(Pending') /\ \A m : In(Pending', m) <=> In(Pending, m) \/ m = Msg(c)
    BY <1>2, <1>3, <2>1, InAppend DEF Once
  <2>3. ASSUME NEW m \in Messages PROVE Places(m)'
    BY <1>1, <1>2, <1>3, <1>4, <2>1, <2>2 DEF Once, Places, drops
  <2>4. QED
    BY <1>1, <2>1, <2>2, <2>3 DEF Once, drops, Distinct
<1>6. CASE ~HasRoom
  <2>1. /\ Pending' = Pending /\ dropped' = dropped \cup {Msg(c)}
        /\ printfDroppedMsgs' = printfDroppedMsgs + 1
    BY <1>6, StorePending DEF QueueStore
  <2>2. IsFiniteSet(dropped') /\ printfDroppedMsgs' = Cardinality(dropped')
    BY <1>3, <2>1, FS_AddElement DEF Once
  <2>3. ASSUME NEW m \in Messages PROVE Places(m)'
    BY <1>1, <1>2, <1>3, <1>4, <2>1 DEF Once, Places
  <2>4. QED
    BY <1>1, <2>1, <2>2, <2>3 DEF Once, Distinct
<1>7. QED
  BY <1>5, <1>6

LEMMA ProcessOnce ==
  ASSUME IInv, IInv', Once, ThreadProcess
  PROVE  Once'
<1>1. /\ Pending # <<>> /\ Pending' = Tail(Pending)
      /\ log' = Append(log, Head(Pending))
      /\ Pending \in Seq(Messages) /\ log \in Seq(Messages) /\ Head(Pending) \in Messages
  BY ProcessPending, PendingSeq, HeadTailProperties DEF PendingShape, IInv, TypeOK
<1>2. /\ \A m : In(Pending, m) <=> m = Head(Pending) \/ In(Pending', m)
      /\ Distinct(Pending') /\ ~In(Pending', Head(Pending))
  BY <1>1, InTail DEF Once
<1>3. ~In(log, Head(Pending)) /\ ~InHand(Head(Pending)) /\ Head(Pending) \notin dropped
  BY <1>1, <1>2 DEF Once, Places
<1>4. Distinct(log') /\ \A m : In(log', m) <=> In(log, m) \/ m = Head(Pending)
  BY <1>1, <1>3, InAppend DEF Once
<1>5. ASSUME NEW m \in Messages PROVE Places(m)'
  <2>1. (InHand(m)' <=> InHand(m)) /\ sent' = sent /\ dropped' = dropped
    BY DEF ThreadProcess, clients, ring, drops, InHand, Msg
  <2>2. QED
    BY <1>1, <1>2, <1>3, <1>4, <2>1 DEF Once, Places
<1>6. UNCHANGED <<dropped, printfDroppedMsgs>>
  BY DEF ThreadProcess, ring, drops
<1>7. QED
  BY <1>2, <1>4, <1>5, <1>6 DEF Once

(* The other steps leave what is pending alone, and what is in hand.       *)
Idle ==
  \/ \E c \in Clients : QueueLock(c) \/ QueueUnlock(c)
  \/ ThreadEnter \/ ThreadTest \/ ThreadEmpty \/ ThreadFetch \/ ThreadAdvance
  \/ stlPrintfThread \/ AbortStep \/ UNCHANGED vars

LEMMA IdleSteps ==
  ASSUME IInv, IInv', Idle
  PROVE  /\ Pending' = Pending /\ UNCHANGED <<log, drops, sent>>
         /\ \A m \in Messages : InHand(m)' <=> InHand(m)
<1> USE DEF ring, drops, flags, clients, printer, exiting
<1> DEFINE Goal == /\ Pending' = Pending /\ UNCHANGED <<log, drops, sent>>
                   /\ \A m \in Messages : InHand(m)' <=> InHand(m)
<1>1. ASSUME NEW c \in Clients, QueueLock(c) \/ QueueUnlock(c) PROVE Goal
  <2>1. Pending' = Pending /\ UNCHANGED <<log, drops, sent>>
    BY <1>1 DEF QueueLock, QueueUnlock, Pending, Held, iUsed
  <2>2. ASSUME NEW m \in Messages PROVE InHand(m)' <=> InHand(m)
    BY <1>1 DEF QueueLock, QueueUnlock, InHand, Msg, IInv, TypeOK, Messages
  <2>3. QED
    BY <2>1, <2>2
<1>2. CASE ThreadEnter \/ ThreadTest \/ ThreadEmpty
  BY <1>2 DEF ThreadEnter, ThreadTest, ThreadEmpty, Pending, Held, iUsed, InHand, Msg
<1>3. CASE ThreadFetch
  BY <1>3, FetchPending DEF ThreadFetch, InHand, Msg
<1>4. CASE ThreadAdvance
  BY <1>4, AdvancePending DEF ThreadAdvance, InHand, Msg
<1>5. CASE stlPrintfThread
  BY <1>5, StartPending DEF stlPrintfThread, InHand, Msg
<1>6. CASE AbortStep
  BY <1>6 DEF AbortStep, AbortSetFlag, AbortDeactivate, AbortPoll, AbortTimeout,
              Pending, Held, iUsed, InHand, Msg
<1>7. CASE UNCHANGED vars
  BY <1>7 DEF vars, Pending, Held, iUsed, InHand, Msg
<1>8. QED
  BY <1>1, <1>2, <1>3, <1>4, <1>5, <1>6, <1>7 DEF Idle

(* The steps that move a message, and the others.                          *)
LEMMA NextCases ==
  ASSUME [Next]_vars
  PROVE  \/ \E c \in Clients : Printf(c) \/ ProcessDirect(c) \/ QueueStore(c)
         \/ ThreadProcess
         \/ Idle
BY DEF Next, ClientStep, ThreadStep, Idle

LEMMA NextOnce ==
  ASSUME IInv, IInv', Once, [Next]_vars
  PROVE  Once'
<1>1. CASE Idle
  BY <1>1, IdleSteps, StillOnce
<1>2. QED
  BY <1>1, NextCases, PrintfOnce, DirectOnce, StoreOnce, ProcessOnce

-----------------------------------------------------------------------------
(* The messages of one client are written in its order while main runs.    *)

DirectAlone(c) == pc[c] = "direct" => \A m \in Messages : In(Pending, m) => m[1] # c

OrderInv ==
  main = "run" =>
    /\ Ordered(log) /\ Ordered(Pending)
    /\ \A a, b \in Messages : In(log, a) /\ In(Pending, b) => Before(a, b)
    /\ \A c \in Clients : DirectAlone(c)
    /\ stlPrintfBackgroundActive \/ Pending = <<>>
    /\ thread \in {"none", "starting"} \/ stlPrintfBackgroundActive

(* What is in a sequence of messages is a message.                         *)
LEMMA InMessages ==
  ASSUME NEW s \in Seq(Messages), NEW m, In(s, m)
  PROVE  m \in Messages
BY ElementOfSeq, LenProperties DEF In

(* A message in hand is the last of its client.                            *)
LEMMA InHandLast ==
  ASSUME IInv, Once, NEW c \in Clients, InHand(Msg(c)), Msg(c) \in Messages,
         NEW m \in Messages, In(log, m) \/ In(Pending, m)
  PROVE  Before(m, Msg(c))
<1>1. m # Msg(c) /\ m[2] <= sent[m[1]]
  BY DEF Once, Places
<1>2. m = <<m[1], m[2]>> /\ m[2] \in Nat /\ Msg(c) = <<c, sent[c]>> /\ sent[c] \in Nat
  BY BoundAssumption DEF Messages, Msg, IInv, TypeOK
<1>3. QED
  BY <1>1, <1>2 DEF Before

LEMMA InitOrder == Init => OrderInv
<1> SUFFICES ASSUME Init PROVE OrderInv
  OBVIOUS
<1>1. Pending = <<>>
  <2>1. IInv /\ iUsed = 0 /\ WI = NoMsg /\ thread = "none"
    BY InitIInv DEF Init, iUsed
  <2>2. Ring = <<>> /\ Held = <<>> /\ PendingShape
    BY <2>1, PendingSeq DEF Ring, Skip, Held
  <2>3. QED
    BY <2>2 DEF PendingShape
<1>2. log = <<>>
  BY DEF Init
<1>3. thread = "none"
  BY DEF Init
<1>4. QED
  BY <1>1, <1>2, <1>3 DEF OrderInv, Ordered, In, DirectAlone

LEMMA NextOrder ==
  ASSUME IInv, IInv', Once, OrderInv, [Next]_vars, main' = "run"
  PROVE  OrderInv'
<1> USE DEF ring, drops, flags, clients, printer, exiting
<1>0. /\ main = "run" /\ log \in Seq(Messages) /\ Pending \in Seq(Messages)
  <2>1. main = "run"
    BY DEF Next, ClientStep, ThreadStep, AbortStep, Printf, ProcessDirect, QueueLock,
           QueueStore, QueueUnlock, ThreadEnter, ThreadTest, ThreadEmpty, ThreadFetch,
           ThreadAdvance, ThreadProcess, stlPrintfThread, AbortSetFlag, AbortDeactivate,
           AbortPoll, AbortTimeout, vars
  <2>2. QED
    BY <2>1, PendingSeq DEF IInv, TypeOK, PendingShape
<1> HIDE DEF ring, drops, flags, clients, printer, exiting
<1>1. ASSUME NEW c \in Clients, Printf(c) PROVE OrderInv'
  <2>1. /\ Pending' = Pending /\ log' = log
        /\ UNCHANGED <<stlPrintfBackgroundActive, thread>>
    BY <1>1 DEF Printf, ring, flags, printer, Pending, Held, iUsed
  <2>2. ASSUME NEW d \in Clients PROVE DirectAlone(d)'
    <3>1. CASE d = c
      <4>1. pc'[c] = "direct" => ~stlPrintfBackgroundActive
        BY <1>1 DEF Printf, Route, IInv, TypeOK
      <4>2. QED
        BY <1>0, <2>1, <3>1, <4>1 DEF OrderInv, DirectAlone, In
    <3>2. CASE d # c
      <4>1. pc'[d] = pc[d]
        BY <1>1, <3>2 DEF Printf, IInv, TypeOK
      <4>2. QED
        BY <1>0, <2>1, <4>1 DEF OrderInv, DirectAlone, In
    <3>3. QED
      BY <3>1, <3>2
  <2>3. QED
    BY <1>0, <2>1, <2>2 DEF OrderInv
<1>2. ASSUME NEW c \in Clients, ProcessDirect(c) PROVE OrderInv'
  <2>1. /\ Pending' = Pending /\ log' = Append(log, Msg(c))
        /\ UNCHANGED <<stlPrintfBackgroundActive, thread>>
    BY <1>2 DEF ProcessDirect, ring, flags, printer, Pending, Held, iUsed
  <2>2. Msg(c) \in Messages /\ Msg(c)[1] = c /\ InHand(Msg(c))
    BY <1>2, OwnMessage DEF ProcessDirect, InHand
  <2>3. Ordered(log')
    <3>1. \A m : In(log, m) => Before(m, Msg(c))
      BY <1>0, <2>2, InMessages, InHandLast
    <3>2. QED
      BY <1>0, <2>1, <2>2, <3>1, OrderedAppend DEF OrderInv
  <2>4. \A m : In(log', m) <=> In(log, m) \/ m = Msg(c)
    BY <1>0, <2>1, <2>2, InAppend
  <2>5. \A b \in Messages : In(Pending, b) => b[1] # c
    BY <1>0, <1>2 DEF OrderInv, DirectAlone, ProcessDirect
  <2>6. \A a, b \in Messages : In(log', a) /\ In(Pending', b) => Before(a, b)
    BY <1>0, <2>1, <2>2, <2>4, <2>5 DEF OrderInv, Before
  <2>7. ASSUME NEW d \in Clients PROVE DirectAlone(d)'
    <3>1. pc'[d] = "direct" => pc[d] = "direct"
      BY <1>2 DEF ProcessDirect, IInv, TypeOK
    <3>2. QED
      BY <1>0, <2>1, <3>1 DEF OrderInv, DirectAlone
  <2>8. QED
    BY <1>0, <2>1, <2>3, <2>6, <2>7 DEF OrderInv
<1>3. ASSUME NEW c \in Clients, QueueStore(c) PROVE OrderInv'
  <2>1. log' = log /\ UNCHANGED <<stlPrintfBackgroundActive, thread>>
    BY <1>3 DEF QueueStore, flags, printer
  <2>2. /\ Msg(c) \in Messages /\ Msg(c)[1] = c /\ InHand(Msg(c))
        /\ pc[c] = "locked" /\ \A d \in Clients : pc'[d] = "direct" => pc[d] = "direct" /\ d # c
    BY <1>3, OwnMessage DEF QueueStore, InHand, IInv, TypeOK
  <2>3. CASE ~HasRoom
    <3>1. Pending' = Pending
      BY <1>3, <2>3, StorePending
    <3>2. QED
      BY <1>0, <2>1, <2>2, <3>1 DEF OrderInv, DirectAlone
  <2>4. CASE HasRoom
    <3>1. Pending' = Append(Pending, Msg(c))
      BY <1>3, <2>4, StorePending
    <3>2. \A m : In(Pending', m) <=> In(Pending, m) \/ m = Msg(c)
      BY <1>0, <2>2, <3>1, InAppend
    <3>3. Ordered(Pending')
      <4>1. \A m : In(Pending, m) => Before(m, Msg(c))
        BY <1>0, <2>2, InMessages, InHandLast
      <4>2. QED
        BY <1>0, <2>2, <3>1, <4>1, OrderedAppend DEF OrderInv
    <3>4. \A a, b \in Messages : In(log', a) /\ In(Pending', b) => Before(a, b)
      BY <1>0, <2>1, <2>2, <3>2, InHandLast DEF OrderInv
    <3>5. \A d \in Clients : DirectAlone(d)'
      BY <1>0, <2>2, <3>2 DEF OrderInv, DirectAlone
    <3>6. stlPrintfBackgroundActive'
      BY <1>0, <2>1, <2>2 DEF IInv, StartInv, OrderInv
    <3>7. QED
      BY <1>0, <2>1, <3>3, <3>4, <3>5, <3>6 DEF OrderInv
  <2>5. QED
    BY <2>3, <2>4
<1>4. CASE ThreadProcess
  <2>1. /\ Pending # <<>> /\ Pending' = Tail(Pending)
        /\ log' = Append(log, Head(Pending)) /\ Head(Pending) \in Messages
    BY <1>0, <1>4, ProcessPending, HeadTailProperties
  <2>2. UNCHANGED <<pc, stlPrintfBackgroundActive>>
    BY <1>4 DEF ThreadProcess, clients, flags
  <2>3. /\ \A m : In(Pending, m) <=> m = Head(Pending) \/ In(Pending', m)
        /\ \A m : In(log', m) <=> In(log, m) \/ m = Head(Pending)
    BY <1>0, <2>1, InTail, InAppend
  <2>4. Ordered(Pending') /\ \A m : In(Pending', m) => Before(Head(Pending), m)
    BY <1>0, <2>1, OrderedTail DEF OrderInv
  <2>5. Ordered(log')
    <3>1. \A m : In(log, m) => Before(m, Head(Pending))
      BY <1>0, <2>1, <2>3, InMessages DEF OrderInv
    <3>2. QED
      BY <1>0, <2>1, <3>1, OrderedAppend DEF OrderInv
  <2>6. \A a, b \in Messages : In(log', a) /\ In(Pending', b) => Before(a, b)
    BY <1>0, <2>3, <2>4 DEF OrderInv
  <2>7. \A d \in Clients : DirectAlone(d)'
    BY <1>0, <2>2, <2>3 DEF OrderInv, DirectAlone
  <2>8. stlPrintfBackgroundActive
    BY <1>0, <2>1 DEF OrderInv
  <2>9. QED
    BY <2>2, <2>4, <2>5, <2>6, <2>7, <2>8 DEF OrderInv
<1>5. CASE Idle
  <2>1. Pending' = Pending /\ log' = log
    BY <1>5, IdleSteps
  <2>2. \A d \in Clients : pc'[d] = "direct" => pc[d] = "direct"
    BY <1>5 DEF Idle, AbortStep, QueueLock, QueueUnlock, ThreadEnter, ThreadTest,
         ThreadEmpty, ThreadFetch, ThreadAdvance, stlPrintfThread, AbortSetFlag,
         AbortDeactivate, AbortPoll, AbortTimeout, vars, clients, IInv, TypeOK
  <2>3. /\ stlPrintfBackgroundActive => stlPrintfBackgroundActive'
        /\ thread' \in {"none", "starting"} \/ thread = thread' \/ stlPrintfBackgroundActive'
           \/ thread \notin {"none", "starting"}
    BY <1>0, <1>5 DEF Idle, AbortStep, printer, QueueLock, QueueUnlock, ThreadEnter, ThreadTest,
         ThreadEmpty, ThreadFetch, ThreadAdvance, stlPrintfThread, AbortSetFlag,
         AbortDeactivate, AbortPoll, AbortTimeout, vars, flags
  <2>4. QED
    BY <1>0, <2>1, <2>2, <2>3 DEF OrderInv, DirectAlone
<1>6. QED
  BY <1>1, <1>2, <1>3, <1>4, <1>5, NextCases

LEMMA NextOrderInv ==
  ASSUME IInv, IInv', Once, OrderInv, [Next]_vars
  PROVE  OrderInv'
<1>1. CASE main' = "run"
  BY <1>1, NextOrder
<1>2. CASE main' # "run"
  BY <1>2 DEF OrderInv
<1>3. QED
  BY <1>1, <1>2

-----------------------------------------------------------------------------
(* The step to the log service.                                            *)

FullInv == IInv /\ Once /\ OrderInv

LEMMA AlwaysFullInv == Spec => []FullInv
<1>1. Init => FullInv
  BY InitIInv, InitOnce, InitOrder DEF FullInv
<1>2. FullInv /\ [Next]_vars => FullInv'
  BY NextIInv, NextOnce, NextOrderInv DEF FullInv
<1>3. QED
  BY <1>1, <1>2, PTL DEF Spec

LEMMA ServiceInit == Init => Service!Init
<1> SUFFICES ASSUME Init PROVE Service!Init
  OBVIOUS
<1>1. IInv /\ iUsed = 0 /\ WI = NoMsg /\ thread = "none"
  BY InitIInv DEF Init, iUsed
<1>2. Ring = <<>> /\ Held = <<>> /\ PendingShape
  BY <1>1, PendingSeq DEF Ring, Skip, Held
<1>3. Pending = <<>>
  BY <1>2 DEF PendingShape
<1>4. QED
  BY <1>3 DEF Init, Service!Init

(* How many messages wait: those of the ring and the one in hand.          *)
LEMMA PendingLen ==
  ASSUME IInv
  PROVE  /\ Len(Pending) \in Nat
         /\ HasRoom => Len(Pending) <= N - Slack
         /\ ~HasRoom => Len(Pending) >= N - Slack
<1>1. PendingShape /\ RingShape
  BY PendingSeq, RingSeq
<1>2. /\ Len(Pending) = Len(Held) + iUsed - Skip /\ iUsed \in 0 .. N - 1
      /\ Len(Held) \in {0, 1} /\ Skip \in {0, 1} /\ (Skip = 1 => Len(Held) = 1)
      /\ iUsed - Skip \in Nat
  BY <1>1 DEF PendingShape, RingShape, Skip, IInv, HandInv
<1>3. iUsed \in Int /\ iUsed >= 0
  BY <1>2, RingAssumption
<1>4. Len(Pending) \in {iUsed, iUsed + 1}
  <2>1. CASE Skip = 1
    <3>1. Len(Held) = 1
      BY <1>2, <2>1
    <3>2. Len(Pending) = 1 + iUsed - 1
      BY <1>2, <2>1, <3>1
    <3>3. Len(Pending) = iUsed
      BY <1>3, <3>2
    <3>4. QED
      BY <3>3
  <2>2. CASE Skip = 0 /\ Len(Held) = 0
    BY <1>2, <1>3, <2>2
  <2>3. CASE Skip = 0 /\ Len(Held) = 1
    BY <1>2, <1>3, <2>3
  <2>4. QED
    BY <1>2, <2>1, <2>2, <2>3
<1>5. HasRoom <=> N - iUsed > Slack
  BY DEF HasRoom, queueWarnGetFree
<1>6. QED
  BY <1>3, <1>4, <1>5, RingAssumption

LEMMA ServiceNext == FullInv /\ FullInv' /\ [Next]_vars => [Service!Next]_(Service!vars)
<1> SUFFICES ASSUME FullInv, FullInv', [Next]_vars
             PROVE  Service!Next \/ UNCHANGED Service!vars
  BY DEF Service!vars
<1> USE DEF FullInv
<1>1. CASE Idle
  BY <1>1, IdleSteps DEF Service!vars, drops
<1>2. ASSUME NEW c \in Clients, Printf(c) PROVE UNCHANGED Service!vars
  BY <1>2 DEF Printf, ring, drops, printer, Pending, Held, iUsed, Service!vars
<1>3. ASSUME NEW c \in Clients, ProcessDirect(c) PROVE Service!Next
  <2>1. /\ Pending' = Pending /\ log' = Append(log, Msg(c))
        /\ printfDroppedMsgs' = printfDroppedMsgs
    BY <1>3 DEF ProcessDirect, ring, drops, printer, Pending, Held, iUsed
  <2>2. Msg(c) \in Messages /\ InHand(Msg(c))
    BY <1>3, OwnMessage DEF ProcessDirect, InHand
  <2>3. ~In(log, Msg(c)) /\ ~In(Pending, Msg(c))
    BY <2>2 DEF Once, Places
  <2>4. Service!WriteDirect(Msg(c))
    BY <2>1, <2>3 DEF Service!WriteDirect, Service!IsNew, In
  <2>5. QED
    BY <2>2, <2>4 DEF Service!Next
<1>4. ASSUME NEW c \in Clients, QueueStore(c) PROVE Service!Next
  <2>1. Msg(c) \in Messages /\ InHand(Msg(c)) /\ log' = log
    BY <1>4, OwnMessage DEF QueueStore, InHand
  <2>2. ~In(log, Msg(c)) /\ ~In(Pending, Msg(c))
    BY <2>1 DEF Once, Places
  <2>3. CASE HasRoom
    <3>1. Pending' = Append(Pending, Msg(c)) /\ printfDroppedMsgs' = printfDroppedMsgs
      BY <1>4, <2>3, StorePending DEF QueueStore, drops
    <3>2. Service!Accept(Msg(c))
      BY <2>1, <2>2, <2>3, <3>1, PendingLen DEF Service!Accept, Service!IsNew, In
    <3>3. QED
      BY <2>1, <3>2 DEF Service!Next
  <2>4. CASE ~HasRoom
    <3>1. Pending' = Pending /\ printfDroppedMsgs' = printfDroppedMsgs + 1
      BY <1>4, <2>4, StorePending DEF QueueStore
    <3>2. Service!Reject
      BY <2>1, <2>4, <3>1, PendingLen DEF Service!Reject
    <3>3. QED
      BY <3>2 DEF Service!Next
  <2>5. QED
    BY <2>3, <2>4
<1>5. CASE ThreadProcess
  <2>1. /\ Pending # <<>> /\ Pending' = Tail(Pending) /\ log' = Append(log, Head(Pending))
        /\ printfDroppedMsgs' = printfDroppedMsgs
    BY <1>5, ProcessPending DEF ThreadProcess, ring, drops
  <2>2. Service!WriteNext
    BY <2>1 DEF Service!WriteNext
  <2>3. QED
    BY <2>2 DEF Service!Next
<1>6. QED
  BY <1>1, <1>2, <1>3, <1>4, <1>5, NextCases

(* Type correctness of the print service (stl_daemon.c:324-402).           *)
THEOREM TypeCorrect == Spec => []TypeOK
<1>1. IInv => TypeOK
  BY DEF IInv
<1>2. QED
  BY <1>1, AlwaysIInv, PTL

(* The slots between warnTail and warnHead hold a message and the others   *)
(* none, whatever the interleaving: queueWarnInfo never overwrites a       *)
(* message that was not read, and _stlPrintThread never reads an empty     *)
(* slot (stl_daemon.c:347-372).                                            *)
THEOREM RingConsistent == Spec => []RingIsWhole
<1>1. IInv => RingIsWhole
  BY DEF IInv, RingIsWhole
<1>2. QED
  BY <1>1, AlwaysIInv, PTL

(* At least Slack slots stay free, so that warnHead = warnTail means empty *)
(* (stl_daemon.c:337 and 368).                                             *)
THEOREM SlackAlwaysKept == Spec => []SlackKept
<1>1. IInv => SlackKept
  BY DEF IInv
<1>2. QED
  BY <1>1, AlwaysIInv, PTL

(* What printf, puts and stlPrintf are given is written once or counted as *)
(* dropped, whatever the threads do, and until the process begins to exit  *)
(* in the order of each caller (stl_daemon.c:324-402, 441-491).            *)
THEOREM WrittenOnceInOrder == Spec => []EachOnceInOrder
<1>1. FullInv => EachOnceInOrder
  <2>1. ASSUME FullInv PROVE NothingLostOrDoubled
    BY <2>1, OnceIs DEF FullInv, OnceInv
  <2>2. ASSUME FullInv PROVE CallerOrder
    BY <2>2 DEF FullInv, OrderInv, CallerOrder, Ordered, Before
  <2>3. QED
    BY <2>1, <2>2 DEF EachOnceInOrder
<1>2. QED
  BY <1>1, AlwaysFullInv, PTL

(* The ring, the flags and the thread implement the abstract log service:  *)
(* its waiting messages are Pending, its limit is N - Slack.               *)
THEOREM RingIsLogService == Spec => ImplementsLogService
<1>1. Spec => Init /\ [][Next]_vars /\ []FullInv
  BY AlwaysFullInv DEF Spec
<1>2. QED
  BY <1>1, ServiceInit, ServiceNext, PTL DEF ImplementsLogService, Service!Spec

=============================================================================
