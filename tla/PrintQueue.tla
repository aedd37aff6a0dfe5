----------------------------- MODULE PrintQueue -----------------------------
(***************************************************************************)
(* The background printf of stl_daemon.c (Linux): callers of printf, puts  *)
(* and stlPrintf put their message in the ring warnDb, a print thread      *)
(* takes the messages out and writes them, and an atexit handler stops the *)
(* thread.  Written from lines 324-402 and 441-491.                        *)
(*                                                                         *)
(* A step is what one thread does between two points where another thread  *)
(* can see the difference.  warnMux protects the slots and warnHead;       *)
(* warnTail, the two flags and the test warnHead = warnTail are outside    *)
(* every lock, as in the code.                                             *)
(***************************************************************************)
EXTENDS Integers, Sequences, FiniteSets

CONSTANTS
  Clients,    (* threads that print                                        *)
  NoThread,   (* warnMux is free                                           *)
  NoMsg,      (* sMsg = NULL: the slot is empty                            *)
  N,          (* _MaxWarnHist_: 3000 in the code                           *)
  Slack,      (* free slots a message must leave: 10 in the code           *)
  MaxPolls,   (* polls of the atexit handler: 500 in the code              *)
  MaxMsgs     (* BOUND: messages a client prints                           *)

ASSUME RingAssumption ==
  /\ N \in Nat /\ Slack \in Nat
  /\ 0 < Slack /\ Slack < N
ASSUME ClientAssumption ==
  /\ NoThread \notin Clients
  /\ NoMsg \notin Clients \X Nat
ASSUME BoundAssumption == MaxPolls \in Nat /\ MaxMsgs \in Nat

VARIABLES
  warnDb, warnHead, warnTail,   (* the ring                                *)
  warnMux,                      (* its owner                               *)
  printfDroppedMsgs,
  dropped,                      (* HISTORY: the messages that were dropped *)
  stlPrintThreadFlg,            (* 0 no thread, 1 running, 2 must stop     *)
  stlPrintfBackgroundActive,
  pc,                           (* what each client is doing               *)
  sent,                         (* messages each client has begun to print *)
  thread,                       (* what the print thread is doing          *)
  WI,                           (* the message the print thread holds      *)
  main,                         (* run, or the step of the atexit handler  *)
  polls,                        (* polls done by the atexit handler        *)
  log                           (* the messages written so far             *)

drops   == <<printfDroppedMsgs, dropped>>
ring    == <<warnDb, warnHead, warnTail, warnMux, drops>>
flags   == <<stlPrintThreadFlg, stlPrintfBackgroundActive>>
clients == <<pc, sent>>
printer == <<thread, WI>>
exiting == <<main, polls>>
vars    == <<ring, flags, clients, printer, exiting, log>>

Slots    == 0 .. N - 1
Messages == Clients \X (1 .. MaxMsgs)
Msg(c)   == <<c, sent[c]>>       \* the message client c is printing

(* The process is there: exit() has not returned to the kernel.            *)
Alive == main # "exited"

Init ==
  /\ warnDb = [i \in Slots |-> NoMsg]
  /\ warnHead = 0 /\ warnTail = 0
  /\ warnMux = NoThread
  /\ printfDroppedMsgs = 0 /\ dropped = {}
  /\ stlPrintThreadFlg = 0
  /\ stlPrintfBackgroundActive = FALSE
  /\ pc = [c \in Clients |-> "idle"]
  /\ sent = [c \in Clients |-> 0]
  /\ thread = "none"
  /\ WI = NoMsg
  /\ main = "run"
  /\ polls = 0
  /\ log = <<>>

-----------------------------------------------------------------------------
(* The ring arithmetic.                                                    *)

Succ_NoWrap(i) == i + 1                       \* mutant
Succ(i) == (i + 1) % N

iUsed == LET d == warnHead - warnTail IN IF d < 0 THEN d + N ELSE d

queueWarnGetFree == N - iUsed

HasRoom_OffByOne == queueWarnGetFree >= Slack \* mutant
HasRoom_Always == TRUE                        \* mutant
HasRoom == queueWarnGetFree > Slack

LooksEmpty_NoWrap == warnHead <= warnTail     \* mutant
LooksEmpty_Stop ==                            \* mutant
  warnHead = warnTail \/ stlPrintThreadFlg = 2
LooksEmpty == warnHead = warnTail

-----------------------------------------------------------------------------
(* Callers of printf, puts and stlPrintf.                                  *)

(* The flag chooses the way of a message; nothing later looks at it again. *)
Route_DirectWhenFull ==                       \* mutant
  IF stlPrintfBackgroundActive /\ HasRoom THEN "queue" ELSE "direct"
Route == IF stlPrintfBackgroundActive THEN "queue" ELSE "direct"

Printf(c) ==
  /\ Alive /\ pc[c] = "idle" /\ sent[c] < MaxMsgs
  /\ sent' = [sent EXCEPT ![c] = @ + 1]
  /\ pc' = [pc EXCEPT ![c] = Route]
  /\ UNCHANGED <<ring, flags, printer, exiting, log>>

(* processWarnInfo in the caller.                                          *)
ProcessDirect(c) ==
  /\ Alive /\ pc[c] = "direct"
  /\ log' = Append(log, Msg(c))
  /\ pc' = [pc EXCEPT ![c] = "idle"]
  /\ UNCHANGED <<ring, flags, sent, printer, exiting>>

QueueLock(c) ==
  /\ Alive /\ pc[c] = "queue" /\ warnMux = NoThread
  /\ warnMux' = c
  /\ pc' = [pc EXCEPT ![c] = "locked"]
  /\ UNCHANGED <<warnDb, warnHead, warnTail, drops,
                 flags, sent, printer, exiting, log>>

QueueStore_Uncounted(c) ==                    \* mutant
  /\ Alive /\ pc[c] = "locked"
  /\ warnDb' = IF HasRoom THEN [warnDb EXCEPT ![warnHead] = Msg(c)] ELSE warnDb
  /\ warnHead' = IF HasRoom THEN Succ(warnHead) ELSE warnHead
  /\ pc' = [pc EXCEPT ![c] = "stored"]
  /\ UNCHANGED <<warnTail, warnMux, drops, flags, sent, printer, exiting, log>>

(* queueWarnInfo under warnMux: a message still in the slot is freed.      *)
QueueStore(c) ==
  /\ Alive /\ pc[c] = "locked"
  /\ \/ /\ HasRoom
        /\ warnDb' = [warnDb EXCEPT ![warnHead] = Msg(c)]
        /\ warnHead' = Succ(warnHead)
        /\ UNCHANGED drops
     \/ /\ ~HasRoom
        /\ printfDroppedMsgs' = printfDroppedMsgs + 1
        /\ dropped' = dropped \cup {Msg(c)}
        /\ UNCHANGED <<warnDb, warnHead>>
  /\ pc' = [pc EXCEPT ![c] = "stored"]
  /\ UNCHANGED <<warnTail, warnMux, flags, sent, printer, exiting, log>>

QueueUnlock(c) ==
  /\ Alive /\ pc[c] = "stored"
  /\ warnMux' = NoThread
  /\ pc' = [pc EXCEPT ![c] = "idle"]
  /\ UNCHANGED <<warnDb, warnHead, warnTail, drops,
                 flags, sent, printer, exiting, log>>

-----------------------------------------------------------------------------
(* The print thread.                                                       *)

ThreadEnter ==
  /\ Alive /\ thread = "starting"
  /\ stlPrintfBackgroundActive' = TRUE
  /\ thread' = "test"
  /\ UNCHANGED <<ring, stlPrintThreadFlg, clients, WI, exiting, log>>

(* The unlocked look at the ring.                                          *)
ThreadTest ==
  /\ Alive /\ thread = "test"
  /\ thread' = IF LooksEmpty THEN "empty" ELSE "fetch"
  /\ UNCHANGED <<ring, flags, clients, WI, exiting, log>>

(* The ring was empty: stop if asked to, else wait and look again.         *)
ThreadEmpty ==
  /\ Alive /\ thread = "empty"
  /\ IF stlPrintThreadFlg = 2
     THEN stlPrintThreadFlg' = 0 /\ thread' = "gone"
     ELSE thread' = "test" /\ UNCHANGED stlPrintThreadFlg
  /\ UNCHANGED <<ring, stlPrintfBackgroundActive, clients, WI, exiting, log>>

ThreadFetch_NoClear ==                        \* mutant
  /\ Alive /\ thread = "fetch" /\ warnMux = NoThread
  /\ WI' = warnDb[warnTail]
  /\ thread' = "advance"
  /\ UNCHANGED <<ring, flags, clients, exiting, log>>

(* Copy the slot and clear it, all under warnMux.                          *)
ThreadFetch ==
  /\ Alive /\ thread = "fetch" /\ warnMux = NoThread
  /\ WI' = warnDb[warnTail]
  /\ warnDb' = [warnDb EXCEPT ![warnTail] = NoMsg]
  /\ thread' = "advance"
  /\ UNCHANGED <<warnHead, warnTail, warnMux, drops,
                 flags, clients, exiting, log>>

(* warnTail moves after the unlock.                                        *)
ThreadAdvance ==
  /\ Alive /\ thread = "advance"
  /\ warnTail' = Succ(warnTail)
  /\ thread' = "process"
  /\ UNCHANGED <<warnDb, warnHead, warnMux, drops,
                 flags, clients, WI, exiting, log>>

(* processWarnInfo returns at once for sMsg = NULL; it clears sMsg.        *)
ThreadProcess ==
  /\ Alive /\ thread = "process"
  /\ log' = IF WI = NoMsg THEN log ELSE Append(log, WI)
  /\ WI' = NoMsg
  /\ thread' = "test"
  /\ UNCHANGED <<ring, flags, clients, exiting>>

-----------------------------------------------------------------------------
(* The thread that starts the service and ends the process.                *)

stlPrintfThread ==
  /\ main = "run" /\ stlPrintThreadFlg = 0
  /\ stlPrintThreadFlg' = 1
  /\ warnDb' = [i \in Slots |-> NoMsg]
  /\ thread' = "starting"
  /\ UNCHANGED <<warnHead, warnTail, warnMux, drops,
                 stlPrintfBackgroundActive, clients, WI, exiting, log>>

(* exit() runs _stlPrintThreadAbort when it was registered.                *)
AbortSetFlag ==
  /\ main = "run" /\ thread # "none"
  /\ stlPrintThreadFlg' = 2
  /\ main' = "deactivate"
  /\ UNCHANGED <<ring, stlPrintfBackgroundActive, clients, printer, polls, log>>

AbortDeactivate ==
  /\ main = "deactivate"
  /\ stlPrintfBackgroundActive' = FALSE
  /\ main' = "poll"
  /\ UNCHANGED <<ring, stlPrintThreadFlg, clients, printer, polls, log>>

AbortPoll_NoCount ==                          \* mutant
  /\ main = "poll" /\ stlPrintThreadFlg = 0
  /\ main' = "exited"
  /\ UNCHANGED <<ring, flags, clients, printer, polls, log>>

AbortPoll ==
  /\ main = "poll" /\ polls < MaxPolls
  /\ IF stlPrintThreadFlg = 0
     THEN main' = "exited" /\ UNCHANGED polls
     ELSE polls' = polls + 1 /\ UNCHANGED main
  /\ UNCHANGED <<ring, flags, clients, printer, log>>

(* The handler gives up after MaxPolls polls.                              *)
AbortTimeout ==
  /\ main = "poll" /\ polls = MaxPolls
  /\ main' = "exited"
  /\ UNCHANGED <<ring, flags, clients, printer, polls, log>>

-----------------------------------------------------------------------------

ClientStep(c) ==
  \/ Printf(c) \/ ProcessDirect(c)
  \/ QueueLock(c) \/ QueueStore(c) \/ QueueUnlock(c)

ThreadStep ==
  \/ ThreadEnter \/ ThreadTest \/ ThreadEmpty
  \/ ThreadFetch \/ ThreadAdvance \/ ThreadProcess

AbortStep == AbortSetFlag \/ AbortDeactivate \/ AbortPoll \/ AbortTimeout

Next ==
  \/ \E c \in Clients : ClientStep(c)
  \/ ThreadStep
  \/ stlPrintfThread
  \/ AbortStep

Spec == Init /\ [][Next]_vars

(* Every thread keeps running once it is inside a call.  ThreadFetch and   *)
(* QueueLock wait for a pthread mutex: a waiting thread gets it in the end *)
(* (SF), which the scheduler gives threads that hold it only for a moment. *)
(* Nothing is assumed of when a caller prints or when the process exits.   *)
Fairness ==
  /\ WF_vars(ThreadEnter) /\ WF_vars(ThreadTest) /\ WF_vars(ThreadEmpty)
  /\ SF_vars(ThreadFetch) /\ WF_vars(ThreadAdvance) /\ WF_vars(ThreadProcess)
  /\ \A c \in Clients :
       /\ WF_vars(ProcessDirect(c)) /\ SF_vars(QueueLock(c))
       /\ WF_vars(QueueStore(c)) /\ WF_vars(QueueUnlock(c))
  /\ WF_vars(AbortDeactivate) /\ WF_vars(AbortPoll) /\ WF_vars(AbortTimeout)

(* Only the exiting thread is sure to run: the print thread may be stuck   *)
(* in a write and a caller may never come back.                            *)
ExitFairness ==
  WF_vars(AbortDeactivate) /\ WF_vars(AbortPoll) /\ WF_vars(AbortTimeout)

-----------------------------------------------------------------------------
(* Properties.                                                             *)

(* Type invariant of the service's variables.                              *)
TypeOK ==
  /\ warnDb \in [Slots -> Messages \cup {NoMsg}]
  /\ warnHead \in Slots /\ warnTail \in Slots
  /\ warnMux \in Clients \cup {NoThread}
  /\ printfDroppedMsgs \in Nat /\ dropped \subseteq Messages
  /\ stlPrintThreadFlg \in 0 .. 2
  /\ stlPrintfBackgroundActive \in BOOLEAN
  /\ pc \in [Clients -> {"idle", "direct", "queue", "locked", "stored"}]
  /\ sent \in [Clients -> 0 .. MaxMsgs]
  /\ thread \in {"none", "starting", "test", "empty", "fetch", "advance", "process", "gone"}
  /\ WI \in Messages \cup {NoMsg}
  /\ main \in {"run", "deactivate", "poll", "exited"}
  /\ polls \in 0 .. MaxPolls
  /\ log \in Seq(Messages)

(* Distance of a slot from the tail, going round.                          *)
Offset(i) == IF i < warnTail THEN i - warnTail + N ELSE i - warnTail

(* The slots that hold a message are exactly those from the tail up to the *)
(* head, except that the print thread clears the tail slot before it moves *)
(* the tail: the unlocked warnTail never makes a full slot look free or an *)
(* empty one look full, so no message is overwritten (and freed) unread    *)
(* and the thread never fetches an empty slot.                             *)
SlotsMatchIndexes ==
  \A i \in Slots :
    warnDb[i] # NoMsg <=>
      /\ Offset(i) < iUsed
      /\ ~(thread = "advance" /\ i = warnTail)

(* The head never catches up with the tail from behind: a full ring is     *)
(* never mistaken for an empty one.                                        *)
SlackKept == iUsed <= N - Slack

(* The ring: its indexes, its slots and its slack agree in every state the *)
(* threads can bring it into.                                              *)
RingIsWhole == TypeOK /\ SlotsMatchIndexes /\ SlackKept

(* The messages that are accepted and not written, oldest first.           *)
Held == IF WI = NoMsg THEN <<>> ELSE <<WI>>
Pending ==
  LET skip == IF thread = "advance" THEN 1 ELSE 0
  IN  Held \o [k \in 1 .. iUsed - skip |-> warnDb[(warnTail + skip + k - 1) % N]]

(* Every message a caller began to print is in exactly one place: with its *)
(* caller, waiting or written, or dropped; and what is dropped is counted. *)
InHand(m) == pc[m[1]] \in {"direct", "queue", "locked"} /\ m = Msg(m[1])
IsPending(m) == \E i \in DOMAIN Pending : Pending[i] = m
Written(m) == \E i \in DOMAIN log : log[i] = m
AtOnePlace(m) ==
  /\ m[2] <= sent[m[1]] <=> InHand(m) \/ IsPending(m) \/ Written(m) \/ m \in dropped
  /\ ~(IsPending(m) /\ Written(m))
  /\ InHand(m) => ~IsPending(m) /\ ~Written(m)
  /\ m \in dropped => ~InHand(m) /\ ~IsPending(m) /\ ~Written(m)
NothingLostOrDoubled ==
  /\ \A i, j \in DOMAIN Pending : Pending[i] = Pending[j] => i = j
  /\ \A i, j \in DOMAIN log : log[i] = log[j] => i = j
  /\ \A m \in Messages : AtOnePlace(m)
  /\ printfDroppedMsgs = Cardinality(dropped)

(* Until the process begins to exit, the messages of one caller are        *)
(* written in the order it printed them, although some go through the ring *)
(* and some (before the thread runs) do not.                               *)
CallerOrder ==
  main = "run" =>
    \A i, j \in DOMAIN log :
      i < j /\ log[i][1] = log[j][1] => log[i][2] < log[j][2]

(* What callers print is written once, or counted as dropped, and in the   *)
(* order of each caller.                                                   *)
EachOnceInOrder == NothingLostOrDoubled /\ CallerOrder

InRing(m) == \E i \in Slots : warnDb[i] = m

(* What the ring holds when the print thread next looks at it is written   *)
(* before that thread goes, whatever is printed meanwhile.  Left behind    *)
(* can only be what was stored while the process exits, or between the     *)
(* thread's look at an empty ring and its look at the stop flag: that gap  *)
(* is why the antecedent excludes thread = "empty".                        *)
FlushedBeforeGone ==
  \A m \in Messages :
    [](main = "run" /\ thread # "empty" /\ InRing(m)
         => [](thread = "gone" => Written(m)))

(* A message in the ring is written in the end, unless the print thread    *)
(* has gone or the process ends first.                                     *)
QueuedIsWritten ==
  Fairness =>
    \A m \in Messages :
      InRing(m) ~> (Written(m) \/ thread = "gone" \/ ~Alive)

(* The atexit handler comes to an end even when the print thread never     *)
(* does and no caller goes on.                                             *)
AbortEnds == ExitFairness => ((main = "deactivate") ~> (main = "exited"))

(* Everything the service waits for comes: writing what is queued, and the *)
(* end of the exit handler.                                                *)
PrintEnds == QueuedIsWritten /\ AbortEnds

-----------------------------------------------------------------------------
(* The ring and its thread implement the log service: the waiting messages *)
(* are Pending.                                                            *)
Service == INSTANCE LogService WITH
  Messages <- Messages, Limit <- N - Slack,
  waiting <- Pending, log <- log, rejected <- printfDroppedMsgs

ImplementsLogService == Service!Spec

=============================================================================
