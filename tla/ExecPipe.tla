------------------------------ MODULE ExecPipe ------------------------------
(***************************************************************************)
(* One call of stlExecPipe (stl_spawn.c, Linux): a child process writes to *)
(* two pipes, two threads (pipeTask) read them and call fxOut and fxErr.   *)
(* With iWait the caller waits for the child, sets iAbort, waits until     *)
(* iRun is 0 and frees what the threads use; without it each thread frees  *)
(* its own.  What is written is counted in chunks.  The child may leave a  *)
(* process behind that keeps its output open.                              *)
(***************************************************************************)
EXTENDS Integers, FiniteSets

CONSTANT MaxChunks      (* BOUND: chunks written to one stream             *)

ASSUME ExecPipeAssumption == MaxChunks \in Nat

Streams == {"out", "err"}             (* PTO and PTE                       *)

VARIABLES
  iWait,                              (* the argument                      *)
  epc, epRes,                         (* the caller and what it returns    *)
  child, heir,                        (* the child; what it left behind    *)
  written, inPipe, delivered,         (* per stream, chunks                *)
  wParent,                            (* the caller's write end is open    *)
  ppc, iRun, iAbort,                  (* per stream: pipeTask, its flags   *)
  frees,                              (* per stream: times it was freed    *)
  unborn,                             (* HISTORY: iRun was tested before   *)
                                      (* the thread had set it             *)
  touched                             (* HISTORY: streams whose data were  *)
                                      (* used after they were freed        *)

epPipes == <<written, inPipe, delivered, wParent>>
epTasks == <<ppc, iRun, iAbort, frees, unborn, touched>>
epVars == <<iWait, epc, epRes, child, heir, epPipes, epTasks>>

Each(v) == [s \in Streams |-> v]

EpInit ==
  /\ iWait \in BOOLEAN
  /\ epc = "pipes" /\ epRes = 0
  /\ child = "none" /\ heir = FALSE
  /\ written = Each(0) /\ inPipe = Each(0) /\ delivered = Each(0)
  /\ wParent = Each(FALSE)
  /\ ppc = Each("none") /\ iRun = Each(FALSE) /\ iAbort = Each(FALSE)
  /\ frees = Each(0)
  /\ unborn = {} /\ touched = {}

-----------------------------------------------------------------------------
(* The caller.                                                             *)

EpGoto(label) == epc' = label

MakePipes ==
  /\ epc = "pipes"
  /\ \/ epRes' = -1 /\ EpGoto("returned") /\ UNCHANGED wParent
     \/ wParent' = Each(TRUE) /\ EpGoto("fork") /\ UNCHANGED epRes
  /\ UNCHANGED <<iWait, child, heir, written, inPipe, delivered, epTasks>>

Fork ==
  /\ epc = "fork"
  /\ \/ epRes' = -2 /\ EpGoto("returned") /\ UNCHANGED child
     \/ child' = "runs" /\ EpGoto("start out") /\ UNCHANGED epRes
  /\ UNCHANGED <<iWait, heir, epPipes, epTasks>>

StartTasks ==
  /\ epc \in {"start out", "start err"}
  /\ LET s == IF epc = "start out" THEN "out" ELSE "err"
     IN  ppc' = [ppc EXCEPT ![s] = "new"]
  /\ EpGoto(IF epc = "start out" THEN "start err" ELSE IF iWait THEN "waitpid" ELSE "returned")
  /\ UNCHANGED <<iWait, epRes, child, heir, epPipes, iRun, iAbort, frees, unborn, touched>>

(* The exit status is what 99 or the program of the child ended with.      *)
WaitPid_NoHang ==                                          \* mutant
  /\ epc = "waitpid"
  /\ iAbort' = Each(TRUE)
  /\ EpGoto("poll out")
  /\ UNCHANGED <<iWait, epRes, child, heir, epPipes, ppc, iRun, frees, unborn, touched>>
WaitPid ==
  /\ epc = "waitpid" /\ child = "ended"
  /\ iAbort' = Each(TRUE)
  /\ EpGoto("poll out")
  /\ UNCHANGED <<iWait, epRes, child, heir, epPipes, ppc, iRun, frees, unborn, touched>>

Born(s) == ppc[s] \notin {"none", "new"}

(* iRun of PTO, and of PTE when the first is 0; else wait and test again.  *)
Poll_First(s) == ~iRun["out"]                              \* mutant
Poll(s) == ~iRun[s]

PollTasks ==
  /\ epc \in {"poll out", "poll err"}
  /\ LET s == IF epc = "poll out" THEN "out" ELSE "err"
     IN  /\ unborn' = IF Born(s) THEN unborn ELSE unborn \cup {s}
         /\ EpGoto(IF ~Poll(s) THEN "poll out"
                   ELSE IF epc = "poll out" THEN "poll err" ELSE "free")
  /\ UNCHANGED <<iWait, epRes, child, heir, epPipes, ppc, iRun, iAbort, frees, touched>>

FreeTasks ==
  /\ epc = "free"
  /\ frees' = [s \in Streams |-> frees[s] + 1]
  /\ EpGoto("returned")
  /\ UNCHANGED <<iWait, epRes, child, heir, epPipes, ppc, iRun, iAbort, unborn, touched>>

-----------------------------------------------------------------------------
(* The child and what it leaves behind.                                    *)

WriterAlive == child = "runs" \/ heir

ChildWrites(s) ==
  /\ WriterAlive /\ written[s] < MaxChunks
  /\ written' = [written EXCEPT ![s] = @ + 1]
  /\ inPipe' = [inPipe EXCEPT ![s] = @ + 1]
  /\ UNCHANGED <<iWait, epc, epRes, child, heir, delivered, wParent, epTasks>>

ChildEnds ==
  /\ \/ child = "runs" /\ child' = "ended" /\ heir' \in BOOLEAN
     \/ heir /\ heir' = FALSE /\ UNCHANGED child
  /\ UNCHANGED <<iWait, epc, epRes, epPipes, epTasks>>

-----------------------------------------------------------------------------
(* pipeTask.                                                               *)

PGoto(s, label) == ppc' = [ppc EXCEPT ![s] = label]
Touch(s) == touched' = IF frees[s] > 0 THEN touched \cup {s} ELSE touched

EnterTask(s) ==
  /\ ppc[s] = "new"
  /\ iRun' = [iRun EXCEPT ![s] = TRUE]
  /\ Touch(s)
  /\ PGoto(s, "close write")
  /\ UNCHANGED <<iWait, epc, epRes, child, heir, epPipes, iAbort, frees, unborn>>

CloseWrite_Not(s) ==                                       \* mutant
  /\ ppc[s] = "close write"
  /\ PGoto(s, "test")
  /\ UNCHANGED <<iWait, epc, epRes, child, heir, epPipes, iRun, iAbort, frees, unborn, touched>>
CloseWrite(s) ==
  /\ ppc[s] = "close write"
  /\ wParent' = [wParent EXCEPT ![s] = FALSE]
  /\ Touch(s)
  /\ PGoto(s, "test")
  /\ UNCHANGED <<iWait, epc, epRes, child, heir, written, inPipe, delivered, iRun, iAbort, frees, unborn>>

TestAbort(s) ==
  /\ ppc[s] = "test"
  /\ Touch(s)
  /\ PGoto(s, IF iAbort[s] THEN "close read" ELSE "read")
  /\ UNCHANGED <<iWait, epc, epRes, child, heir, epPipes, iRun, iAbort, frees, unborn>>

MoreToRead_Once(s) == FALSE                                \* mutant
MoreToRead(s) == inPipe[s] > 0

(* read returns what is in the pipe, and 0 when it is empty and nobody has *)
(* its write end open.                                                     *)
ReadPipe(s) ==
  /\ ppc[s] = "read"
  /\ \/ /\ MoreToRead(s)
        /\ \E n \in 1 .. inPipe[s] :
             /\ inPipe' = [inPipe EXCEPT ![s] = @ - n]
             /\ delivered' = [delivered EXCEPT ![s] = @ + n]
        /\ Touch(s)
        /\ PGoto(s, "test")
     \/ /\ ~MoreToRead(s) /\ ~wParent[s] /\ ~WriterAlive
        /\ PGoto(s, "close read")
        /\ UNCHANGED <<inPipe, delivered, touched>>
  /\ UNCHANGED <<iWait, epc, epRes, child, heir, written, wParent, iRun, iAbort, frees, unborn>>

LeaveTask(s) ==
  /\ ppc[s] = "close read"
  /\ iRun' = [iRun EXCEPT ![s] = FALSE]
  /\ Touch(s)
  /\ PGoto(s, "test wait")
  /\ UNCHANGED <<iWait, epc, epRes, child, heir, epPipes, iAbort, frees, unborn>>

FreesItself_Always == TRUE                                 \* mutant
FreesItself == ~iWait

(* iWait is tested after the caller may have freed it: what is read then   *)
(* is not known, and freed memory that holds 0 there is freed again.       *)
FreeOwn(s) ==
  /\ ppc[s] = "test wait"
  /\ \/ FreesItself /\ frees' = [frees EXCEPT ![s] = @ + 1]
     \/ ~FreesItself /\ UNCHANGED frees
     \/ frees[s] > 0 /\ frees' = [frees EXCEPT ![s] = @ + 1]
  /\ Touch(s)
  /\ PGoto(s, "gone")
  /\ UNCHANGED <<iWait, epc, epRes, child, heir, epPipes, iRun, iAbort, unborn>>

-----------------------------------------------------------------------------

Caller == MakePipes \/ Fork \/ StartTasks \/ WaitPid \/ PollTasks \/ FreeTasks

pipeTask(s) ==
  \/ EnterTask(s) \/ CloseWrite(s) \/ TestAbort(s)
  \/ ReadPipe(s) \/ LeaveTask(s) \/ FreeOwn(s)

EpNext ==
  \/ Caller \/ ChildEnds
  \/ \E s \in Streams : ChildWrites(s) \/ pipeTask(s)

EpSpec == EpInit /\ [][EpNext]_epVars

(* Threads go on; the child need not write or end.                         *)
EpFairness == WF_epVars(Caller) /\ \A s \in Streams : WF_epVars(pipeTask(s))

-----------------------------------------------------------------------------
(* Properties.                                                             *)

(* Type invariant.                                                         *)
EpTypeOK ==
  /\ iWait \in BOOLEAN /\ epRes \in -2 .. 0
  /\ epc \in {"pipes", "fork", "start out", "start err", "waitpid",
              "poll out", "poll err", "free", "returned"}
  /\ child \in {"none", "runs", "ended"} /\ heir \in BOOLEAN
  /\ \A f \in {written, inPipe, delivered} : f \in [Streams -> 0 .. MaxChunks]
  /\ wParent \in [Streams -> BOOLEAN]
  /\ ppc \in [Streams -> {"none", "new", "close write", "test", "read",
                          "close read", "test wait", "gone"}]
  /\ iRun \in [Streams -> BOOLEAN] /\ iAbort \in [Streams -> BOOLEAN]
  /\ frees \in [Streams -> 0 .. 2]
  /\ unborn \subseteq Streams /\ touched \subseteq Streams

(* The functions get all that was written, in every order of child and     *)
(* threads; with iWait, only if the thread had read it before the caller   *)
(* had seen the child's end: iAbort leaves the rest in the pipe.           *)
AllDelivered ==
  \A s \in Streams :
    ppc[s] \in {"close read", "test wait", "gone"} /\ ~iAbort[s]
      => delivered[s] = written[s]

(* What a thread uses is freed while it may still use it only when the     *)
(* caller tested iRun before the thread had set it.                        *)
FreedInUse ==
  \A s \in Streams :
    frees[s] > 0 => ppc[s] \in {"test wait", "gone"} \/ s \in unborn

(* What a thread uses is freed once, by the thread or by the caller, and   *)
(* twice only when the thread has read iWait in what was freed already.    *)
FreedOnce ==
  epc = "returned" =>
    \A s \in Streams :
      ppc[s] = "gone" => frees[s] = 1 \/ (iWait /\ frees[s] = 2 /\ s \in touched)

(* stlExecPipe with iWait does not return before the child has ended and   *)
(* its threads have stopped calling the functions, unless they had not yet *)
(* begun.                                                                  *)
ReturnsAfterChild ==
  iWait /\ epc = "returned" /\ epRes = 0
    => child = "ended" /\ \A s \in Streams : ppc[s] \in {"test wait", "gone"} \/ s \in unborn

(* When nobody writes any more the call returns and the threads end.       *)
PipesEnd ==
  EpFairness =>
    [](child = "ended" /\ ~heir => <>(epc = "returned" /\ \A s \in Streams : ppc[s] = "gone"))

(* All of it: what the child writes comes through, and memory is given     *)
(* back once and not too early.                                            *)
PipesKept ==
  /\ EpTypeOK /\ AllDelivered /\ FreedInUse
  /\ FreedOnce /\ ReturnsAfterChild
=============================================================================
