----------------------------- MODULE Flow_proofs -----------------------------
(***************************************************************************)
(* Proofs that bytes come through: from a child process to the functions   *)
(* of stlExecPipe (ExecPipe), from one connection to the other that it is  *)
(* tied to (Relay), and from a Modbus device to the thread that asked it   *)
(* (Modbus).  For every number of chunks, bytes, threads, requests and     *)
(* connections and every length of the buffers.                            *)
(***************************************************************************)
EXTENDS ExecPipe, Relay, Modbus, SequenceTheorems, TLAPS

-----------------------------------------------------------------------------
(* Pipes to a child process.  The inductive invariant says who has done    *)
(* what at each label of the caller and of the two threads.                *)

Reading == {"close write", "test", "read", "close read"}
Closed == {"close read", "test wait", "gone"}
Over == {"test wait", "gone"}

(* stlExecPipe has waited for the child and returned.                      *)
Waited == iWait /\ epc = "returned" /\ epRes = 0

PipeTypes ==
  /\ iWait \in BOOLEAN /\ epRes \in -2 .. 0
  /\ epc \in {"pipes", "fork", "start out", "start err", "waitpid",
              "poll out", "poll err", "free", "returned"}
  /\ child \in {"none", "runs", "ended"} /\ heir \in BOOLEAN
  /\ wParent \in [Streams -> BOOLEAN]
  /\ ppc \in [Streams -> {"none", "new", "close write", "test", "read",
                          "close read", "test wait", "gone"}]
  /\ iRun \in [Streams -> BOOLEAN] /\ iAbort \in [Streams -> BOOLEAN]
  /\ unborn \subseteq Streams /\ touched \subseteq Streams

ChunksAddUp ==
  /\ written \in [Streams -> 0 .. MaxChunks]
  /\ inPipe \in [Streams -> 0 .. MaxChunks]
  /\ delivered \in [Streams -> 0 .. MaxChunks]
  /\ \A s \in Streams : written[s] = inPipe[s] + delivered[s]

(* A thread exists only when the fork went well, and iRun says whether it  *)
(* is at work.                                                             *)
TasksStarted ==
  /\ \A s \in Streams : iRun[s] <=> ppc[s] \in Reading
  /\ \A s \in Streams : ppc[s] # "none" => epc \notin {"pipes", "fork", "start out"}
  /\ epc = "start err" => ppc["err"] = "none"
  /\ epc # "returned" => epRes = 0
  /\ epRes # 0 => \A s \in Streams : ppc[s] = "none"
  /\ epc \in {"waitpid", "poll out", "poll err", "free"} => iWait

(* A thread that closed its pipe without iAbort had read it empty, and no  *)
(* process is left that could write.                                       *)
ReadEmpty ==
  \A s \in Streams : ppc[s] \in Closed /\ ~iAbort[s] => inPipe[s] = 0 /\ ~WriterAlive

(* What the caller has waited for at each of its labels.                   *)
Passed(s) == ppc[s] \in Over \/ s \in unborn
WaitedFor ==
  /\ epc \in {"poll out", "poll err", "free"} \/ Waited => child = "ended"
  /\ epc \in {"poll err", "free"} \/ Waited => Passed("out")
  /\ epc = "free" \/ Waited => Passed("err")

(* Who has freed what a thread uses.                                       *)
FreedByOne ==
  /\ frees \in [Streams -> 0 .. 2]
  /\ \A s \in Streams :
       /\ ~Waited /\ (iWait \/ ppc[s] # "gone") => frees[s] = 0
       /\ ~iWait /\ ppc[s] = "gone" => frees[s] = 1
       /\ Waited /\ ppc[s] # "gone" => frees[s] = 1
       /\ Waited /\ ppc[s] = "gone" => frees[s] = 1 \/ (frees[s] = 2 /\ s \in touched)

EpInv == PipeTypes /\ ChunksAddUp /\ TasksStarted /\ ReadEmpty /\ WaitedFor /\ FreedByOne

(* What stlExecPipe returns when it fails.                                 *)
LEMMA ErrorCodes == -1 \in -2 .. 0 /\ -1 # 0 /\ -2 \in -2 .. 0 /\ -2 # 0
  OBVIOUS

(* Every step keeps each part of the invariant.                            *)
LEMMA PipeTypesNext ==
  ASSUME EpInv, [EpNext]_epVars
  PROVE  PipeTypes'
<1>0. PipeTypes
  BY ExecPipeAssumption DEF EpInv, PipeTypes, ChunksAddUp
<1>1. CASE MakePipes
  <2>1. ASSUME epRes' \in -2 .. 0, epRes' # 0, epc' = "returned", epc = "pipes",
               UNCHANGED wParent, UNCHANGED <<iWait, child, heir, written, inPipe, delivered, epTasks>>
        PROVE  PipeTypes'
    BY <1>0, <2>1 DEF epTasks, Streams, PipeTypes
  <2>2. ASSUME wParent' = Each(TRUE), epc' = "fork", epc = "pipes",
               UNCHANGED epRes, UNCHANGED <<iWait, child, heir, written, inPipe, delivered, epTasks>>
        PROVE  PipeTypes'
    BY <1>0, <2>2 DEF epTasks, Each, Streams, PipeTypes
  <2>3. QED
    BY <1>1, <2>1, <2>2, ErrorCodes, Zenon DEF MakePipes, EpGoto
<1>2. CASE Fork
  <2>1. ASSUME epRes' \in -2 .. 0, epRes' # 0, epc' = "returned", epc = "fork",
               UNCHANGED child, UNCHANGED <<iWait, heir, epPipes, epTasks>>
        PROVE  PipeTypes'
    BY <1>0, <2>1 DEF epPipes, epTasks, Streams, PipeTypes
  <2>2. ASSUME child' = "runs", epc' = "start out", epc = "fork",
               UNCHANGED epRes, UNCHANGED <<iWait, heir, epPipes, epTasks>>
        PROVE  PipeTypes'
    BY <1>0, <2>2 DEF epPipes, epTasks, Streams, PipeTypes
  <2>3. QED
    BY <1>2, <2>1, <2>2, ErrorCodes, Zenon DEF Fork, EpGoto
<1>3. CASE StartTasks
  BY <1>0, <1>3 DEF StartTasks, EpGoto, epPipes, epTasks, Each, Streams, PipeTypes
<1>4. CASE WaitPid
  BY <1>0, <1>4 DEF WaitPid, EpGoto, epPipes, epTasks, Each, Streams, PipeTypes
<1>5. CASE PollTasks
  BY <1>0, <1>5 DEF PollTasks, EpGoto, Poll, Born, epPipes, epTasks, Each, Streams, PipeTypes
<1>6. CASE FreeTasks
  BY <1>0, <1>6 DEF FreeTasks, EpGoto, epPipes, epTasks, Each, Streams, PipeTypes
<1>7. CASE ChildEnds
  BY <1>0, <1>7 DEF ChildEnds, epPipes, epTasks, Each, Streams, PipeTypes
<1>8. ASSUME NEW s \in Streams, ChildWrites(s) PROVE PipeTypes'
  BY <1>0, <1>8 DEF ChildWrites, epPipes, epTasks, Each, Streams, PipeTypes
<1>9. ASSUME NEW s \in Streams, EnterTask(s) PROVE PipeTypes'
  BY <1>0, <1>9 DEF EnterTask, Touch, PGoto, epPipes, epTasks, Each, Streams, PipeTypes
<1>10. ASSUME NEW s \in Streams, CloseWrite(s) PROVE PipeTypes'
  BY <1>0, <1>10 DEF CloseWrite, Touch, PGoto, epPipes, epTasks, Each, Streams, PipeTypes
<1>11. ASSUME NEW s \in Streams, TestAbort(s) PROVE PipeTypes'
  BY <1>0, <1>11 DEF TestAbort, Touch, PGoto, epPipes, epTasks, Each, Streams, PipeTypes
<1>12. ASSUME NEW s \in Streams, ReadPipe(s) PROVE PipeTypes'
  <2>1. ASSUME NEW n \in 1 .. inPipe[s],
               inPipe' = [inPipe EXCEPT ![s] = @ - n],
               delivered' = [delivered EXCEPT ![s] = @ + n],
               Touch(s), PGoto(s, "test"), ppc[s] = "read",
               UNCHANGED <<iWait, epc, epRes, child, heir, written, wParent, iRun, iAbort, frees, unborn>>
        PROVE  PipeTypes'
    BY <1>0, <2>1 DEF Touch, PGoto, Streams, PipeTypes
  <2>2. ASSUME ~(inPipe[s] > 0), ~WriterAlive, PGoto(s, "close read"), ppc[s] = "read",
               UNCHANGED <<iWait, epc, epRes, child, heir, epPipes, iRun, iAbort, frees, unborn, touched>>
        PROVE  PipeTypes'
    BY <1>0, <2>2 DEF epPipes, PGoto, Streams, PipeTypes
  <2>3. QED
    BY <1>12, <2>1, <2>2 DEF ReadPipe, MoreToRead, epPipes
<1>13. ASSUME NEW s \in Streams, LeaveTask(s) PROVE PipeTypes'
  BY <1>0, <1>13 DEF LeaveTask, Touch, PGoto, epPipes, epTasks, Each, Streams, PipeTypes
<1>14. ASSUME NEW s \in Streams, FreeOwn(s) PROVE PipeTypes'
  BY <1>0, <1>14 DEF FreeOwn, Touch, PGoto, FreesItself, epPipes, epTasks, Each, Streams, PipeTypes
<1>15. CASE UNCHANGED epVars
  BY <1>0, <1>15 DEF epVars, PipeTypes, epPipes, epTasks, Each, Streams
<1>16. QED
  BY <1>1, <1>2, <1>3, <1>4, <1>5, <1>6, <1>7, <1>8, <1>9, <1>10, <1>11, <1>12, <1>13, <1>14, <1>15 DEF EpNext, Caller, pipeTask

(* What was written is in the pipe or was delivered.                       *)
LEMMA ChunksNext ==
  ASSUME EpInv, [EpNext]_epVars
  PROVE  ChunksAddUp'
<1>0. ChunksAddUp /\ MaxChunks \in Nat
  BY ExecPipeAssumption DEF EpInv, PipeTypes, ChunksAddUp
<1>1. CASE MakePipes
  <2>1. ASSUME epRes' \in -2 .. 0, epRes' # 0, epc' = "returned", epc = "pipes",
               UNCHANGED wParent, UNCHANGED <<iWait, child, heir, written, inPipe, delivered, epTasks>>
        PROVE  ChunksAddUp'
    BY <1>0, <2>1 DEF epTasks, Streams, ChunksAddUp
  <2>2. ASSUME wParent' = Each(TRUE), epc' = "fork", epc = "pipes",
               UNCHANGED epRes, UNCHANGED <<iWait, child, heir, written, inPipe, delivered, epTasks>>
        PROVE  ChunksAddUp'
    BY <1>0, <2>2 DEF epTasks, Each, Streams, ChunksAddUp
  <2>3. QED
    BY <1>1, <2>1, <2>2, ErrorCodes, Zenon DEF MakePipes, EpGoto
<1>2. CASE Fork
  <2>1. ASSUME epRes' \in -2 .. 0, epRes' # 0, epc' = "returned", epc = "fork",
               UNCHANGED child, UNCHANGED <<iWait, heir, epPipes, epTasks>>
        PROVE  ChunksAddUp'
    BY <1>0, <2>1 DEF epPipes, epTasks, Streams, ChunksAddUp
  <2>2. ASSUME child' = "runs", epc' = "start out", epc = "fork",
               UNCHANGED epRes, UNCHANGED <<iWait, heir, epPipes, epTasks>>
        PROVE  ChunksAddUp'
    BY <1>0, <2>2 DEF epPipes, epTasks, Streams, ChunksAddUp
  <2>3. QED
    BY <1>2, <2>1, <2>2, ErrorCodes, Zenon DEF Fork, EpGoto
<1>3. CASE StartTasks
  BY <1>0, <1>3 DEF StartTasks, EpGoto, epPipes, epTasks, Each, Streams, ChunksAddUp
<1>4. CASE WaitPid
  BY <1>0, <1>4 DEF WaitPid, EpGoto, epPipes, epTasks, Each, Streams, ChunksAddUp
<1>5. CASE PollTasks
  BY <1>0, <1>5 DEF PollTasks, EpGoto, Poll, Born, epPipes, epTasks, Each, Streams, ChunksAddUp
<1>6. CASE FreeTasks
  BY <1>0, <1>6 DEF FreeTasks, EpGoto, epPipes, epTasks, Each, Streams, ChunksAddUp
<1>7. CASE ChildEnds
  BY <1>0, <1>7 DEF ChildEnds, epPipes, epTasks, Each, Streams, ChunksAddUp
<1>8. ASSUME NEW s \in Streams, ChildWrites(s) PROVE ChunksAddUp'
  BY <1>0, <1>8 DEF ChildWrites, epPipes, epTasks, Each, Streams, ChunksAddUp
<1>9. ASSUME NEW s \in Streams, EnterTask(s) PROVE ChunksAddUp'
  BY <1>0, <1>9 DEF EnterTask, Touch, PGoto, epPipes, epTasks, Each, Streams, ChunksAddUp
<1>10. ASSUME NEW s \in Streams, CloseWrite(s) PROVE ChunksAddUp'
  BY <1>0, <1>10 DEF CloseWrite, Touch, PGoto, epPipes, epTasks, Each, Streams, ChunksAddUp
<1>11. ASSUME NEW s \in Streams, TestAbort(s) PROVE ChunksAddUp'
  BY <1>0, <1>11 DEF TestAbort, Touch, PGoto, epPipes, epTasks, Each, Streams, ChunksAddUp
<1>12. ASSUME NEW s \in Streams, ReadPipe(s) PROVE ChunksAddUp'
  <2>1. ASSUME NEW n \in 1 .. inPipe[s],
               inPipe' = [inPipe EXCEPT ![s] = @ - n],
               delivered' = [delivered EXCEPT ![s] = @ + n],
               Touch(s), PGoto(s, "test"), ppc[s] = "read",
               UNCHANGED <<iWait, epc, epRes, child, heir, written, wParent, iRun, iAbort, frees, unborn>>
        PROVE  ChunksAddUp'
    BY <1>0, <2>1 DEF Touch, PGoto, Streams, ChunksAddUp
  <2>2. ASSUME ~(inPipe[s] > 0), ~WriterAlive, PGoto(s, "close read"), ppc[s] = "read",
               UNCHANGED <<iWait, epc, epRes, child, heir, epPipes, iRun, iAbort, frees, unborn, touched>>
        PROVE  ChunksAddUp'
    BY <1>0, <2>2 DEF epPipes, PGoto, Streams, ChunksAddUp
  <2>3. QED
    BY <1>12, <2>1, <2>2 DEF ReadPipe, MoreToRead, epPipes
<1>13. ASSUME NEW s \in Streams, LeaveTask(s) PROVE ChunksAddUp'
  BY <1>0, <1>13 DEF LeaveTask, Touch, PGoto, epPipes, epTasks, Each, Streams, ChunksAddUp
<1>14. ASSUME NEW s \in Streams, FreeOwn(s) PROVE ChunksAddUp'
  BY <1>0, <1>14 DEF FreeOwn, Touch, PGoto, FreesItself, epPipes, epTasks, Each, Streams, ChunksAddUp
<1>15. CASE UNCHANGED epVars
  BY <1>0, <1>15 DEF epVars, ChunksAddUp, epPipes, epTasks, Each, Streams
<1>16. QED
  BY <1>1, <1>2, <1>3, <1>4, <1>5, <1>6, <1>7, <1>8, <1>9, <1>10, <1>11, <1>12, <1>13, <1>14, <1>15 DEF EpNext, Caller, pipeTask

(* Which threads there are.                                                *)
LEMMA StartedNext ==
  ASSUME EpInv, [EpNext]_epVars
  PROVE  TasksStarted'
<1>0. TasksStarted /\ PipeTypes
  BY ExecPipeAssumption DEF EpInv, PipeTypes, ChunksAddUp
<1>1. CASE MakePipes
  <2>1. ASSUME epRes' \in -2 .. 0, epRes' # 0, epc' = "returned", epc = "pipes",
               UNCHANGED wParent, UNCHANGED <<iWait, child, heir, written, inPipe, delivered, epTasks>>
        PROVE  TasksStarted'
    BY <1>0, <2>1 DEF epTasks, Streams, TasksStarted, PipeTypes, Reading
  <2>2. ASSUME wParent' = Each(TRUE), epc' = "fork", epc = "pipes",
               UNCHANGED epRes, UNCHANGED <<iWait, child, heir, written, inPipe, delivered, epTasks>>
        PROVE  TasksStarted'
    BY <1>0, <2>2 DEF epTasks, Each, Streams, TasksStarted, PipeTypes, Reading
  <2>3. QED
    BY <1>1, <2>1, <2>2, ErrorCodes, Zenon DEF MakePipes, EpGoto
<1>2. CASE Fork
  <2>1. ASSUME epRes' \in -2 .. 0, epRes' # 0, epc' = "returned", epc = "fork",
               UNCHANGED child, UNCHANGED <<iWait, heir, epPipes, epTasks>>
        PROVE  TasksStarted'
    BY <1>0, <2>1 DEF epPipes, epTasks, Streams, TasksStarted, PipeTypes, Reading
  <2>2. ASSUME child' = "runs", epc' = "start out", epc = "fork",
               UNCHANGED epRes, UNCHANGED <<iWait, heir, epPipes, epTasks>>
        PROVE  TasksStarted'
    BY <1>0, <2>2 DEF epPipes, epTasks, Streams, TasksStarted, PipeTypes, Reading
  <2>3. QED
    BY <1>2, <2>1, <2>2, ErrorCodes, Zenon DEF Fork, EpGoto
<1>3. CASE StartTasks
  BY <1>0, <1>3 DEF StartTasks, EpGoto, epPipes, epTasks, Each, Streams, TasksStarted, PipeTypes, Reading
<1>4. CASE WaitPid
  BY <1>0, <1>4 DEF WaitPid, EpGoto, epPipes, epTasks, Each, Streams, TasksStarted, PipeTypes, Reading
<1>5. CASE PollTasks
  BY <1>0, <1>5 DEF PollTasks, EpGoto, Poll, Born, epPipes, epTasks, Each, Streams, TasksStarted, PipeTypes, Reading
<1>6. CASE FreeTasks
  BY <1>0, <1>6 DEF FreeTasks, EpGoto, epPipes, epTasks, Each, Streams, TasksStarted, PipeTypes, Reading
<1>7. CASE ChildEnds
  BY <1>0, <1>7 DEF ChildEnds, epPipes, epTasks, Each, Streams, TasksStarted, PipeTypes, Reading
<1>8. ASSUME NEW s \in Streams, ChildWrites(s) PROVE TasksStarted'
  BY <1>0, <1>8 DEF ChildWrites, epPipes, epTasks, Each, Streams, TasksStarted, PipeTypes, Reading
<1>9. ASSUME NEW s \in Streams, EnterTask(s) PROVE TasksStarted'
  BY <1>0, <1>9 DEF EnterTask, Touch, PGoto, epPipes, epTasks, Each, Streams, TasksStarted, PipeTypes, Reading
<1>10. ASSUME NEW s \in Streams, CloseWrite(s) PROVE TasksStarted'
  BY <1>0, <1>10 DEF CloseWrite, Touch, PGoto, epPipes, epTasks, Each, Streams, TasksStarted, PipeTypes, Reading
<1>11. ASSUME NEW s \in Streams, TestAbort(s) PROVE TasksStarted'
  BY <1>0, <1>11 DEF TestAbort, Touch, PGoto, epPipes, epTasks, Each, Streams, TasksStarted, PipeTypes, Reading
<1>12. ASSUME NEW s \in Streams, ReadPipe(s) PROVE TasksStarted'
  <2>1. ASSUME NEW n \in 1 .. inPipe[s],
               inPipe' = [inPipe EXCEPT ![s] = @ - n],
               delivered' = [delivered EXCEPT ![s] = @ + n],
               Touch(s), PGoto(s, "test"), ppc[s] = "read",
               UNCHANGED <<iWait, epc, epRes, child, heir, written, wParent, iRun, iAbort, frees, unborn>>
        PROVE  TasksStarted'
    BY <1>0, <2>1 DEF Touch, PGoto, Streams, TasksStarted, PipeTypes, Reading
  <2>2. ASSUME ~(inPipe[s] > 0), ~WriterAlive, PGoto(s, "close read"), ppc[s] = "read",
               UNCHANGED <<iWait, epc, epRes, child, heir, epPipes, iRun, iAbort, frees, unborn, touched>>
        PROVE  TasksStarted'
    BY <1>0, <2>2 DEF epPipes, PGoto, Streams, TasksStarted, PipeTypes, Reading
  <2>3. QED
    BY <1>12, <2>1, <2>2 DEF ReadPipe, MoreToRead, epPipes
<1>13. ASSUME NEW s \in Streams, LeaveTask(s) PROVE TasksStarted'
  BY <1>0, <1>13 DEF LeaveTask, Touch, PGoto, epPipes, epTasks, Each, Streams, TasksStarted, PipeTypes, Reading
<1>14. ASSUME NEW s \in Streams, FreeOwn(s) PROVE TasksStarted'
  BY <1>0, <1>14 DEF FreeOwn, Touch, PGoto, FreesItself, epPipes, epTasks, Each, Streams, TasksStarted, PipeTypes, Reading
<1>15. CASE UNCHANGED epVars
  BY <1>0, <1>15 DEF epVars, TasksStarted, PipeTypes, Reading, epPipes, epTasks, Each, Streams
<1>16. QED
  BY <1>1, <1>2, <1>3, <1>4, <1>5, <1>6, <1>7, <1>8, <1>9, <1>10, <1>11, <1>12, <1>13, <1>14, <1>15 DEF EpNext, Caller, pipeTask

(* Who closed an empty pipe.                                               *)
LEMMA EmptyNext ==
  ASSUME EpInv, [EpNext]_epVars
  PROVE  ReadEmpty'
<1>0. ReadEmpty /\ TasksStarted /\ PipeTypes /\ ChunksAddUp /\ MaxChunks \in Nat
  BY ExecPipeAssumption DEF EpInv, PipeTypes, ChunksAddUp
<1>1. CASE MakePipes
  <2>1. ASSUME epRes' \in -2 .. 0, epRes' # 0, epc' = "returned", epc = "pipes",
               UNCHANGED wParent, UNCHANGED <<iWait, child, heir, written, inPipe, delivered, epTasks>>
        PROVE  ReadEmpty'
    BY <1>0, <2>1 DEF epTasks, Streams, ReadEmpty, TasksStarted, ChunksAddUp, PipeTypes, WriterAlive, Closed
  <2>2. ASSUME wParent' = Each(TRUE), epc' = "fork", epc = "pipes",
               UNCHANGED epRes, UNCHANGED <<iWait, child, heir, written, inPipe, delivered, epTasks>>
        PROVE  ReadEmpty'
    BY <1>0, <2>2 DEF epTasks, Each, Streams, ReadEmpty, TasksStarted, ChunksAddUp, PipeTypes, WriterAlive, Closed
  <2>3. QED
    BY <1>1, <2>1, <2>2, ErrorCodes, Zenon DEF MakePipes, EpGoto
<1>2. CASE Fork
  <2>1. ASSUME epRes' \in -2 .. 0, epRes' # 0, epc' = "returned", epc = "fork",
               UNCHANGED child, UNCHANGED <<iWait, heir, epPipes, epTasks>>
        PROVE  ReadEmpty'
    BY <1>0, <2>1 DEF epPipes, epTasks, Streams, ReadEmpty, TasksStarted, ChunksAddUp, PipeTypes, WriterAlive, Closed
  <2>2. ASSUME child' = "runs", epc' = "start out", epc = "fork",
               UNCHANGED epRes, UNCHANGED <<iWait, heir, epPipes, epTasks>>
        PROVE  ReadEmpty'
    BY <1>0, <2>2 DEF epPipes, epTasks, Streams, ReadEmpty, TasksStarted, ChunksAddUp, PipeTypes, WriterAlive, Closed
  <2>3. QED
    BY <1>2, <2>1, <2>2, ErrorCodes, Zenon DEF Fork, EpGoto
<1>3. CASE StartTasks
  BY <1>0, <1>3 DEF StartTasks, EpGoto, epPipes, epTasks, Each, Streams, ReadEmpty, TasksStarted, ChunksAddUp, PipeTypes, WriterAlive, Closed
<1>4. CASE WaitPid
  BY <1>0, <1>4 DEF WaitPid, EpGoto, epPipes, epTasks, Each, Streams, ReadEmpty, TasksStarted, ChunksAddUp, PipeTypes, WriterAlive, Closed
<1>5. CASE PollTasks
  BY <1>0, <1>5 DEF PollTasks, EpGoto, Poll, Born, epPipes, epTasks, Each, Streams, ReadEmpty, TasksStarted, ChunksAddUp, PipeTypes, WriterAlive, Closed
<1>6. CASE FreeTasks
  BY <1>0, <1>6 DEF FreeTasks, EpGoto, epPipes, epTasks, Each, Streams, ReadEmpty, TasksStarted, ChunksAddUp, PipeTypes, WriterAlive, Closed
<1>7. CASE ChildEnds
  BY <1>0, <1>7 DEF ChildEnds, epPipes, epTasks, Each, Streams, ReadEmpty, TasksStarted, ChunksAddUp, PipeTypes, WriterAlive, Closed
<1>8. ASSUME NEW s \in Streams, ChildWrites(s) PROVE ReadEmpty'
  BY <1>0, <1>8 DEF ChildWrites, epPipes, epTasks, Each, Streams, ReadEmpty, TasksStarted, ChunksAddUp, PipeTypes, WriterAlive, Closed
<1>9. ASSUME NEW s \in Streams, EnterTask(s) PROVE ReadEmpty'
  BY <1>0, <1>9 DEF EnterTask, Touch, PGoto, epPipes, epTasks, Each, Streams, ReadEmpty, TasksStarted, ChunksAddUp, PipeTypes, WriterAlive, Closed
<1>10. ASSUME NEW s \in Streams, CloseWrite(s) PROVE ReadEmpty'
  BY <1>0, <1>10 DEF CloseWrite, Touch, PGoto, epPipes, epTasks, Each, Streams, ReadEmpty, TasksStarted, ChunksAddUp, PipeTypes, WriterAlive, Closed
<1>11. ASSUME NEW s \in Streams, TestAbort(s) PROVE ReadEmpty'
  BY <1>0, <1>11 DEF TestAbort, Touch, PGoto, epPipes, epTasks, Each, Streams, ReadEmpty, TasksStarted, ChunksAddUp, PipeTypes, WriterAlive, Closed
<1>12. ASSUME NEW s \in Streams, ReadPipe(s) PROVE ReadEmpty'
  <2>1. ASSUME NEW n \in 1 .. inPipe[s],
               inPipe' = [inPipe EXCEPT ![s] = @ - n],
               delivered' = [delivered EXCEPT ![s] = @ + n],
               Touch(s), PGoto(s, "test"), ppc[s] = "read",
               UNCHANGED <<iWait, epc, epRes, child, heir, written, wParent, iRun, iAbort, frees, unborn>>
        PROVE  ReadEmpty'
    BY <1>0, <2>1 DEF Touch, PGoto, Streams, ReadEmpty, TasksStarted, ChunksAddUp, PipeTypes, WriterAlive, Closed
  <2>2. ASSUME ~(inPipe[s] > 0), ~WriterAlive, PGoto(s, "close read"), ppc[s] = "read",
               UNCHANGED <<iWait, epc, epRes, child, heir, epPipes, iRun, iAbort, frees, unborn, touched>>
        PROVE  ReadEmpty'
    <3>0. inPipe[s] \in 0 .. MaxChunks
      BY <1>0 DEF ChunksAddUp
    <3>1. inPipe[s] = 0 /\ UNCHANGED inPipe /\ UNCHANGED iAbort
      <4>1. inPipe[s] = 0
        <5>1. ~(inPipe[s] > 0)
          BY <2>2, Zenon
        <5>2. QED
          BY ExecPipeAssumption, <3>0, <5>1
      <4>2. UNCHANGED inPipe /\ UNCHANGED iAbort
        BY <2>2 DEF epPipes
      <4>3. QED
        BY <4>1, <4>2
    <3>2. \A r \in Streams : r # s => ppc'[r] = ppc[r]
      BY <1>0, <2>2 DEF PGoto, PipeTypes
    <3>4. ~WriterAlive'
      BY <2>2 DEF WriterAlive
    <3>3. QED
      BY <1>0, <2>2, <3>1, <3>2, <3>4 DEF ReadEmpty
  <2>3. QED
    BY <1>12, <2>1, <2>2 DEF ReadPipe, MoreToRead, epPipes
<1>13. ASSUME NEW s \in Streams, LeaveTask(s) PROVE ReadEmpty'
  BY <1>0, <1>13 DEF LeaveTask, Touch, PGoto, epPipes, epTasks, Each, Streams, ReadEmpty, TasksStarted, ChunksAddUp, PipeTypes, WriterAlive, Closed
<1>14. ASSUME NEW s \in Streams, FreeOwn(s) PROVE ReadEmpty'
  BY <1>0, <1>14 DEF FreeOwn, Touch, PGoto, FreesItself, epPipes, epTasks, Each, Streams, ReadEmpty, TasksStarted, ChunksAddUp, PipeTypes, WriterAlive, Closed
<1>15. CASE UNCHANGED epVars
  BY <1>0, <1>15 DEF epVars, ReadEmpty, TasksStarted, ChunksAddUp, PipeTypes, WriterAlive, Closed, epPipes, epTasks, Each, Streams
<1>16. QED
  BY <1>1, <1>2, <1>3, <1>4, <1>5, <1>6, <1>7, <1>8, <1>9, <1>10, <1>11, <1>12, <1>13, <1>14, <1>15 DEF EpNext, Caller, pipeTask

(* What the caller has waited for.                                         *)
LEMMA WaitedNext ==
  ASSUME EpInv, [EpNext]_epVars
  PROVE  WaitedFor'
<1>0. WaitedFor /\ TasksStarted /\ PipeTypes
  BY ExecPipeAssumption DEF EpInv, PipeTypes, ChunksAddUp
<1>1. CASE MakePipes
  <2>1. ASSUME epRes' \in -2 .. 0, epRes' # 0, epc' = "returned", epc = "pipes",
               UNCHANGED wParent, UNCHANGED <<iWait, child, heir, written, inPipe, delivered, epTasks>>
        PROVE  WaitedFor'
    BY <1>0, <2>1 DEF epTasks, Streams, WaitedFor, Waited, Passed, Over, TasksStarted, PipeTypes, Reading
  <2>2. ASSUME wParent' = Each(TRUE), epc' = "fork", epc = "pipes",
               UNCHANGED epRes, UNCHANGED <<iWait, child, heir, written, inPipe, delivered, epTasks>>
        PROVE  WaitedFor'
    BY <1>0, <2>2 DEF epTasks, Each, Streams, WaitedFor, Waited, Passed, Over, TasksStarted, PipeTypes, Reading
  <2>3. QED
    BY <1>1, <2>1, <2>2, ErrorCodes, Zenon DEF MakePipes, EpGoto
<1>2. CASE Fork
  <2>1. ASSUME epRes' \in -2 .. 0, epRes' # 0, epc' = "returned", epc = "fork",
               UNCHANGED child, UNCHANGED <<iWait, heir, epPipes, epTasks>>
        PROVE  WaitedFor'
    BY <1>0, <2>1 DEF epPipes, epTasks, Streams, WaitedFor, Waited, Passed, Over, TasksStarted, PipeTypes, Reading
  <2>2. ASSUME child' = "runs", epc' = "start out", epc = "fork",
               UNCHANGED epRes, UNCHANGED <<iWait, heir, epPipes, epTasks>>
        PROVE  WaitedFor'
    BY <1>0, <2>2 DEF epPipes, epTasks, Streams, WaitedFor, Waited, Passed, Over, TasksStarted, PipeTypes, Reading
  <2>3. QED
    BY <1>2, <2>1, <2>2, ErrorCodes, Zenon DEF Fork, EpGoto
<1>3. CASE StartTasks
  BY <1>0, <1>3 DEF StartTasks, EpGoto, epPipes, epTasks, Each, Streams, WaitedFor, Waited, Passed, Over, TasksStarted, PipeTypes, Reading
<1>4. CASE WaitPid
  BY <1>0, <1>4 DEF WaitPid, EpGoto, epPipes, epTasks, Each, Streams, WaitedFor, Waited, Passed, Over, TasksStarted, PipeTypes, Reading
<1>5. CASE PollTasks
  BY <1>0, <1>5 DEF PollTasks, EpGoto, Poll, Born, epPipes, epTasks, Each, Streams, WaitedFor, Waited, Passed, Over, TasksStarted, PipeTypes, Reading
<1>6. CASE FreeTasks
  BY <1>0, <1>6 DEF FreeTasks, EpGoto, epPipes, epTasks, Each, Streams, WaitedFor, Waited, Passed, Over, TasksStarted, PipeTypes, Reading
<1>7. CASE ChildEnds
  BY <1>0, <1>7 DEF ChildEnds, epPipes, epTasks, Each, Streams, WaitedFor, Waited, Passed, Over, TasksStarted, PipeTypes, Reading
<1>8. ASSUME NEW s \in Streams, ChildWrites(s) PROVE WaitedFor'
  BY <1>0, <1>8 DEF ChildWrites, epPipes, epTasks, Each, Streams, WaitedFor, Waited, Passed, Over, TasksStarted, PipeTypes, Reading
<1>9. ASSUME NEW s \in Streams, EnterTask(s) PROVE WaitedFor'
  BY <1>0, <1>9 DEF EnterTask, Touch, PGoto, epPipes, epTasks, Each, Streams, WaitedFor, Waited, Passed, Over, TasksStarted, PipeTypes, Reading
<1>10. ASSUME NEW s \in Streams, CloseWrite(s) PROVE WaitedFor'
  BY <1>0, <1>10 DEF CloseWrite, Touch, PGoto, epPipes, epTasks, Each, Streams, WaitedFor, Waited, Passed, Over, TasksStarted, PipeTypes, Reading
<1>11. ASSUME NEW s \in Streams, TestAbort(s) PROVE WaitedFor'
  BY <1>0, <1>11 DEF TestAbort, Touch, PGoto, epPipes, epTasks, Each, Streams, WaitedFor, Waited, Passed, Over, TasksStarted, PipeTypes, Reading
<1>12. ASSUME NEW s \in Streams, ReadPipe(s) PROVE WaitedFor'
  <2>1. ASSUME NEW n \in 1 .. inPipe[s],
               inPipe' = [inPipe EXCEPT ![s] = @ - n],
               delivered' = [delivered EXCEPT ![s] = @ + n],
               Touch(s), PGoto(s, "test"), ppc[s] = "read",
               UNCHANGED <<iWait, epc, epRes, child, heir, written, wParent, iRun, iAbort, frees, unborn>>
        PROVE  WaitedFor'
    BY <1>0, <2>1 DEF Touch, PGoto, Streams, WaitedFor, Waited, Passed, Over, TasksStarted, PipeTypes, Reading
  <2>2. ASSUME ~(inPipe[s] > 0), ~WriterAlive, PGoto(s, "close read"), ppc[s] = "read",
               UNCHANGED <<iWait, epc, epRes, child, heir, epPipes, iRun, iAbort, frees, unborn, touched>>
        PROVE  WaitedFor'
    BY <1>0, <2>2 DEF epPipes, PGoto, Streams, WaitedFor, Waited, Passed, Over, TasksStarted, PipeTypes, Reading
  <2>3. QED
    BY <1>12, <2>1, <2>2 DEF ReadPipe, MoreToRead, epPipes
<1>13. ASSUME NEW s \in Streams, LeaveTask(s) PROVE WaitedFor'
  BY <1>0, <1>13 DEF LeaveTask, Touch, PGoto, epPipes, epTasks, Each, Streams, WaitedFor, Waited, Passed, Over, TasksStarted, PipeTypes, Reading
<1>14. ASSUME NEW s \in Streams, FreeOwn(s) PROVE WaitedFor'
  BY <1>0, <1>14 DEF FreeOwn, Touch, PGoto, FreesItself, epPipes, epTasks, Each, Streams, WaitedFor, Waited, Passed, Over, TasksStarted, PipeTypes, Reading
<1>15. CASE UNCHANGED epVars
  BY <1>0, <1>15 DEF epVars, WaitedFor, Waited, Passed, Over, TasksStarted, PipeTypes, Reading, epPipes, epTasks, Each, Streams
<1>16. QED
  BY <1>1, <1>2, <1>3, <1>4, <1>5, <1>6, <1>7, <1>8, <1>9, <1>10, <1>11, <1>12, <1>13, <1>14, <1>15 DEF EpNext, Caller, pipeTask

(* Who frees.                                                              *)
LEMMA FreedNext ==
  ASSUME EpInv, [EpNext]_epVars
  PROVE  FreedByOne'
<1>0. FreedByOne /\ TasksStarted /\ PipeTypes
  BY ExecPipeAssumption DEF EpInv, PipeTypes, ChunksAddUp
<1>1. CASE MakePipes
  <2>1. ASSUME epRes' \in -2 .. 0, epRes' # 0, epc' = "returned", epc = "pipes",
               UNCHANGED wParent, UNCHANGED <<iWait, child, heir, written, inPipe, delivered, epTasks>>
        PROVE  FreedByOne'
    BY <1>0, <2>1 DEF epTasks, Streams, FreedByOne, Waited, TasksStarted, PipeTypes
  <2>2. ASSUME wParent' = Each(TRUE), epc' = "fork", epc = "pipes",
               UNCHANGED epRes, UNCHANGED <<iWait, child, heir, written, inPipe, delivered, epTasks>>
        PROVE  FreedByOne'
    BY <1>0, <2>2 DEF epTasks, Each, Streams, FreedByOne, Waited, TasksStarted, PipeTypes
  <2>3. QED
    BY <1>1, <2>1, <2>2, ErrorCodes, Zenon DEF MakePipes, EpGoto
<1>2. CASE Fork
  <2>1. ASSUME epRes' \in -2 .. 0, epRes' # 0, epc' = "returned", epc = "fork",
               UNCHANGED child, UNCHANGED <<iWait, heir, epPipes, epTasks>>
        PROVE  FreedByOne'
    BY <1>0, <2>1 DEF epPipes, epTasks, Streams, FreedByOne, Waited, TasksStarted, PipeTypes
  <2>2. ASSUME child' = "runs", epc' = "start out", epc = "fork",
               UNCHANGED epRes, UNCHANGED <<iWait, heir, epPipes, epTasks>>
        PROVE  FreedByOne'
    BY <1>0, <2>2 DEF epPipes, epTasks, Streams, FreedByOne, Waited, TasksStarted, PipeTypes
  <2>3. QED
    BY <1>2, <2>1, <2>2, ErrorCodes, Zenon DEF Fork, EpGoto
<1>3. CASE StartTasks
  BY <1>0, <1>3 DEF StartTasks, EpGoto, epPipes, epTasks, Each, Streams, FreedByOne, Waited, TasksStarted, PipeTypes
<1>4. CASE WaitPid
  BY <1>0, <1>4 DEF WaitPid, EpGoto, epPipes, epTasks, Each, Streams, FreedByOne, Waited, TasksStarted, PipeTypes
<1>5. CASE PollTasks
  BY <1>0, <1>5 DEF PollTasks, EpGoto, Poll, Born, epPipes, epTasks, Each, Streams, FreedByOne, Waited, TasksStarted, PipeTypes
<1>6. CASE FreeTasks
  <2>1. iWait /\ ~Waited /\ epRes = 0 /\ iWait' = iWait /\ ppc' = ppc /\ epRes' = epRes /\ epc' = "returned"
    BY <1>0, <1>6 DEF FreeTasks, EpGoto, TasksStarted, Waited
  <2>2. \A s \in Streams : frees[s] = 0 /\ frees'[s] = 1
    BY <1>0, <1>6, <2>1 DEF FreeTasks, FreedByOne
  <2>3. frees' \in [Streams -> 0 .. 2]
    BY <1>6, <2>2 DEF FreeTasks
  <2>4. Waited'
    BY <2>1 DEF Waited
  <2>5. QED
    BY <2>1, <2>2, <2>3, <2>4 DEF FreedByOne
<1>7. CASE ChildEnds
  BY <1>0, <1>7 DEF ChildEnds, epPipes, epTasks, Each, Streams, FreedByOne, Waited, TasksStarted, PipeTypes
<1>8. ASSUME NEW s \in Streams, ChildWrites(s) PROVE FreedByOne'
  BY <1>0, <1>8 DEF ChildWrites, epPipes, epTasks, Each, Streams, FreedByOne, Waited, TasksStarted, PipeTypes
<1>9. ASSUME NEW s \in Streams, EnterTask(s) PROVE FreedByOne'
  BY <1>0, <1>9 DEF EnterTask, Touch, PGoto, epPipes, epTasks, Each, Streams, FreedByOne, Waited, TasksStarted, PipeTypes
<1>10. ASSUME NEW s \in Streams, CloseWrite(s) PROVE FreedByOne'
  BY <1>0, <1>10 DEF CloseWrite, Touch, PGoto, epPipes, epTasks, Each, Streams, FreedByOne, Waited, TasksStarted, PipeTypes
<1>11. ASSUME NEW s \in Streams, TestAbort(s) PROVE FreedByOne'
  BY <1>0, <1>11 DEF TestAbort, Touch, PGoto, epPipes, epTasks, Each, Streams, FreedByOne, Waited, TasksStarted, PipeTypes
<1>12. ASSUME NEW s \in Streams, ReadPipe(s) PROVE FreedByOne'
  <2>1. ASSUME NEW n \in 1 .. inPipe[s],
               inPipe' = [inPipe EXCEPT ![s] = @ - n],
               delivered' = [delivered EXCEPT ![s] = @ + n],
               Touch(s), PGoto(s, "test"), ppc[s] = "read",
               UNCHANGED <<iWait, epc, epRes, child, heir, written, wParent, iRun, iAbort, frees, unborn>>
        PROVE  FreedByOne'
    BY <1>0, <2>1 DEF Touch, PGoto, Streams, FreedByOne, Waited, TasksStarted, PipeTypes
  <2>2. ASSUME ~(inPipe[s] > 0), ~WriterAlive, PGoto(s, "close read"), ppc[s] = "read",
               UNCHANGED <<iWait, epc, epRes, child, heir, epPipes, iRun, iAbort, frees, unborn, touched>>
        PROVE  FreedByOne'
    BY <1>0, <2>2 DEF epPipes, PGoto, Streams, FreedByOne, Waited, TasksStarted, PipeTypes
  <2>3. QED
    BY <1>12, <2>1, <2>2 DEF ReadPipe, MoreToRead, epPipes
<1>13. ASSUME NEW s \in Streams, LeaveTask(s) PROVE FreedByOne'
  BY <1>0, <1>13 DEF LeaveTask, Touch, PGoto, epPipes, epTasks, Each, Streams, FreedByOne, Waited, TasksStarted, PipeTypes
<1>14. ASSUME NEW s \in Streams, FreeOwn(s) PROVE FreedByOne'
  <2>1. /\ iWait' = iWait /\ Waited' = Waited /\ ppc[s] = "test wait"
        /\ \A r \in Streams : ppc'[r] = IF r = s THEN "gone" ELSE ppc[r]
        /\ frees[s] > 0 => touched' = touched \cup {s}
        /\ touched \subseteq touched'
    BY <1>0, <1>14 DEF FreeOwn, Touch, PGoto, Waited, epPipes, PipeTypes
  <2>2. CASE UNCHANGED frees /\ iWait
    BY <1>0, <2>1, <2>2 DEF FreedByOne, PipeTypes
  <2>3. CASE frees' = [frees EXCEPT ![s] = @ + 1] /\ (~iWait \/ frees[s] > 0)
    <3>1. (iWait => frees[s] = 1 /\ Waited) /\ (~iWait => frees[s] = 0 /\ ~Waited)
      <4>1. CASE iWait
        <5>1. frees[s] # 0 /\ ppc[s] # "gone"
          <6>1. frees[s] \in 0 .. 2 /\ frees[s] > 0 /\ ppc[s] = "test wait"
            BY <1>0, <2>1, <2>3, <4>1, Zenon DEF FreedByOne
          <6>2. \A n \in 0 .. 2 : n > 0 => n # 0
            OBVIOUS
          <6>3. QED
            BY <6>1, <6>2, Zenon
        <5>2. QED
          BY <1>0, <4>1, <5>1, Zenon DEF FreedByOne
      <4>2. CASE ~iWait
        BY <1>0, <2>1, <4>2 DEF FreedByOne, Waited
      <4>3. QED
        BY <4>1, <4>2
    <3>2. frees' \in [Streams -> 0 .. 2] /\ \A r \in Streams : frees'[r] = IF r = s THEN frees[s] + 1 ELSE frees[r]
      BY <1>0, <2>3, <3>1 DEF FreedByOne
    <3>3. /\ iWait => frees'[s] = 2 /\ s \in touched' /\ Waited'
          /\ ~iWait => frees'[s] = 1 /\ ~Waited'
      <4>1. CASE iWait
        <5>1. frees[s] > 0 /\ frees'[s] = 2
          BY <3>1, <3>2, <4>1
        <5>2. QED
          BY <2>1, <3>1, <4>1, <5>1, Zenon
      <4>2. CASE ~iWait
        <5>1. frees'[s] = 1
          BY <3>1, <3>2, <4>2
        <5>2. QED
          BY <2>1, <3>1, <4>2, <5>1, Zenon
      <4>3. QED
        BY <4>1, <4>2
    <3>4. \A r \in Streams : r # s => frees'[r] = frees[r] /\ ppc'[r] = ppc[r] /\ (r \in touched => r \in touched')
      BY <2>1, <3>2
    <3>5. frees' \in [Streams -> 0 .. 2] /\ ppc'[s] = "gone" /\ iWait' = iWait /\ Waited' = Waited
      BY <2>1, <3>2
    <3>6. QED
      BY <1>0, <3>3, <3>4, <3>5, Zenon DEF FreedByOne
  <2>4. QED
    BY <1>14, <2>2, <2>3 DEF FreeOwn, FreesItself
<1>15. CASE UNCHANGED epVars
  BY <1>0, <1>15 DEF epVars, FreedByOne, Waited, TasksStarted, PipeTypes, epPipes, epTasks, Each, Streams
<1>16. QED
  BY <1>1, <1>2, <1>3, <1>4, <1>5, <1>6, <1>7, <1>8, <1>9, <1>10, <1>11, <1>12, <1>13, <1>14, <1>15 DEF EpNext, Caller, pipeTask

(* The inductive invariant holds in every state.                           *)
LEMMA EpInvHolds == EpSpec => []EpInv
<1>1. ASSUME EpInit PROVE EpInv
  <2>1. PipeTypes /\ ChunksAddUp /\ frees \in [Streams -> 0 .. 2]
    <3>1. PipeTypes
      <4>1. epRes \in -2 .. 0 /\ Each(FALSE) \in [Streams -> BOOLEAN]
        BY <1>1 DEF EpInit, Each
      <4>2. ppc \in [Streams -> {"none", "new", "close write", "test", "read", "close read", "test wait", "gone"}]
        BY <1>1 DEF EpInit, Each
      <4>3. QED
        BY <1>1, <4>1, <4>2, Zenon DEF EpInit, PipeTypes
    <3>2. ChunksAddUp
      BY <1>1, ExecPipeAssumption DEF EpInit, ChunksAddUp, Each
    <3>3. QED
      BY <1>1, <3>1, <3>2 DEF EpInit, Each
  <2>2. ppc = [s \in Streams |-> "none"] /\ iRun = [s \in Streams |-> FALSE] /\ epc = "pipes" /\ epRes = 0
        /\ frees = [s \in Streams |-> 0]
    BY <1>1 DEF EpInit, Each
  <2>3. TasksStarted
    BY <2>2 DEF TasksStarted, Reading, Streams
  <2>4. ReadEmpty /\ WaitedFor /\ FreedByOne
    BY <2>1, <2>2 DEF ReadEmpty, WaitedFor, FreedByOne, Waited, Closed
  <2>5. QED
    BY <2>1, <2>3, <2>4 DEF EpInv
<1>2. EpInv /\ [EpNext]_epVars => EpInv'
  BY PipeTypesNext, ChunksNext, StartedNext, EmptyNext, WaitedNext, FreedNext DEF EpInv
<1>3. QED
  BY <1>1, <1>2, PTL DEF EpSpec

(* For every number of chunks: what a child writes comes to the functions, *)
(* and what the threads use is freed once, and while a thread uses it only *)
(* when the caller tested iRun before the thread had set it.               *)
THEOREM PipesComeThrough == EpSpec => []PipesKept
<1>1. EpInv => PipesKept
  <2>1. SUFFICES ASSUME EpInv PROVE PipesKept
    OBVIOUS
  <2>2. PipeTypes /\ ChunksAddUp /\ TasksStarted /\ ReadEmpty /\ WaitedFor /\ FreedByOne
    BY <2>1 DEF EpInv
  <2>3. EpTypeOK
    BY <2>2 DEF EpTypeOK, PipeTypes, ChunksAddUp, FreedByOne
  <2>4. AllDelivered
    <3>1. \A s \in Streams : inPipe[s] = 0 => delivered[s] = written[s]
      BY <2>2, ExecPipeAssumption DEF ChunksAddUp
    <3>2. QED
      BY <2>2, <3>1 DEF AllDelivered, ReadEmpty, Closed
  <2>5. FreedInUse
    <3>1. SUFFICES ASSUME NEW s \in Streams, frees[s] > 0, ppc[s] # "gone" PROVE Passed(s)
      BY DEF FreedInUse, Passed, Over
    <3>2. Waited
      BY <2>2, <3>1 DEF FreedByOne
    <3>3. QED
      BY <2>2, <3>2 DEF WaitedFor, Streams
  <2>6. FreedOnce
    BY <2>2 DEF FreedOnce, FreedByOne, TasksStarted, Waited, PipeTypes
  <2>7. ReturnsAfterChild
    BY <2>2 DEF ReturnsAfterChild, WaitedFor, Waited, Passed, Over, Streams
  <2>8. QED
    BY <2>3, <2>4, <2>5, <2>6, <2>7 DEF PipesKept
<1>2. QED
  BY <1>1, EpInvHolds, PTL

-----------------------------------------------------------------------------
(* Relays.  The inductive invariant speaks of what was sent to a side, of  *)
(* what is in its buffer and of what is still to come as of one line of    *)
(* bytes: the code moves bytes along it and never changes their order.     *)

Bytes == Nat \ {0}

(* x rises, but for values up to m.                                        *)
RisesBut(x, m) == \A i, j \in 1 .. Len(x) : i < j => x[i] < x[j] \/ x[j] <= m
Rising(x) == RisesBut(x, 0)
(* x holds the bytes behind the first n.                                   *)
Counted(x, n) == \A i \in 1 .. Len(x) : x[i] = n + i
Later(x, y) == \A i \in 1 .. Len(x), j \in 1 .. Len(y) : x[i] < y[j]

RelayTypes ==
  /\ alive \in [Sides -> {"open", "closed", "reset"}]
  /\ relay \in {"idle", "rest 1", "rest 2", "loop"}
  /\ relays \in Nat /\ resent \in BOOLEAN
  /\ endedBy \in {"none", "write", "side 1", "side 2", "timeout"}
  /\ coming \in [Sides -> Seq(Bytes)] /\ rest \in [Sides -> Seq(Bytes)]
  /\ buf \in [Sides -> Seq(Bytes)] /\ out \in [Sides -> Seq(Bytes)]

BufsFit ==
  \A s \in Sides : Len(buf[s]) <= BufLen /\ (relay # "loop" => buf[s] = << >>)

(* A direction: what was sent (o), what is in its buffer (b), what is to   *)
(* come (c), and the rest (r) that each call sends first.                  *)
InOrder(o, b, c, r) ==
  /\ Rising(b) /\ Rising(c)
  /\ Later(o, b) /\ Later(o, c) /\ Later(b, c) /\ Later(r, b) /\ Later(r, c)
  /\ RisesBut(o, Len(r))
Directions ==
  \A s \in Sides :
    /\ Counted(rest[s], 0)
    /\ InOrder(out[s], buf[s], coming[Other(s)], rest[Other(s)])

(* Until a call has sent a rest again, nothing is sent twice.              *)
FirstTime ==
  /\ relays = 0 => relay = "idle"
  /\ \A s \in Sides :
       /\ ~resent => Rising(out[s]) /\ (relays > 1 => rest[s] = << >>)
       /\ relays = 0 \/ (relays = 1 /\ (relay = "rest 1" \/ (relay = "rest 2" /\ s = 1)))
            => out[s] = << >>

(* The first call numbers what it sends from 1 on; u bytes of the rest are *)
(* to be sent before what comes.                                           *)
Numbered(o, b, c, u) ==
  /\ Counted(b, Len(o))
  /\ Counted(c, Len(o) + Len(b) + u)
Unsent(s) ==
  IF relays = 0 \/ relay = "rest 1" \/ (relay = "rest 2" /\ s = 1)
  THEN Len(rest[Other(s)]) ELSE 0
FirstCall ==
  \A s \in Sides :
    /\ relays <= 1 => Counted(out[s], 0)
    /\ relays = 0 \/ (relays = 1 /\ relay # "idle")
         => /\ Numbered(out[s], buf[s], coming[Other(s)], Unsent(s))
            /\ alive[Other(s)] # "reset"
                 => Len(out[s]) + Len(buf[s]) + Unsent(s) + Len(coming[Other(s)]) = MaxSent
    /\ relays = 1 /\ relay = "idle" /\ endedBy = (IF s = 1 THEN "side 1" ELSE "side 2")
         => alive[s] # "open" /\ (alive[s] = "closed" => Len(out[Other(s)]) = MaxSent)

(* As many bytes as before.                                                *)
AsMany(o, b, c, p, d, e) == Len(p) + Len(d) + Len(e) = Len(o) + Len(b) + Len(c)

RelayInv == RelayTypes /\ BufsFit /\ Directions /\ FirstTime /\ FirstCall

(* y is a part of x that begins behind the first n.                        *)
Part(x, n, y) ==
  /\ y \in Seq(Bytes) /\ n \in Nat /\ n + Len(y) <= Len(x)
  /\ \A i \in 1 .. Len(y) : y[i] = x[n + i]

(* The bytes of a sequence are numbers above 0.                            *)
LEMMA Lens ==
  ASSUME NEW x \in Seq(Bytes)
  PROVE  Len(x) \in Nat /\ \A i \in 1 .. Len(x) : x[i] \in Nat /\ x[i] > 0
  BY DEF Bytes

(* What SubSeq takes out is a part.                                        *)
LEMMA SubSeqIsPart ==
  ASSUME NEW x \in Seq(Bytes), NEW m \in Nat, NEW n \in 0 .. Len(x), m <= n
  PROVE  Part(x, m, SubSeq(x, m + 1, n)) /\ Len(SubSeq(x, m + 1, n)) = n - m
<1>1. /\ SubSeq(x, m + 1, n) \in Seq(Bytes) /\ Len(SubSeq(x, m + 1, n)) = n - m
      /\ \A i \in 1 .. n - m : SubSeq(x, m + 1, n)[i] = x[m + i]
  BY SubSeqProperties
<1>2. QED
  BY <1>1, Lens DEF Part

(* A part of a part is a part.                                             *)
LEMMA PartOfPart ==
  ASSUME NEW x \in Seq(Bytes), NEW m, NEW n, NEW y, NEW z, Part(x, m, y), Part(y, n, z)
  PROVE  Part(x, m + n, z)
<1>1. /\ z \in Seq(Bytes) /\ y \in Seq(Bytes) /\ m \in Nat /\ n \in Nat
      /\ Len(z) \in Nat /\ Len(y) \in Nat /\ Len(x) \in Nat
      /\ n + Len(z) <= Len(y) /\ m + Len(y) <= Len(x)
  BY DEF Part
<1>2. \A i \in 1 .. Len(z) : n + i \in 1 .. Len(y) /\ m + (n + i) = (m + n) + i
  BY <1>1
<1>3. \A i \in 1 .. Len(z) : z[i] = x[(m + n) + i]
  BY <1>2 DEF Part
<1>4. QED
  BY <1>1, <1>3 DEF Part

(* Parts keep the order of what they are parts of.                         *)
LEMMA PartRises ==
  ASSUME NEW x \in Seq(Bytes), NEW n, NEW y, Part(x, n, y), Rising(x)
  PROVE  Rising(y)
<1>1. Len(x) \in Nat /\ Len(y) \in Nat /\ n \in Nat /\ n + Len(y) <= Len(x)
  BY DEF Part
<1>2. \A i \in 1 .. Len(y) : y[i] = x[n + i] /\ n + i \in 1 .. Len(x)
  BY <1>1 DEF Part
<1>3. SUFFICES ASSUME NEW i \in 1 .. Len(y), NEW j \in 1 .. Len(y), i < j
               PROVE  y[i] < y[j] \/ y[j] <= 0
  BY DEF Rising, RisesBut
<1>4. n + i < n + j
  BY <1>1, <1>3
<1>5. QED
  BY <1>2, <1>4 DEF Rising, RisesBut

(* A part is as late as what it is a part of.                              *)
LEMMA PartIsLater ==
  ASSUME NEW x \in Seq(Bytes), NEW n, NEW y, NEW z, Part(x, n, y)
  PROVE  (Later(z, x) => Later(z, y)) /\ (Later(x, z) => Later(y, z))
<1>1. Len(x) \in Nat /\ Len(y) \in Nat /\ n \in Nat /\ n + Len(y) <= Len(x)
  BY DEF Part
<1>2. \A i \in 1 .. Len(y) : y[i] = x[n + i] /\ n + i \in 1 .. Len(x)
  BY <1>1 DEF Part
<1>3. QED
  BY <1>2 DEF Later

(* Of two parts the one that begins behind the other is later.             *)
LEMMA PartsFollow ==
  ASSUME NEW x \in Seq(Bytes), NEW m, NEW n, NEW y, NEW z, Part(x, m, y), Part(x, n, z),
         m + Len(y) <= n, Rising(x)
  PROVE  Later(y, z)
<1>1. /\ Len(x) \in Nat /\ Len(y) \in Nat /\ m \in Nat /\ m + Len(y) <= Len(x)
      /\ Len(z) \in Nat /\ n \in Nat /\ n + Len(z) <= Len(x)
  BY DEF Part
<1>2. \A i \in 1 .. Len(y) : y[i] = x[m + i] /\ m + i \in 1 .. Len(x)
  BY <1>1 DEF Part
<1>3. \A i \in 1 .. Len(z) : z[i] = x[n + i] /\ n + i \in 1 .. Len(x)
  BY <1>1 DEF Part
<1>4. SUFFICES ASSUME NEW i \in 1 .. Len(y), NEW j \in 1 .. Len(z) PROVE y[i] < z[j]
  BY DEF Later
<1>5. m + i < n + j
  BY <1>1
<1>6. x[n + j] > 0 /\ x[n + j] \in Nat
  BY <1>3, Lens
<1>7. x[m + i] < x[n + j] \/ x[n + j] <= 0
  BY <1>2, <1>3, <1>5 DEF Rising, RisesBut
<1>8. QED
  BY <1>2, <1>3, <1>6, <1>7

(* What stands where when one sequence is put behind another.              *)
LEMMA ConcatAt ==
  ASSUME NEW o \in Seq(Bytes), NEW f \in Seq(Bytes)
  PROVE  /\ o \o f \in Seq(Bytes) /\ Len(o \o f) = Len(o) + Len(f)
         /\ \A i \in 1 .. Len(o) : (o \o f)[i] = o[i]
         /\ \A i \in 1 .. Len(o \o f) :
              \/ i \in 1 .. Len(o) /\ (o \o f)[i] = o[i]
              \/ i > Len(o) /\ i - Len(o) \in 1 .. Len(f) /\ (o \o f)[i] = f[i - Len(o)]
<1>1. /\ o \o f \in Seq(Bytes) /\ Len(o \o f) = Len(o) + Len(f)
      /\ \A i \in 1 .. Len(o) + Len(f) : (o \o f)[i] = IF i <= Len(o) THEN o[i] ELSE f[i - Len(o)]
  BY ConcatProperties
<1>2. Len(o) \in Nat /\ Len(f) \in Nat
  OBVIOUS
<1> DEFINE p == o \o f
<1> HIDE DEF p
<1>3. \A i \in 1 .. Len(o) : p[i] = o[i]
  BY <1>1, <1>2 DEF p
<1>4. \A i \in 1 .. Len(o) + Len(f) :
        \/ i \in 1 .. Len(o) /\ p[i] = o[i]
        \/ i > Len(o) /\ i - Len(o) \in 1 .. Len(f) /\ p[i] = f[i - Len(o)]
  BY <1>1, <1>2 DEF p
<1>5. QED
  BY <1>1, <1>3, <1>4 DEF p

(* What is later than both is later than the two together.                 *)
LEMMA ConcatIsLater ==
  ASSUME NEW o \in Seq(Bytes), NEW f \in Seq(Bytes), NEW z, Later(o, z), Later(f, z)
  PROVE  Later(o \o f, z)
<1> DEFINE p == o \o f
<1>1. \A i \in 1 .. Len(p) :
        \/ i \in 1 .. Len(o) /\ p[i] = o[i]
        \/ i - Len(o) \in 1 .. Len(f) /\ p[i] = f[i - Len(o)]
  BY ConcatAt
<1> HIDE DEF p
<1>2. Later(p, z)
  BY <1>1 DEF Later
<1>3. QED
  BY <1>2 DEF p

(* When the order goes on if a sequence is put behind another.             *)
LEMMA ConcatRises ==
  ASSUME NEW o \in Seq(Bytes), NEW f \in Seq(Bytes), NEW m \in Nat,
         RisesBut(o, m), RisesBut(f, m),
         Later(o, f) \/ \A i \in 1 .. Len(f) : f[i] <= m
  PROVE  RisesBut(o \o f, m)
<1> DEFINE p == o \o f
<1>1. \A i \in 1 .. Len(p) :
        \/ i \in 1 .. Len(o) /\ p[i] = o[i]
        \/ i > Len(o) /\ i - Len(o) \in 1 .. Len(f) /\ p[i] = f[i - Len(o)]
  BY ConcatAt
<1>2. Len(p) \in Nat /\ Len(o) \in Nat
  BY ConcatAt
<1> HIDE DEF p
<1>3. SUFFICES ASSUME NEW i \in 1 .. Len(p), NEW j \in 1 .. Len(p), i < j
               PROVE  p[i] < p[j] \/ p[j] <= m
  BY DEF RisesBut, p
<1>4. CASE j \in 1 .. Len(o) /\ p[j] = o[j]
  <2>1. i \in 1 .. Len(o) /\ p[i] = o[i]
    BY <1>1, <1>2, <1>3, <1>4
  <2>2. QED
    BY <1>3, <1>4, <2>1 DEF RisesBut
<1>5. CASE j > Len(o) /\ j - Len(o) \in 1 .. Len(f) /\ p[j] = f[j - Len(o)]
  <2>1. CASE i \in 1 .. Len(o) /\ p[i] = o[i]
    BY <1>3, <1>5, <2>1 DEF Later
  <2>2. CASE i > Len(o) /\ i - Len(o) \in 1 .. Len(f) /\ p[i] = f[i - Len(o)]
    <3>1. i - Len(o) < j - Len(o)
      BY <1>2, <1>3
    <3>2. QED
      BY <1>5, <2>2, <3>1 DEF RisesBut
  <2>3. QED
    BY <1>1, <2>1, <2>2
<1>6. QED
  BY <1>1, <1>4, <1>5

(* The first k bytes of a buffer are sent.                                 *)
LEMMA SendKeepsOrder ==
  ASSUME NEW o \in Seq(Bytes), NEW b \in Seq(Bytes), NEW c \in Seq(Bytes), NEW r \in Seq(Bytes),
         NEW k \in 1 .. Len(b), InOrder(o, b, c, r)
  PROVE  /\ InOrder(o \o SubSeq(b, 1, k), SubSeq(b, k + 1, Len(b)), c, r)
         /\ Rising(o) => Rising(o \o SubSeq(b, 1, k))
         /\ o \o SubSeq(b, 1, k) \in Seq(Bytes) /\ SubSeq(b, k + 1, Len(b)) \in Seq(Bytes)
<1> DEFINE f == SubSeq(b, 1, k)
           d == SubSeq(b, k + 1, Len(b))
<1>0. Len(b) \in Nat /\ Len(r) \in Nat
  OBVIOUS
<1>1. Part(b, 0, f) /\ Len(f) = k
  BY <1>0, SubSeqIsPart, 0 + 1 = 1
<1>2. Part(b, k, d)
  BY <1>0, SubSeqIsPart
<1> HIDE DEF f, d
<1>3. f \in Seq(Bytes) /\ d \in Seq(Bytes) /\ o \o f \in Seq(Bytes)
  BY <1>1, <1>2, ConcatAt DEF Part
<1>4. Rising(b) /\ Rising(c) /\ Later(o, b) /\ Later(o, c) /\ Later(b, c) /\ Later(r, b) /\ Later(r, c) /\ RisesBut(o, Len(r))
  BY DEF InOrder
<1>5. Rising(f) /\ Rising(d) /\ Later(o, f) /\ Later(o, d) /\ Later(f, c) /\ Later(d, c) /\ Later(r, d)
  BY <1>1, <1>2, <1>4, PartRises, PartIsLater
<1>6. Later(f, d)
  BY <1>0, <1>1, <1>2, <1>4, 0 + Len(f) <= k, PartsFollow
<1>7. RisesBut(f, Len(r))
  BY <1>0, <1>3, <1>5, Lens DEF Rising, RisesBut
<1>8. RisesBut(o \o f, Len(r)) /\ (Rising(o) => Rising(o \o f))
  BY <1>0, <1>3, <1>4, <1>5, <1>7, ConcatRises DEF Rising
<1>9. Later(o \o f, d) /\ Later(o \o f, c)
  BY <1>3, <1>4, <1>5, <1>6, ConcatIsLater
<1>10. QED
  BY <1>3, <1>4, <1>5, <1>8, <1>9 DEF InOrder, f, d

(* Of n bytes that are received k are sent at once.                        *)
LEMMA ReadKeepsOrder ==
  ASSUME NEW o \in Seq(Bytes), NEW c \in Seq(Bytes), NEW r \in Seq(Bytes),
         NEW n \in 1 .. Len(c), NEW k \in 0 .. n, InOrder(o, << >>, c, r)
  PROVE  LET read == SubSeq(c, 1, n)
             p == o \o SubSeq(read, 1, k)
             d == SubSeq(read, k + 1, n)
             e == SubSeq(c, n + 1, Len(c))
         IN  /\ InOrder(p, d, e, r) /\ (Rising(o) => Rising(p))
             /\ p \in Seq(Bytes) /\ d \in Seq(Bytes) /\ e \in Seq(Bytes)
             /\ Len(d) = n - k /\ Len(e) = Len(c) - n
<1> DEFINE read == SubSeq(c, 1, n)
           f == SubSeq(read, 1, k)
           d == SubSeq(read, k + 1, n)
           e == SubSeq(c, n + 1, Len(c))
<1>0. Len(c) \in Nat /\ Len(r) \in Nat
  OBVIOUS
<1>1. Part(c, 0, read) /\ Len(read) = n
  BY <1>0, SubSeqIsPart, 0 + 1 = 1
<1>2. read \in Seq(Bytes)
  BY <1>1 DEF Part
<1>3. Part(c, n, e) /\ Len(e) = Len(c) - n
  BY <1>0, SubSeqIsPart
<1>4. Part(read, 0, f) /\ Len(f) = k /\ Part(read, k, d) /\ Len(d) = n - k
  <2> HIDE DEF read
  <2>1. Part(read, 0, f) /\ Len(f) = k
    BY <1>1, <1>2, SubSeqIsPart, 0 + 1 = 1
  <2>2. Part(read, k, d) /\ Len(d) = n - k
    BY <1>1, <1>2, SubSeqIsPart
  <2>3. QED
    BY <2>1, <2>2
<1> HIDE DEF read, f, d, e
<1>5. Part(c, 0, f) /\ Part(c, k, d)
  <2>1. Part(c, 0 + 0, f) /\ Part(c, 0 + k, d)
    BY <1>1, <1>4, PartOfPart
  <2>2. QED
    BY <2>1
<1>6. f \in Seq(Bytes) /\ d \in Seq(Bytes) /\ e \in Seq(Bytes) /\ o \o f \in Seq(Bytes)
  BY <1>3, <1>4, ConcatAt DEF Part
<1>7. Rising(c) /\ Later(o, c) /\ Later(r, c) /\ RisesBut(o, Len(r))
  BY DEF InOrder
<1>8. /\ Rising(f) /\ Rising(d) /\ Rising(e)
      /\ Later(o, f) /\ Later(o, d) /\ Later(o, e) /\ Later(r, d) /\ Later(r, e)
  BY <1>3, <1>5, <1>7, PartRises, PartIsLater
<1>9. Later(f, d) /\ Later(f, e) /\ Later(d, e)
  <2>1. 0 + Len(f) <= k /\ 0 + Len(f) <= n /\ k + Len(d) <= n
    BY <1>0, <1>4
  <2>2. QED
    BY <1>3, <1>5, <1>7, <2>1, PartsFollow
<1>10. RisesBut(f, Len(r))
  BY <1>0, <1>6, <1>8, Lens DEF Rising, RisesBut
<1>11. RisesBut(o \o f, Len(r)) /\ (Rising(o) => Rising(o \o f))
  BY <1>0, <1>6, <1>7, <1>8, <1>10, ConcatRises DEF Rising
<1>12. Later(o \o f, d) /\ Later(o \o f, e)
  BY <1>6, <1>8, <1>9, ConcatIsLater
<1>13. QED
  BY <1>3, <1>4, <1>6, <1>7, <1>8, <1>9, <1>11, <1>12 DEF InOrder, read, f, d, e

(* The rest of rBuf is sent.                                               *)
LEMMA RestKeepsOrder ==
  ASSUME NEW o \in Seq(Bytes), NEW b \in Seq(Bytes), NEW c \in Seq(Bytes), NEW r \in Seq(Bytes),
         InOrder(o, b, c, r), Counted(r, 0)
  PROVE  /\ InOrder(o \o r, b, c, r) /\ o \o r \in Seq(Bytes)
         /\ o = << >> \/ r = << >> => (Rising(o) => Rising(o \o r))
<1>1. Len(r) \in Nat
  OBVIOUS
<1>2. RisesBut(r, Len(r)) /\ Rising(r) /\ \A i \in 1 .. Len(r) : r[i] <= Len(r)
  BY <1>1 DEF Rising, RisesBut, Counted
<1>3. Rising(b) /\ Rising(c) /\ Later(o, b) /\ Later(o, c) /\ Later(b, c) /\ Later(r, b) /\ Later(r, c) /\ RisesBut(o, Len(r))
  BY DEF InOrder
<1>4. RisesBut(o \o r, Len(r))
  BY <1>1, <1>2, <1>3, ConcatRises
<1>5. Later(o \o r, b) /\ Later(o \o r, c) /\ o \o r \in Seq(Bytes)
  BY <1>3, ConcatIsLater, ConcatAt
<1>6. o = << >> \/ r = << >> => Later(o, r)
  BY DEF Later
<1>7. o = << >> \/ r = << >> => (Rising(o) => Rising(o \o r))
  BY <1>2, <1>6, ConcatRises DEF Rising
<1>8. QED
  BY <1>3, <1>4, <1>5, <1>7 DEF InOrder

(* Parts, and sequences put together, keep the numbers.                    *)
LEMMA PartCounted ==
  ASSUME NEW x \in Seq(Bytes), NEW m \in Nat, NEW n, NEW y, Part(x, n, y), Counted(x, m)
  PROVE  Counted(y, m + n)
<1>1. Len(x) \in Nat /\ Len(y) \in Nat /\ n \in Nat /\ n + Len(y) <= Len(x)
  BY DEF Part
<1>2. \A i \in 1 .. Len(y) : y[i] = x[n + i] /\ n + i \in 1 .. Len(x) /\ m + (n + i) = (m + n) + i
  BY <1>1 DEF Part
<1>3. QED
  BY <1>2 DEF Counted

LEMMA ConcatCounted ==
  ASSUME NEW o \in Seq(Bytes), NEW f \in Seq(Bytes), Counted(o, 0), Counted(f, Len(o))
  PROVE  Counted(o \o f, 0) /\ Len(o \o f) = Len(o) + Len(f)
<1> DEFINE p == o \o f
<1>1. \A i \in 1 .. Len(p) :
        \/ i \in 1 .. Len(o) /\ p[i] = o[i]
        \/ i > Len(o) /\ i - Len(o) \in 1 .. Len(f) /\ p[i] = f[i - Len(o)]
  BY ConcatAt
<1>2. Len(p) \in Nat /\ Len(o) \in Nat /\ Len(p) = Len(o) + Len(f)
  BY ConcatAt
<1> HIDE DEF p
<1>3. ASSUME NEW i \in 1 .. Len(p) PROVE p[i] = 0 + i
  <2>1. CASE i \in 1 .. Len(o) /\ p[i] = o[i]
    BY <2>1 DEF Counted
  <2>2. CASE i > Len(o) /\ i - Len(o) \in 1 .. Len(f) /\ p[i] = f[i - Len(o)]
    <3>1. p[i] = Len(o) + (i - Len(o))
      BY <2>2 DEF Counted
    <3>2. QED
      BY <1>2, <3>1
  <2>3. QED
    BY <1>1, <2>1, <2>2
<1>4. QED
  BY <1>2, <1>3 DEF Counted, p

(* The three moves again, for the numbers of the first call.               *)
LEMMA SendKeepsNumbers ==
  ASSUME NEW o \in Seq(Bytes), NEW b \in Seq(Bytes), NEW c \in Seq(Bytes), NEW u \in Nat,
         NEW k \in 1 .. Len(b), Counted(o, 0), Numbered(o, b, c, u)
  PROVE  /\ Counted(o \o SubSeq(b, 1, k), 0)
         /\ Numbered(o \o SubSeq(b, 1, k), SubSeq(b, k + 1, Len(b)), c, u)
         /\ AsMany(o, b, c, o \o SubSeq(b, 1, k), SubSeq(b, k + 1, Len(b)), c)
<1> DEFINE f == SubSeq(b, 1, k)
           d == SubSeq(b, k + 1, Len(b))
           p == o \o f
<1>0. Len(b) \in Nat /\ Len(o) \in Nat
  OBVIOUS
<1>1. Part(b, 0, f) /\ Len(f) = k
  BY <1>0, SubSeqIsPart, 0 + 1 = 1
<1>2. Part(b, k, d) /\ Len(d) = Len(b) - k
  BY <1>0, SubSeqIsPart
<1> HIDE DEF f, d, p
<1>3. Counted(b, Len(o)) /\ Counted(c, Len(o) + Len(b) + u)
  BY DEF Numbered
<1>4. Counted(f, Len(o)) /\ Counted(d, Len(o) + k)
  <2>1. Counted(f, Len(o) + 0) /\ Counted(d, Len(o) + k)
    BY <1>0, <1>1, <1>2, <1>3, PartCounted
  <2>2. QED
    BY <1>0, <2>1
<1>5. Counted(p, 0) /\ Len(p) = Len(o) + k
  BY <1>1, <1>4, ConcatCounted DEF Part, p
<1>6. Len(p) + Len(d) = Len(o) + Len(b)
  BY <1>0, <1>2, <1>5
<1>7. AsMany(o, b, c, p, d, c)
  <2>1. Len(c) \in Nat /\ Len(p) \in Nat /\ Len(d) \in Nat
    BY <1>0, <1>2, <1>5
  <2>2. QED
    BY <1>0, <1>6, <2>1 DEF AsMany
<1>8. QED
  BY <1>3, <1>4, <1>5, <1>6, <1>7 DEF Numbered, p, f, d

LEMMA ReadKeepsNumbers ==
  ASSUME NEW o \in Seq(Bytes), NEW c \in Seq(Bytes),
         NEW n \in 1 .. Len(c), NEW k \in 0 .. n, Counted(o, 0), Numbered(o, << >>, c, 0)
  PROVE  LET read == SubSeq(c, 1, n)
             p == o \o SubSeq(read, 1, k)
             d == SubSeq(read, k + 1, n)
             e == SubSeq(c, n + 1, Len(c))
         IN  /\ Counted(p, 0) /\ Numbered(p, d, e, 0)
             /\ AsMany(o, << >>, c, p, d, e)
<1> DEFINE read == SubSeq(c, 1, n)
           f == SubSeq(read, 1, k)
           d == SubSeq(read, k + 1, n)
           e == SubSeq(c, n + 1, Len(c))
           p == o \o f
<1>0. Len(c) \in Nat /\ Len(o) \in Nat
  OBVIOUS
<1>1. Part(c, 0, read) /\ Len(read) = n
  BY <1>0, SubSeqIsPart, 0 + 1 = 1
<1>2. read \in Seq(Bytes)
  BY <1>1 DEF Part
<1>3. Part(c, n, e) /\ Len(e) = Len(c) - n
  BY <1>0, SubSeqIsPart
<1>4. Part(read, 0, f) /\ Len(f) = k /\ Part(read, k, d) /\ Len(d) = n - k
  <2> HIDE DEF read
  <2>1. Part(read, 0, f) /\ Len(f) = k
    BY <1>1, <1>2, SubSeqIsPart, 0 + 1 = 1
  <2>2. Part(read, k, d) /\ Len(d) = n - k
    BY <1>1, <1>2, SubSeqIsPart
  <2>3. QED
    BY <2>1, <2>2
<1> HIDE DEF read, f, d, e, p
<1>5. Counted(c, Len(o))
  <2>1. Counted(c, Len(o) + Len(<< >>) + 0)
    BY DEF Numbered
  <2>2. QED
    BY <1>0, <2>1
<1>6. Counted(read, Len(o)) /\ Counted(e, Len(o) + n)
  <2>1. Counted(read, Len(o) + 0) /\ Counted(e, Len(o) + n)
    BY <1>0, <1>1, <1>3, <1>5, PartCounted
  <2>2. QED
    BY <1>0, <2>1
<1>7. Counted(f, Len(o)) /\ Counted(d, Len(o) + k)
  <2>1. Counted(f, Len(o) + 0) /\ Counted(d, Len(o) + k)
    BY <1>0, <1>2, <1>4, <1>6, PartCounted
  <2>2. QED
    BY <1>0, <2>1
<1>8. Counted(p, 0) /\ Len(p) = Len(o) + k
  BY <1>4, <1>7, ConcatCounted DEF Part, p
<1>9. Len(p) + Len(d) + 0 = Len(o) + n /\ Len(p) + Len(d) + Len(e) = Len(o) + Len(c)
  BY <1>0, <1>3, <1>4, <1>8
<1>10. AsMany(o, << >>, c, p, d, e)
  BY <1>0, <1>9 DEF AsMany
<1>11. QED
  BY <1>6, <1>7, <1>8, <1>9, <1>10 DEF Numbered, read, f, d, e, p

LEMMA RestKeepsNumbers ==
  ASSUME NEW c \in Seq(Bytes), NEW r \in Seq(Bytes),
         Counted(r, 0), Numbered(<< >>, << >>, c, Len(r))
  PROVE  /\ Counted(<< >> \o r, 0) /\ Numbered(<< >> \o r, << >>, c, 0)
         /\ Len(<< >> \o r) = Len(r)
<1>1. << >> \o r = r
  BY ConcatEmptySeq
<1>2. Len(r) \in Nat
  OBVIOUS
<1>3. Len(<< >>) + Len(<< >>) + Len(r) = Len(r) /\ Len(r) + Len(<< >>) + 0 = Len(r)
  BY <1>2
<1>4. Counted(c, Len(r))
  BY <1>3 DEF Numbered
<1>5. Counted(<< >>, Len(r))
  BY DEF Counted
<1>6. QED
  BY <1>1, <1>3, <1>4, <1>5 DEF Numbered

(* There are two sides.                                                    *)
LEMMA TwoSides ==
  /\ Other(1) = 2 /\ Other(2) = 1
  /\ \A s \in Sides : Other(s) \in Sides /\ Other(s) # s /\ Other(Other(s)) = s
  /\ \A s, d \in Sides : d # s => d = Other(s)
  BY DEF Other, Sides

(* What each action does to the four sequences.                            *)
LEMMA SendRestDoes ==
  ASSUME NEW s \in Sides, SendRest(s), RelayTypes
  PROVE  /\ relay = (IF s = 1 THEN "rest 1" ELSE "rest 2")
         /\ UNCHANGED <<alive, coming, rest, buf, relays, resent>>
         /\ \/ /\ out' \in [Sides -> Seq(Bytes)]
               /\ out'[Other(s)] = out[Other(s)] \o rest[s] /\ out'[s] = out[s]
               /\ relay' = (IF s = 1 THEN "rest 2" ELSE "loop") /\ endedBy' = endedBy
            \/ relay' = "idle" /\ endedBy' = "write" /\ out' = out
<1>1. out[Other(s)] \in Seq(Bytes) /\ rest[s] \in Seq(Bytes) /\ Other(s) \in Sides /\ Other(s) # s
  BY TwoSides DEF RelayTypes
<1>2. out[Other(s)] \o rest[s] \in Seq(Bytes)
  BY <1>1, ConcatAt
<1>3. ASSUME out' = [out EXCEPT ![Other(s)] = out[Other(s)] \o rest[s]]
      PROVE  /\ out' \in [Sides -> Seq(Bytes)]
             /\ out'[Other(s)] = out[Other(s)] \o rest[s] /\ out'[s] = out[s]
  <2> DEFINE p == out[Other(s)] \o rest[s]
  <2> HIDE DEF p
  <2>1. p \in Seq(Bytes) /\ out' = [out EXCEPT ![Other(s)] = p] /\ out \in [Sides -> Seq(Bytes)]
    BY <1>2, <1>3 DEF p, RelayTypes
  <2>2. QED
    BY <1>1, <2>1 DEF p
<1>4. QED
  BY <1>3, Zenon DEF SendRest, RelayReturn

LEMMA SendBufDoes ==
  ASSUME NEW s \in Sides, SendBuf(s), RelayTypes
  PROVE  /\ relay = "loop" /\ buf[s] # << >>
         /\ UNCHANGED <<alive, coming, rest, relay, relays, endedBy, resent>>
         /\ \E k \in 1 .. Len(buf[s]) :
              /\ out' = [out EXCEPT ![s] = out[s] \o SubSeq(buf[s], 1, k)]
              /\ buf' = [buf EXCEPT ![s] = SubSeq(buf[s], k + 1, Len(buf[s]))]
  BY DEF SendBuf, MustWrite, RelayTypes

LEMMA ReadBufDoes ==
  ASSUME NEW s \in Sides, ReadBuf(s), RelayTypes
  PROVE  /\ relay = "loop" /\ buf[s] = << >>
         /\ UNCHANGED <<alive, rest, relay, relays, endedBy, resent>>
         /\ \E n \in 1 .. Len(coming[Other(s)]) : \E k \in 0 .. n :
              /\ n <= BufLen
              /\ out' = [out EXCEPT ![s] = out[s] \o SubSeq(SubSeq(coming[Other(s)], 1, n), 1, k)]
              /\ buf' = [buf EXCEPT ![s] = SubSeq(SubSeq(coming[Other(s)], 1, n), k + 1, n)]
              /\ coming' = [coming EXCEPT ![Other(s)] = SubSeq(coming[Other(s)], n + 1, Len(coming[Other(s)]))]
<1>1. coming[Other(s)] \in Seq(Bytes) /\ Other(s) \in Sides
  BY TwoSides DEF RelayTypes
<1>2. PICK n \in 1 .. BufLen : n <= Len(coming[Other(s)]) /\ \E k \in 0 .. n :
              /\ out' = [out EXCEPT ![s] = out[s] \o SubSeq(SubSeq(coming[Other(s)], 1, n), 1, k)]
              /\ buf' = [buf EXCEPT ![s] = SubSeq(SubSeq(coming[Other(s)], 1, n), k + 1, n)]
              /\ coming' = [coming EXCEPT ![Other(s)] = SubSeq(coming[Other(s)], n + 1, Len(coming[Other(s)]))]
  BY <1>1 DEF ReadBuf, RelayTypes, SentAtOnce
<1>3. n \in 1 .. Len(coming[Other(s)]) /\ n <= BufLen
  BY <1>1, <1>2, RelayAssumption
<1>4. relay = "loop" /\ buf[s] = << >> /\ UNCHANGED <<alive, rest, relay, relays, endedBy, resent>>
  BY DEF ReadBuf, ReadReady, MustWrite
<1>5. QED
  BY <1>2, <1>3, <1>4

LEMMA ReadEndDoes ==
  ASSUME NEW s \in Sides, ReadEnd(s), RelayTypes
  PROVE  /\ relay = "loop" /\ relay' = "idle" /\ buf[s] = << >> /\ coming[Other(s)] = << >>
         /\ alive[Other(s)] # "open"
         /\ endedBy' = (IF s = 2 THEN "side 1" ELSE "side 2")
         /\ buf' = [d \in Sides |-> << >>]
         /\ UNCHANGED <<alive, coming, rest, out, relays, resent>>
  BY DEF ReadEnd, ReadReady, MustWrite, RelayReturn

LEMMA SideGoesDoes ==
  ASSUME NEW s \in Sides, SideGoes(s), RelayTypes
  PROVE  /\ UNCHANGED <<rest, buf, out, relay, relays, endedBy, resent>>
         /\ alive[s] = "open"
         /\ \A d \in Sides : d # s => alive'[d] = alive[d] /\ coming'[d] = coming[d]
         /\ \/ alive'[s] = "closed" /\ coming'[s] = coming[s]
            \/ alive'[s] = "reset" /\ coming'[s] = << >>
         /\ alive' \in [Sides -> {"open", "closed", "reset"}] /\ coming' \in [Sides -> Seq(Bytes)]
<1>1. alive \in [Sides -> {"open", "closed", "reset"}] /\ coming \in [Sides -> Seq(Bytes)]
  BY DEF RelayTypes
<1>2. CASE alive' = [alive EXCEPT ![s] = "closed"] /\ UNCHANGED coming
  BY <1>1, <1>2 DEF SideGoes
<1>3. CASE alive' = [alive EXCEPT ![s] = "reset"] /\ coming' = [coming EXCEPT ![s] = << >>]
  <2> DEFINE none == << >>
  <2>1. none \in Seq(Bytes)
    OBVIOUS
  <2> HIDE DEF none
  <2>2. coming' = [coming EXCEPT ![s] = none]
    BY <1>3 DEF none
  <2>3. coming' \in [Sides -> Seq(Bytes)] /\ coming'[s] = << >> /\ \A d \in Sides : d # s => coming'[d] = coming[d]
    BY <1>1, <2>1, <2>2 DEF none
  <2>4. QED
    BY <1>1, <1>3, <2>3 DEF SideGoes
<1>4. QED
  BY <1>2, <1>3 DEF SideGoes

(* A buffer that is dropped and bytes that are lost leave the order.       *)
LEMMA DropsKeepOrder ==
  ASSUME NEW o, NEW b, NEW c, NEW r, InOrder(o, b, c, r)
  PROVE  InOrder(o, << >>, c, r) /\ InOrder(o, b, << >>, r)
  BY DEF InOrder, Rising, RisesBut, Later

(* What the invariant says of one side.                                    *)
LEMMA InvTypes ==
  ASSUME RelayInv, NEW s \in Sides
  PROVE  /\ out[s] \in Seq(Bytes) /\ buf[s] \in Seq(Bytes) /\ coming[s] \in Seq(Bytes) /\ rest[s] \in Seq(Bytes)
         /\ Len(rest[s]) \in Nat /\ relays \in Nat
         /\ Unsent(s) \in Nat
         /\ InOrder(out[s], buf[s], coming[Other(s)], rest[Other(s)])
         /\ Counted(rest[s], 0)
<1>1. \A d \in Sides : Len(rest[d]) \in Nat
  <2>1. SUFFICES ASSUME NEW d \in Sides PROVE Len(rest[d]) \in Nat
    OBVIOUS
  <2>2. rest[d] \in Seq(Bytes)
    BY DEF RelayInv, RelayTypes
  <2>3. QED
    BY <2>2
<1>2. Unsent(s) \in Nat
  BY <1>1, TwoSides DEF Unsent
<1>3. QED
  BY <1>1, <1>2 DEF RelayInv, RelayTypes, Directions

(* Every action keeps the invariant.                                       *)
LEMMA SendRestKeeps ==
  ASSUME RelayInv, NEW s \in Sides, SendRest(s)
  PROVE  RelayInv'
<1> DEFINE d == Other(s)
<1>0. RelayTypes /\ BufsFit /\ Directions /\ FirstTime /\ FirstCall
  BY DEF RelayInv
<1>1. /\ relay = (IF s = 1 THEN "rest 1" ELSE "rest 2")
      /\ UNCHANGED <<alive, coming, rest, buf, relays, resent>>
  BY <1>0, SendRestDoes
<1>2. CASE relay' = "idle" /\ endedBy' = "write" /\ out' = out
  <2>1. RelayTypes' /\ BufsFit' /\ Directions'
    BY <1>0, <1>1, <1>2 DEF RelayTypes, BufsFit, Directions
  <2>2. FirstTime' /\ FirstCall'
    BY <1>0, <1>1, <1>2 DEF FirstTime, FirstCall
  <2>3. QED
    BY <2>1, <2>2 DEF RelayInv
<1>3. ASSUME out' \in [Sides -> Seq(Bytes)], out'[d] = out[d] \o rest[s], out'[s] = out[s],
             relay' = (IF s = 1 THEN "rest 2" ELSE "loop"), endedBy' = endedBy
      PROVE  RelayInv'
  <2>1. /\ d \in Sides /\ Other(d) = s /\ d # s /\ \A t \in Sides : t = s \/ t = d
        /\ s = 1 => d = 2
        /\ s # 1 => s = 2 /\ d = 1
    BY TwoSides DEF Sides
  <2> HIDE DEF d
  <2>2. RelayTypes' /\ BufsFit'
    BY <1>0, <1>1, <1>3 DEF RelayTypes, BufsFit
  <2>3. /\ InOrder(out[d], buf[d], coming[s], rest[s]) /\ Counted(rest[s], 0)
        /\ out[d] \in Seq(Bytes) /\ buf[d] \in Seq(Bytes) /\ coming[s] \in Seq(Bytes) /\ rest[s] \in Seq(Bytes)
    BY <2>1, InvTypes
  <2>4. /\ InOrder(out'[d], buf[d], coming[s], rest[s])
        /\ out[d] = << >> \/ rest[s] = << >> => (Rising(out[d]) => Rising(out'[d]))
    <3>1. /\ InOrder(out[d] \o rest[s], buf[d], coming[s], rest[s])
          /\ out[d] = << >> \/ rest[s] = << >> => (Rising(out[d]) => Rising(out[d] \o rest[s]))
      BY <2>3, RestKeepsOrder
    <3>2. QED
      BY <1>3, <3>1
  <2>5. Directions'
    <3>1. \A t \in Sides : InOrder(out'[t], buf[t], coming[Other(t)], rest[Other(t)])
      BY <1>0, <1>3, <2>1, <2>4 DEF Directions
    <3>2. QED
      BY <1>0, <1>1, <3>1 DEF Directions
  <2>6. relays # 0 /\ (relays = 1 => out[d] = << >>)
    BY <1>0, <1>1, <2>1 DEF FirstTime
  <2>10. relays \in Nat /\ relays > 0 /\ (relays = 1 \/ relays > 1) /\ (relays <= 1 => relays = 1)
    <3>1. relays \in Nat
      BY <1>0 DEF RelayTypes
    <3>2. relays # 0
      BY <2>6
    <3>3. QED
      BY <3>1, <3>2
  <2>7. FirstTime'
    <3>1. ~resent => (out[d] = << >> \/ rest[s] = << >>)
      BY <1>0, <2>6, <2>10 DEF FirstTime
    <3>2. \A t \in Sides : ~resent => Rising(out'[t])
      BY <1>0, <1>3, <2>1, <2>4, <3>1 DEF FirstTime
    <3>3. \A t \in Sides : relays = 1 /\ (relay' = "rest 1" \/ (relay' = "rest 2" /\ t = 1)) => out'[t] = << >>
      BY <1>0, <1>1, <1>3, <2>1 DEF FirstTime
    <3>4. QED
      BY <1>0, <1>1, <2>6, <3>2, <3>3 DEF FirstTime
  <2>8. FirstCall'
    <3>1. ASSUME relays = 1
          PROVE  /\ Counted(out'[d], 0) /\ Numbered(out'[d], buf[d], coming[s], 0)
                 /\ Len(out'[d]) = Len(rest[s]) /\ Unsent(d) = Len(rest[s])
                 /\ buf[d] = << >> /\ out[d] = << >>
      <4>1. out[d] = << >> /\ buf[d] = << >> /\ Unsent(d) = Len(rest[s])
        BY <1>0, <1>1, <2>1, <2>6, <3>1 DEF BufsFit, Unsent
      <4>2. Numbered(out[d], buf[d], coming[s], Unsent(d))
        BY <1>0, <1>1, <2>1, <3>1 DEF FirstCall
      <4>3. QED
        BY <1>3, <2>3, <4>1, <4>2, RestKeepsNumbers
    <3>2. ASSUME relays = 1 PROVE Unsent(d)' = 0 /\ Unsent(s)' = Unsent(s)
      BY <1>1, <1>3, <2>1, <3>2 DEF Unsent
    <3>3. ASSUME relays = 1, alive[s] # "reset" PROVE Len(out'[d]) + Len(buf[d]) + 0 + Len(coming[s]) = MaxSent
      <4>1. Len(out[d]) + Len(buf[d]) + Unsent(d) + Len(coming[s]) = MaxSent
        BY <1>0, <1>1, <2>1, <3>3 DEF FirstCall
      <4>2. Len(out[d]) = 0 /\ Len(buf[d]) = 0 /\ Len(rest[s]) \in Nat
        BY <2>3, <3>1, <3>3
      <4>3. Len(coming[s]) \in Nat /\ MaxSent \in Nat
        BY <2>3, RelayAssumption
      <4>4. Unsent(d) + Len(coming[s]) = MaxSent
        BY <3>1, <3>3, <4>1, <4>2, <4>3
      <4>5. Len(out'[d]) = Len(rest[s]) /\ Unsent(d) = Len(rest[s])
        BY <3>1, <3>3
      <4>6. Len(rest[s]) + Len(coming[s]) = MaxSent
        BY <4>4, <4>5
      <4>7. Len(rest[s]) + 0 + 0 + Len(coming[s]) = MaxSent
        <5>1. \A a, b \in Nat : a + 0 + 0 + b = a + b
          OBVIOUS
        <5>2. QED
          BY <4>2, <4>3, <4>6, <5>1, Zenon
      <4>8. QED
        BY <4>2, <4>5, <4>7, Zenon
    <3>4. relays \in Nat /\ (relays <= 1 => relays = 1)
      BY <2>10
    <3>5. CASE relays = 1
      <4>1. relay' # "idle" /\ relay # "idle"
        BY <1>1, <1>3
      <4>2. \A t \in Sides : Counted(out'[t], 0)
        <5>1. Counted(out'[d], 0)
          BY <3>1, <3>5
        <5>2. relays <= 1
          BY <3>5
        <5>3. Counted(out[s], 0)
          BY <1>0, <5>2 DEF FirstCall
        <5>4. QED
          BY <1>3, <2>1, <5>1, <5>3
      <4>3. \A t \in Sides : /\ Numbered(out'[t], buf[t], coming[Other(t)], Unsent(t)')
                             /\ alive[Other(t)] # "reset" => Len(out'[t]) + Len(buf[t]) + Unsent(t)' + Len(coming[Other(t)]) = MaxSent
        <5>1. /\ Numbered(out'[d], buf[d], coming[Other(d)], Unsent(d)')
              /\ alive[Other(d)] # "reset" => Len(out'[d]) + Len(buf[d]) + Unsent(d)' + Len(coming[Other(d)]) = MaxSent
          BY <2>1, <3>1, <3>2, <3>3, <3>5
        <5>2. /\ Numbered(out'[s], buf[s], coming[Other(s)], Unsent(s)')
              /\ alive[Other(s)] # "reset" => Len(out'[s]) + Len(buf[s]) + Unsent(s)' + Len(coming[Other(s)]) = MaxSent
          BY <1>0, <1>3, <3>2, <3>5, <4>1 DEF FirstCall
        <5>3. QED
          BY <2>1, <5>1, <5>2
      <4>4. QED
        BY <1>1, <3>5, <4>1, <4>2, <4>3 DEF FirstCall
    <3>6. CASE relays # 1
      BY <1>1, <2>6, <3>4, <3>6 DEF FirstCall
    <3>7. QED
      BY <3>5, <3>6
  <2>9. QED
    BY <2>2, <2>5, <2>7, <2>8 DEF RelayInv
<1>4. QED
  BY <1>0, <1>2, <1>3, SendRestDoes

LEMMA SendBufKeeps ==
  ASSUME RelayInv, NEW s \in Sides, SendBuf(s)
  PROVE  RelayInv'
<1>0. RelayTypes /\ BufsFit /\ Directions /\ FirstTime /\ FirstCall
  BY DEF RelayInv
<1>1. /\ relay = "loop" /\ UNCHANGED <<alive, coming, rest, relay, relays, endedBy, resent>>
  BY <1>0, SendBufDoes
<1>2. PICK k \in 1 .. Len(buf[s]) :
        /\ out' = [out EXCEPT ![s] = out[s] \o SubSeq(buf[s], 1, k)]
        /\ buf' = [buf EXCEPT ![s] = SubSeq(buf[s], k + 1, Len(buf[s]))]
  BY <1>0, SendBufDoes
<1> DEFINE p == out[s] \o SubSeq(buf[s], 1, k)
           e == SubSeq(buf[s], k + 1, Len(buf[s]))
           c == coming[Other(s)]
           r == rest[Other(s)]
<1>3. /\ out[s] \in Seq(Bytes) /\ buf[s] \in Seq(Bytes) /\ c \in Seq(Bytes) /\ r \in Seq(Bytes)
      /\ InOrder(out[s], buf[s], c, r) /\ Unsent(s) \in Nat
  BY InvTypes, TwoSides
<1>4. /\ InOrder(p, e, c, r) /\ (Rising(out[s]) => Rising(p))
      /\ p \in Seq(Bytes) /\ e \in Seq(Bytes)
  BY <1>3, SendKeepsOrder
<1>5. ASSUME Counted(out[s], 0), Numbered(out[s], buf[s], c, Unsent(s))
      PROVE  Counted(p, 0) /\ Numbered(p, e, c, Unsent(s)) /\ AsMany(out[s], buf[s], c, p, e, c)
  <2> DEFINE u == Unsent(s)
  <2>1. u \in Nat /\ Numbered(out[s], buf[s], c, u)
    BY <1>3, <1>5
  <2> HIDE DEF u
  <2>2. c \in Seq(Bytes) /\ out[s] \in Seq(Bytes) /\ buf[s] \in Seq(Bytes) /\ k \in 1 .. Len(buf[s])
    BY <1>3
  <2> HIDE DEF c
  <2>3. Counted(p, 0) /\ Numbered(p, e, c, u) /\ AsMany(out[s], buf[s], c, p, e, c)
    BY <1>5, <2>1, <2>2, SendKeepsNumbers
  <2>4. QED
    BY <2>3 DEF u
<1>6. Len(e) <= Len(buf[s])
  <2>1. Len(buf[s]) \in Nat /\ Len(e) = Len(buf[s]) - k
    BY <1>3, SubSeqIsPart
  <2>2. QED
    BY <2>1
<1> HIDE DEF p, e, c, r
<1>7. out' = [out EXCEPT ![s] = p] /\ buf' = [buf EXCEPT ![s] = e]
  BY <1>2 DEF p, e
<1>8. /\ out' \in [Sides -> Seq(Bytes)] /\ buf' \in [Sides -> Seq(Bytes)]
      /\ out'[s] = p /\ buf'[s] = e
      /\ \A t \in Sides : t # s => out'[t] = out[t] /\ buf'[t] = buf[t]
  BY <1>0, <1>4, <1>7 DEF RelayTypes
<1>9. RelayTypes'
  BY <1>0, <1>1, <1>8 DEF RelayTypes
<1>10. BufsFit'
  <2>1. \A t \in Sides : Len(buf'[t]) <= BufLen
    <3>1. Len(buf'[s]) <= BufLen
      <4>1. Len(buf[s]) \in Nat /\ Len(e) \in Nat /\ Len(buf[s]) <= BufLen /\ BufLen \in Nat
        BY <1>0, <1>3, <1>4, RelayAssumption DEF BufsFit
      <4>2. QED
        BY <1>6, <1>8, <4>1
    <3>2. QED
      BY <1>0, <1>8, <3>1 DEF BufsFit
  <2>2. QED
    BY <1>1, <2>1 DEF BufsFit
<1>11. Directions'
  <2>1. InOrder(out'[s], buf'[s], coming[Other(s)], rest[Other(s)])
    BY <1>4, <1>8 DEF c, r
  <2>2. \A t \in Sides : InOrder(out'[t], buf'[t], coming[Other(t)], rest[Other(t)])
    BY <1>0, <1>8, <2>1 DEF Directions
  <2>3. QED
    BY <1>0, <1>1, <2>2 DEF Directions
<1>12. FirstTime'
  <2>1. \A t \in Sides : Rising(out[t]) => Rising(out'[t])
    BY <1>4, <1>8
  <2>2. relays # 0
    BY <1>0, <1>1 DEF FirstTime
  <2>3. QED
    BY <1>0, <1>1, <2>1, <2>2 DEF FirstTime
<1>13. FirstCall'
  <2>1. relays # 0 /\ UNCHANGED relays /\ \A t \in Sides : Unsent(t)' = Unsent(t)
    BY <1>0, <1>1 DEF FirstTime, Unsent
  <2>2. relays <= 1 => relays = 1
    <3>1. relays \in Nat
      BY <1>0 DEF RelayTypes
    <3>2. relays # 0
      BY <2>1
    <3>3. QED
      BY <3>1, <3>2
  <2>3. CASE relays = 1
    <3>1. /\ \A t \in Sides : Counted(out[t], 0)
          /\ \A t \in Sides : Numbered(out[t], buf[t], coming[Other(t)], Unsent(t))
          /\ \A t \in Sides : alive[Other(t)] # "reset" =>
               Len(out[t]) + Len(buf[t]) + Unsent(t) + Len(coming[Other(t)]) = MaxSent
      <4>1. relays <= 1 /\ relay # "idle"
        BY <1>1, <2>3
      <4>2. QED
        BY <1>0, <2>3, <4>1 DEF FirstCall
    <3>2. /\ Counted(out'[s], 0) /\ Numbered(out'[s], buf'[s], coming[Other(s)], Unsent(s))
          /\ Len(out'[s]) + Len(buf'[s]) = Len(out[s]) + Len(buf[s])
      <4>1. /\ Counted(p, 0) /\ Numbered(p, e, c, Unsent(s))
            /\ AsMany(out[s], buf[s], c, p, e, c)
        BY <1>5, <3>1 DEF c
      <4>2. Len(p) + Len(e) = Len(out[s]) + Len(buf[s])
        <5> DEFINE lp == Len(p)
                   le == Len(e)
                   lc == Len(c)
                   lo == Len(out[s])
                   lb == Len(buf[s])
        <5>1. /\ lp \in Nat /\ le \in Nat /\ lc \in Nat /\ lo \in Nat /\ lb \in Nat
          BY <1>3, <1>4
        <5>2. lp + le + lc = lo + lb + lc
          BY <4>1, Zenon DEF AsMany
        <5> HIDE DEF lp, le, lc, lo, lb
        <5>3. lp + le = lo + lb
          BY <5>1, <5>2
        <5>4. QED
          BY <5>3 DEF lp, le, lo, lb
      <4>3. QED
        BY <1>8, <4>1, <4>2 DEF c
    <3>3. /\ \A t \in Sides : Counted(out'[t], 0)
          /\ \A t \in Sides : Numbered(out'[t], buf'[t], coming[Other(t)], Unsent(t))
          /\ \A t \in Sides : Len(out'[t]) + Len(buf'[t]) = Len(out[t]) + Len(buf[t])
      BY <1>8, <3>1, <3>2
    <3>4. \A t \in Sides : alive[Other(t)] # "reset" =>
               Len(out'[t]) + Len(buf'[t]) + Unsent(t) + Len(coming[Other(t)]) = MaxSent
      BY <3>1, <3>3
    <3>5. QED
      BY <1>1, <2>1, <2>3, <3>3, <3>4 DEF FirstCall
  <2>4. CASE relays # 1
    BY <1>1, <2>1, <2>2, <2>4 DEF FirstCall
  <2>5. QED
    BY <2>3, <2>4
<1>14. QED
  BY <1>9, <1>10, <1>11, <1>12, <1>13 DEF RelayInv
(* What holds while a call is in its loop.                                 *)
LEMMA CallRuns ==
  ASSUME RelayInv, relay = "loop"
  PROVE  /\ relays # 0 /\ (relays <= 1 => relays = 1)
         /\ \A t \in Sides : Unsent(t) = 0
         /\ relays = 1 => \A t \in Sides :
              /\ Counted(out[t], 0) /\ Numbered(out[t], buf[t], coming[Other(t)], 0)
              /\ alive[Other(t)] # "reset" =>
                   Len(out[t]) + Len(buf[t]) + 0 + Len(coming[Other(t)]) = MaxSent
<1>1. relays # 0 /\ relays \in Nat
  BY DEF RelayInv, FirstTime, RelayTypes
<1>2. relays <= 1 => relays = 1
  BY <1>1
<1>3. \A t \in Sides : Unsent(t) = 0
  BY <1>1 DEF Unsent
<1>4. ASSUME relays = 1, NEW t \in Sides
      PROVE  /\ Counted(out[t], 0) /\ Numbered(out[t], buf[t], coming[Other(t)], 0)
             /\ alive[Other(t)] # "reset" =>
                  Len(out[t]) + Len(buf[t]) + 0 + Len(coming[Other(t)]) = MaxSent
  <2>1. relays <= 1 /\ relay # "idle"
    BY <1>4
  <2>2. /\ Counted(out[t], 0) /\ Numbered(out[t], buf[t], coming[Other(t)], Unsent(t))
        /\ alive[Other(t)] # "reset" =>
             Len(out[t]) + Len(buf[t]) + Unsent(t) + Len(coming[Other(t)]) = MaxSent
    BY <1>4, <2>1 DEF RelayInv, FirstCall
  <2>3. Unsent(t) = 0
    BY <1>3
  <2>4. QED
    BY <2>2, <2>3, Zenon
<1>5. QED
  BY <1>1, <1>2, <1>3, <1>4

LEMMA ReadBufKeeps ==
  ASSUME RelayInv, NEW s \in Sides, ReadBuf(s)
  PROVE  RelayInv'
<1>0. RelayTypes /\ BufsFit /\ Directions /\ FirstTime /\ FirstCall
  BY DEF RelayInv
<1>1. /\ relay = "loop" /\ buf[s] = << >>
      /\ UNCHANGED <<alive, rest, relay, relays, endedBy, resent>>
  BY <1>0, ReadBufDoes
<1>2. PICK n \in 1 .. Len(coming[Other(s)]) : \E k \in 0 .. n :
        /\ n <= BufLen
        /\ out' = [out EXCEPT ![s] = out[s] \o SubSeq(SubSeq(coming[Other(s)], 1, n), 1, k)]
        /\ buf' = [buf EXCEPT ![s] = SubSeq(SubSeq(coming[Other(s)], 1, n), k + 1, n)]
        /\ coming' = [coming EXCEPT ![Other(s)] = SubSeq(coming[Other(s)], n + 1, Len(coming[Other(s)]))]
  BY <1>0, ReadBufDoes
<1>3. PICK k \in 0 .. n :
        /\ n <= BufLen
        /\ out' = [out EXCEPT ![s] = out[s] \o SubSeq(SubSeq(coming[Other(s)], 1, n), 1, k)]
        /\ buf' = [buf EXCEPT ![s] = SubSeq(SubSeq(coming[Other(s)], 1, n), k + 1, n)]
        /\ coming' = [coming EXCEPT ![Other(s)] = SubSeq(coming[Other(s)], n + 1, Len(coming[Other(s)]))]
  BY <1>2
<1> DEFINE c == coming[Other(s)]
           r == rest[Other(s)]
           p == out[s] \o SubSeq(SubSeq(c, 1, n), 1, k)
           b == SubSeq(SubSeq(c, 1, n), k + 1, n)
           e == SubSeq(c, n + 1, Len(c))
<1>4. /\ Other(s) \in Sides /\ Other(s) # s /\ Other(Other(s)) = s
      /\ \A t \in Sides : t # s => Other(t) = s /\ Other(t) # Other(s)
      /\ \A t \in Sides : t # Other(s) => t = s
  BY TwoSides DEF Sides
<1>5. /\ out[s] \in Seq(Bytes) /\ c \in Seq(Bytes) /\ r \in Seq(Bytes)
      /\ InOrder(out[s], << >>, c, r)
  <2>1. /\ out[s] \in Seq(Bytes) /\ InOrder(out[s], buf[s], c, r)
    BY InvTypes
  <2>2. c \in Seq(Bytes) /\ r \in Seq(Bytes)
    BY <1>4, InvTypes
  <2>3. QED
    BY <1>1, <2>1, <2>2
<1>6. /\ InOrder(p, b, e, r) /\ (Rising(out[s]) => Rising(p))
      /\ p \in Seq(Bytes) /\ b \in Seq(Bytes) /\ e \in Seq(Bytes)
      /\ Len(b) = n - k
  <2> DEFINE o == out[s]
  <2>1. o \in Seq(Bytes) /\ c \in Seq(Bytes) /\ r \in Seq(Bytes) /\ InOrder(o, << >>, c, r)
    BY <1>5
  <2>2. n \in 1 .. Len(c) /\ k \in 0 .. n
    OBVIOUS
  <2>3. p = o \o SubSeq(SubSeq(c, 1, n), 1, k)
    OBVIOUS
  <2> HIDE DEF o, c, r, p
  <2>4. /\ InOrder(o \o SubSeq(SubSeq(c, 1, n), 1, k), b, e, r)
        /\ Rising(o) => Rising(o \o SubSeq(SubSeq(c, 1, n), 1, k))
        /\ o \o SubSeq(SubSeq(c, 1, n), 1, k) \in Seq(Bytes) /\ b \in Seq(Bytes) /\ e \in Seq(Bytes)
        /\ Len(b) = n - k
    BY <2>1, <2>2, ReadKeepsOrder
  <2>5. QED
    BY <2>3, <2>4, Zenon DEF o
<1>7. ASSUME Counted(out[s], 0), Numbered(out[s], << >>, c, 0)
      PROVE  Counted(p, 0) /\ Numbered(p, b, e, 0) /\ AsMany(out[s], << >>, c, p, b, e)
  BY <1>5, <1>7, ReadKeepsNumbers
<1>8. Len(b) <= BufLen
  BY <1>3, <1>6, RelayAssumption
<1> HIDE DEF p, b, e
<1>9. out' = [out EXCEPT ![s] = p] /\ buf' = [buf EXCEPT ![s] = b] /\ coming' = [coming EXCEPT ![Other(s)] = e]
  BY <1>3 DEF p, b, e
<1> HIDE DEF c, r
<1>10. /\ out' \in [Sides -> Seq(Bytes)] /\ buf' \in [Sides -> Seq(Bytes)] /\ coming' \in [Sides -> Seq(Bytes)]
       /\ out'[s] = p /\ buf'[s] = b /\ coming'[Other(s)] = e
       /\ \A t \in Sides : t # s => out'[t] = out[t] /\ buf'[t] = buf[t] /\ coming'[Other(t)] = coming[Other(t)]
  BY <1>0, <1>4, <1>6, <1>9 DEF RelayTypes
<1>11. RelayTypes'
  BY <1>0, <1>1, <1>10 DEF RelayTypes
<1>12. BufsFit'
  BY <1>0, <1>1, <1>8, <1>10 DEF BufsFit
<1>13. Directions'
  <2>1. InOrder(out'[s], buf'[s], coming'[Other(s)], rest[Other(s)])
    BY <1>6, <1>10, Zenon DEF r
  <2>2. \A t \in Sides : InOrder(out'[t], buf'[t], coming'[Other(t)], rest[Other(t)])
    BY <1>0, <1>10, <2>1 DEF Directions
  <2>3. QED
    BY <1>0, <1>1, <2>2 DEF Directions
<1>14. FirstTime'
  <2>1. \A t \in Sides : Rising(out[t]) => Rising(out'[t])
    BY <1>6, <1>10
  <2>2. relays # 0
    BY <1>0, <1>1 DEF FirstTime
  <2>3. QED
    BY <1>0, <1>1, <2>1, <2>2 DEF FirstTime
<1>15. FirstCall'
  <2>1. relays # 0 /\ (relays <= 1 => relays = 1) /\ \A t \in Sides : Unsent(t)' = 0
    <3>1. relays # 0 /\ (relays <= 1 => relays = 1)
      BY <1>1, CallRuns
    <3>2. QED
      BY <1>1, <3>1 DEF Unsent
  <2>2. CASE relays = 1
    <3>1. \A t \in Sides :
            /\ Counted(out[t], 0) /\ Numbered(out[t], buf[t], coming[Other(t)], 0)
            /\ alive[Other(t)] # "reset" =>
                 Len(out[t]) + Len(buf[t]) + 0 + Len(coming[Other(t)]) = MaxSent
      BY <1>1, <2>2, CallRuns
    <3>2. Counted(p, 0) /\ Numbered(p, b, e, 0) /\ AsMany(out[s], << >>, c, p, b, e)
      BY <1>1, <1>7, <3>1, Zenon DEF c
    <3>3. alive[Other(s)] # "reset" => Len(p) + Len(b) + 0 + Len(e) = MaxSent
      <4> DEFINE lp == Len(p)
                 le == Len(e)
                 lc == Len(c)
                 lo == Len(out[s])
                 lb == Len(b)
                 l0 == Len(<< >>)
      <4>1. /\ lp \in Nat /\ le \in Nat /\ lc \in Nat /\ lo \in Nat /\ lb \in Nat /\ l0 = 0
        BY <1>5, <1>6
      <4>2. lp + lb + le = lo + l0 + lc
        BY <3>2, Zenon DEF AsMany
      <4>3. alive[Other(s)] # "reset" => lo + l0 + 0 + lc = MaxSent
        BY <1>1, <3>1, Zenon DEF c
      <4> HIDE DEF lp, le, lc, lo, lb, l0
      <4>4. alive[Other(s)] # "reset" => lp + lb + 0 + le = MaxSent
        BY <4>1, <4>2, <4>3
      <4>5. QED
        BY <4>4 DEF lp, lb, le
    <3>4. \A t \in Sides :
            /\ Counted(out'[t], 0) /\ Numbered(out'[t], buf'[t], coming'[Other(t)], 0)
            /\ alive[Other(t)] # "reset" =>
                 Len(out'[t]) + Len(buf'[t]) + 0 + Len(coming'[Other(t)]) = MaxSent
      <4>1. SUFFICES ASSUME NEW t \in Sides
                     PROVE  /\ Counted(out'[t], 0) /\ Numbered(out'[t], buf'[t], coming'[Other(t)], 0)
                            /\ alive[Other(t)] # "reset" =>
                                 Len(out'[t]) + Len(buf'[t]) + 0 + Len(coming'[Other(t)]) = MaxSent
        OBVIOUS
      <4>2. CASE t = s
        BY <1>10, <3>2, <3>3, <4>2, Zenon
      <4>3. CASE t # s
        BY <1>10, <3>1, <4>1, <4>3, Zenon
      <4>4. QED
        BY <4>2, <4>3
    <3>5. \A t \in Sides :
            /\ Counted(out'[t], 0) /\ Numbered(out'[t], buf'[t], coming'[Other(t)], Unsent(t)')
            /\ alive[Other(t)] # "reset" =>
                 Len(out'[t]) + Len(buf'[t]) + Unsent(t)' + Len(coming'[Other(t)]) = MaxSent
      BY <2>1, <3>4, Zenon
    <3>6. QED
      BY <1>1, <2>2, <3>5 DEF FirstCall
  <2>3. CASE relays # 1
    BY <1>1, <2>1, <2>3 DEF FirstCall
  <2>4. QED
    BY <2>2, <2>3
<1>16. QED
  BY <1>11, <1>12, <1>13, <1>14, <1>15 DEF RelayInv

(* Nothing fits in every buffer.                                           *)
LEMMA NoBytes == \A n : n = 0 => n <= BufLen
  BY RelayAssumption

LEMMA EmptyIsFit ==
  ASSUME NEW x, x = << >>
  PROVE  x \in Seq(Bytes) /\ Len(x) = 0 /\ Len(x) <= BufLen
<1>1. x \in Seq(Bytes)
  OBVIOUS
<1>2. Len(x) = 0
  OBVIOUS
<1> DEFINE n == Len(x)
<1>3. n = 0
  BY <1>2
<1> HIDE DEF n
<1>4. n <= BufLen
  BY <1>3, NoBytes
<1>5. QED
  BY <1>1, <1>2, <1>4 DEF n

(* A sum of which one part counts.                                         *)
LEMMA OnlyZeroes == \A n \in Nat : \A z : z = 0 => n + z + 0 + z = n
  OBVIOUS

(* A call that ends drops its buffers.                                     *)
LEMMA LoopEnds ==
  ASSUME RelayInv, relay = "loop", relay' = "idle", buf' = [d \in Sides |-> << >>],
         UNCHANGED <<alive, coming, rest, out, relays, resent>>,
         endedBy' \in {"none", "write", "side 1", "side 2", "timeout"},
         \A t \in Sides : endedBy' = (IF t = 1 THEN "side 1" ELSE "side 2")
           => /\ alive[t] # "open"
              /\ buf[Other(t)] = << >> /\ coming[t] = << >>
  PROVE  RelayInv'
<1>0. RelayTypes /\ BufsFit /\ Directions /\ FirstTime /\ FirstCall
  BY DEF RelayInv
<1>1. \A d \in Sides : buf'[d] \in Seq(Bytes) /\ Len(buf'[d]) <= BufLen /\ buf'[d] = << >>
  <2>1. SUFFICES ASSUME NEW d \in Sides
                 PROVE  buf'[d] \in Seq(Bytes) /\ Len(buf'[d]) <= BufLen /\ buf'[d] = << >>
    OBVIOUS
  <2>2. buf'[d] = << >>
    OBVIOUS
  <2>3. QED
    <3> DEFINE x == buf'[d]
    <3>1. x = << >>
      BY <2>2
    <3> HIDE DEF x
    <3>2. x \in Seq(Bytes) /\ Len(x) <= BufLen
      BY <3>1, EmptyIsFit
    <3>3. QED
      BY <3>1, <3>2 DEF x
<1>2. RelayTypes'
  <2>1. buf' \in [Sides -> Seq(Bytes)]
    BY <1>1
  <2>2. QED
    BY <1>0, <2>1 DEF RelayTypes
<1>3. BufsFit'
  BY <1>1 DEF BufsFit
<1>4. Directions'
  <2>1. \A t \in Sides : InOrder(out[t], << >>, coming[Other(t)], rest[Other(t)])
    BY <1>0, DropsKeepOrder DEF Directions
  <2>2. \A t \in Sides : InOrder(out[t], buf'[t], coming[Other(t)], rest[Other(t)])
    BY <2>1
  <2>3. QED
    BY <1>0, <2>2 DEF Directions
<1>5. FirstTime'
  BY <1>0 DEF FirstTime
<1>6. FirstCall'
  <2>1. relays # 0
    BY CallRuns
  <2>2. \A t \in Sides : relays <= 1 => Counted(out[t], 0)
    BY <1>0 DEF FirstCall
  <2>3. ASSUME NEW t \in Sides, relays = 1, endedBy' = (IF t = 1 THEN "side 1" ELSE "side 2")
        PROVE  alive[t] # "open" /\ (alive[t] = "closed" => Len(out[Other(t)]) = MaxSent)
    <3>1. alive[t] # "open" /\ buf[Other(t)] = << >> /\ coming[t] = << >>
      BY <2>3
    <3>2. Other(t) \in Sides /\ Other(Other(t)) = t
      BY TwoSides
    <3>3. alive[t] # "reset" => Len(out[Other(t)]) + Len(buf[Other(t)]) + 0 + Len(coming[t]) = MaxSent
      <4>1. alive[Other(Other(t))] # "reset" =>
              Len(out[Other(t)]) + Len(buf[Other(t)]) + 0 + Len(coming[Other(Other(t))]) = MaxSent
        BY <2>3, <3>2, CallRuns
      <4>2. QED
        BY <3>2, <4>1, Zenon
    <3>4. alive[t] # "reset" => Len(out[Other(t)]) = MaxSent
      <4> DEFINE lo == Len(out[Other(t)])
                 l0 == Len(<< >>)
      <4>1. alive[t] # "reset" => lo + l0 + 0 + l0 = MaxSent
        BY <3>1, <3>3, Zenon
      <4>2. out[Other(t)] \in Seq(Bytes)
        BY <3>2, InvTypes
      <4>3. lo \in Nat /\ l0 = 0
        BY <4>2, Lens, EmptyIsFit, Zenon
      <4> HIDE DEF lo, l0
      <4>4. alive[t] # "reset" => lo = MaxSent
        <5>1. lo + l0 + 0 + l0 = lo
          BY <4>3, OnlyZeroes, Zenon
        <5>2. QED
          BY <4>1, <5>1, Zenon
      <4>5. QED
        BY <4>4 DEF lo
    <3>5. QED
      BY <3>1, <3>4
  <2>4. QED
    BY <2>1, <2>2, <2>3 DEF FirstCall
<1>7. QED
  BY <1>2, <1>3, <1>4, <1>5, <1>6 DEF RelayInv

LEMMA ReadEndKeeps ==
  ASSUME RelayInv, NEW s \in Sides, ReadEnd(s)
  PROVE  RelayInv'
<1>1. /\ relay = "loop" /\ relay' = "idle" /\ buf[s] = << >> /\ coming[Other(s)] = << >>
      /\ alive[Other(s)] # "open"
      /\ endedBy' = (IF s = 2 THEN "side 1" ELSE "side 2")
      /\ buf' = [d \in Sides |-> << >>]
      /\ UNCHANGED <<alive, coming, rest, out, relays, resent>>
  BY ReadEndDoes DEF RelayInv
<1>2. ASSUME NEW t \in Sides, endedBy' = (IF t = 1 THEN "side 1" ELSE "side 2")
      PROVE  t = Other(s) /\ Other(t) = s
  <2>1. (s = 1 /\ t = 2) \/ (s = 2 /\ t = 1)
    BY <1>1, <1>2 DEF Sides
  <2>2. QED
    BY <2>1, TwoSides
<1>3. \A t \in Sides : endedBy' = (IF t = 1 THEN "side 1" ELSE "side 2")
           => alive[t] # "open" /\ buf[Other(t)] = << >> /\ coming[t] = << >>
  BY <1>1, <1>2, Zenon
<1>4. endedBy' \in {"none", "write", "side 1", "side 2", "timeout"}
  BY <1>1
<1>5. QED
  BY <1>1, <1>3, <1>4, LoopEnds

LEMMA RelayTimeoutKeeps ==
  ASSUME RelayInv, RelayTimeout
  PROVE  RelayInv'
<1>1. /\ relay = "loop" /\ relay' = "idle" /\ endedBy' = "timeout"
      /\ buf' = [d \in Sides |-> << >>]
      /\ UNCHANGED <<alive, coming, rest, out, relays, resent>>
  BY DEF RelayTimeout, RelayReturn
<1>2. \A t \in Sides : endedBy' # (IF t = 1 THEN "side 1" ELSE "side 2")
  BY <1>1
<1>3. QED
  BY <1>1, <1>2, LoopEnds

LEMMA RelayCallKeeps ==
  ASSUME RelayInv, RelayCall
  PROVE  RelayInv'
<1>0. RelayTypes /\ BufsFit /\ Directions /\ FirstTime /\ FirstCall
  BY DEF RelayInv
<1>1. /\ relay = "idle" /\ relay' = "rest 1" /\ relays' = relays + 1
      /\ resent' = (resent \/ (relays > 0 /\ \E s \in Sides : rest[s] # << >>))
      /\ UNCHANGED <<alive, coming, rest, buf, out, endedBy>>
  BY DEF RelayCall
<1>2. relays \in Nat
  BY <1>0 DEF RelayTypes
<1>3. relays' \in Nat /\ relays' # 0 /\ (relays' <= 1 => relays = 0 /\ relays' = 1) /\ (relays' = 1 => relays = 0)
      /\ (relays' > 1 => relays > 0)
  <2>1. relays' = relays + 1
    BY <1>1
  <2>2. QED
    BY <1>2, <2>1
<1>4. resent' \in BOOLEAN /\ (~resent' => ~resent /\ (relays > 0 => \A s \in Sides : rest[s] = << >>))
  BY <1>0, <1>1, Zenon DEF RelayTypes
<1>5. RelayTypes'
  BY <1>0, <1>1, <1>3, <1>4 DEF RelayTypes
<1>6. BufsFit' /\ Directions'
  BY <1>0, <1>1 DEF BufsFit, Directions
<1>7. FirstTime'
  <2>1. \A s \in Sides : ~resent' => Rising(out[s]) /\ (relays' > 1 => rest[s] = << >>)
    BY <1>0, <1>3, <1>4, Zenon DEF FirstTime
  <2>2. \A s \in Sides : relays' = 1 => out[s] = << >>
    BY <1>0, <1>3, Zenon DEF FirstTime
  <2>3. QED
    BY <1>1, <1>3, <2>1, <2>2, Zenon DEF FirstTime
<1>8. FirstCall'
  <2>1. ASSUME relays' = 1, NEW s \in Sides PROVE Unsent(s)' = Unsent(s)
    <3>1. relays = 0
      BY <1>3, <2>1
    <3>2. Unsent(s) = Len(rest[Other(s)])
      BY <3>1 DEF Unsent
    <3>3. Unsent(s)' = Len(rest[Other(s)])
      BY <1>1 DEF Unsent
    <3>4. QED
      BY <3>2, <3>3
  <2>2. \A s \in Sides : relays' <= 1 => Counted(out[s], 0)
    <3>1. relays' <= 1 => relays <= 1
      BY <1>3
    <3>2. QED
      BY <1>0, <3>1, Zenon DEF FirstCall
  <2>3. ASSUME relays' = 1, NEW s \in Sides
        PROVE  /\ Numbered(out[s], buf[s], coming[Other(s)], Unsent(s)')
               /\ alive[Other(s)] # "reset"
                    => Len(out[s]) + Len(buf[s]) + Unsent(s)' + Len(coming[Other(s)]) = MaxSent
    <3>1. relays = 0
      BY <1>3, <2>3
    <3>2. /\ Numbered(out[s], buf[s], coming[Other(s)], Unsent(s))
          /\ alive[Other(s)] # "reset"
               => Len(out[s]) + Len(buf[s]) + Unsent(s) + Len(coming[Other(s)]) = MaxSent
      BY <1>0, <3>1, Zenon DEF FirstCall
    <3>3. QED
      BY <2>1, <2>3, <3>2, Zenon
  <2>4. relay' # "idle" /\ relays' # 0
    BY <1>1, <1>3
  <2>5. QED
    BY <1>1, <2>2, <2>3, <2>4, Zenon DEF FirstCall
<1>9. QED
  BY <1>5, <1>6, <1>7, <1>8 DEF RelayInv

LEMMA SideGoesKeeps ==
  ASSUME RelayInv, NEW s \in Sides, SideGoes(s)
  PROVE  RelayInv'
<1>0. RelayTypes /\ BufsFit /\ Directions /\ FirstTime /\ FirstCall
  BY DEF RelayInv
<1>1. /\ UNCHANGED <<rest, buf, out, relay, relays, endedBy, resent>>
      /\ alive[s] = "open"
      /\ \A d \in Sides : d # s => alive'[d] = alive[d] /\ coming'[d] = coming[d]
      /\ \/ alive'[s] = "closed" /\ coming'[s] = coming[s]
         \/ alive'[s] = "reset" /\ coming'[s] = << >>
      /\ alive' \in [Sides -> {"open", "closed", "reset"}] /\ coming' \in [Sides -> Seq(Bytes)]
  BY <1>0, SideGoesDoes
<1>2. RelayTypes' /\ BufsFit' /\ FirstTime'
  BY <1>0, <1>1 DEF RelayTypes, BufsFit, FirstTime
<1>3. \A d \in Sides : coming'[d] = coming[d] \/ (coming'[d] = << >> /\ alive'[d] = "reset")
  BY <1>1
<1>4. \A d \in Sides : alive'[d] # "reset" => alive[d] # "reset" /\ coming'[d] = coming[d]
  BY <1>1
<1>5. Directions'
  <2>1. \A t \in Sides : InOrder(out[t], buf[t], coming'[Other(t)], rest[Other(t)])
    <3>1. SUFFICES ASSUME NEW t \in Sides
                   PROVE  InOrder(out[t], buf[t], coming'[Other(t)], rest[Other(t)])
      OBVIOUS
    <3>2. InOrder(out[t], buf[t], coming[Other(t)], rest[Other(t)]) /\ Other(t) \in Sides
      BY <1>0, TwoSides DEF Directions
    <3>3. InOrder(out[t], buf[t], << >>, rest[Other(t)])
      BY <3>2, DropsKeepOrder
    <3>4. QED
      BY <1>3, <3>2, <3>3, Zenon
  <2>2. QED
    BY <1>0, <1>1, <2>1 DEF Directions
<1>6. FirstCall'
  <2>1. \A t \in Sides : Unsent(t)' = Unsent(t)
    BY <1>1 DEF Unsent
  <2>2. ASSUME NEW t \in Sides, relays = 0 \/ (relays = 1 /\ relay # "idle")
        PROVE  /\ Numbered(out[t], buf[t], coming'[Other(t)], Unsent(t))
               /\ alive'[Other(t)] # "reset"
                    => Len(out[t]) + Len(buf[t]) + Unsent(t) + Len(coming'[Other(t)]) = MaxSent
    <3>1. /\ Numbered(out[t], buf[t], coming[Other(t)], Unsent(t))
          /\ alive[Other(t)] # "reset"
               => Len(out[t]) + Len(buf[t]) + Unsent(t) + Len(coming[Other(t)]) = MaxSent
      BY <1>0, <2>2, Zenon DEF FirstCall
    <3>2. Numbered(out[t], buf[t], << >>, Unsent(t))
      BY <3>1 DEF Numbered, Counted
    <3>3. QED
      BY <1>3, <1>4, <3>1, <3>2, TwoSides, Zenon
  <2>3. ASSUME NEW t \in Sides, relays = 1, relay = "idle", endedBy = (IF t = 1 THEN "side 1" ELSE "side 2")
        PROVE  alive'[t] # "open" /\ (alive'[t] = "closed" => Len(out[Other(t)]) = MaxSent)
    <3>1. alive[t] # "open" /\ (alive[t] = "closed" => Len(out[Other(t)]) = MaxSent)
      BY <1>0, <2>3, Zenon DEF FirstCall
    <3>2. alive'[t] = alive[t]
      BY <1>1, <3>1
    <3>3. QED
      BY <3>1, <3>2
  <2>4. \A t \in Sides : relays <= 1 => Counted(out[t], 0)
    BY <1>0 DEF FirstCall
  <2>5. QED
    BY <1>1, <2>1, <2>2, <2>3, <2>4, Zenon DEF FirstCall
<1>7. QED
  BY <1>2, <1>5, <1>6 DEF RelayInv

(* The inductive invariant holds in every state.                           *)
LEMMA RelayInvHolds == RelaySpec => []RelayInv
<1>1. ASSUME RelayInit PROVE RelayInv
  <2>1. PICK k \in [Sides -> 0 .. 1] :
          /\ rest = [s \in Sides |-> [i \in 1 .. k[s] |-> i]]
          /\ coming = [s \in Sides |-> [i \in 1 .. MaxSent - k[s] |-> k[s] + i]]
    BY <1>1 DEF RelayInit
  <2>2. /\ alive = [s \in Sides |-> "open"] /\ buf = [s \in Sides |-> << >>] /\ out = [s \in Sides |-> << >>]
        /\ relay = "idle" /\ relays = 0 /\ endedBy = "none" /\ resent = FALSE
    BY <1>1 DEF RelayInit
  <2>3. ASSUME NEW s \in Sides
        PROVE  /\ rest[s] \in Seq(Bytes) /\ Len(rest[s]) = k[s] /\ \A i \in 1 .. k[s] : rest[s][i] = i
               /\ coming[s] \in Seq(Bytes) /\ Len(coming[s]) = MaxSent - k[s]
               /\ \A i \in 1 .. MaxSent - k[s] : coming[s][i] = k[s] + i
    <3> DEFINE m == k[s]
    <3>1. m \in 0 .. 1 /\ MaxSent \in Nat /\ MaxSent - m \in Nat
      BY <2>3, RelayAssumption
    <3> HIDE DEF m
    <3>2. /\ [i \in 1 .. m |-> i] \in Seq(Bytes) /\ Len([i \in 1 .. m |-> i]) = m
          /\ \A i \in 1 .. m : [j \in 1 .. m |-> j][i] = i
      BY <3>1 DEF Bytes
    <3> DEFINE n == MaxSent - m
    <3> HIDE DEF n
    <3>3. n \in Nat
      BY <3>1 DEF n
    <3>4. /\ [i \in 1 .. n |-> m + i] \in Seq(Bytes) /\ Len([i \in 1 .. n |-> m + i]) = n
          /\ \A i \in 1 .. n : [j \in 1 .. n |-> m + j][i] = m + i
      BY <3>1, <3>3 DEF Bytes
    <3>5. rest[s] = [i \in 1 .. m |-> i] /\ coming[s] = [i \in 1 .. n |-> m + i]
      BY <2>1 DEF m, n
    <3>6. QED
      BY <3>2, <3>4, <3>5, Zenon DEF m, n
  <2>4. \A s \in Sides : k[s] \in 0 .. 1 /\ MaxSent \in Nat /\ MaxSent > 0
    BY RelayAssumption
  <2> DEFINE none == << >>
  <2>5. none \in Seq(Bytes) /\ Len(none) = 0 /\ Len(none) <= BufLen
    BY RelayAssumption
  <2>6. RelayTypes
    <3>1. rest \in [Sides -> Seq(Bytes)] /\ coming \in [Sides -> Seq(Bytes)]
      BY <2>1, <2>3
    <3>2. buf \in [Sides -> Seq(Bytes)] /\ out \in [Sides -> Seq(Bytes)]
      BY <2>2
    <3>3. relays \in Nat /\ resent \in BOOLEAN /\ alive \in [Sides -> {"open", "closed", "reset"}]
      BY <2>2
    <3>4. QED
      BY <2>2, <3>1, <3>2, <3>3 DEF RelayTypes
  <2>7. BufsFit
    BY <2>2, <2>5 DEF BufsFit
  <2>8. Directions
    <3>1. SUFFICES ASSUME NEW s \in Sides
                   PROVE  Counted(rest[s], 0) /\ InOrder(out[s], buf[s], coming[Other(s)], rest[Other(s)])
      BY DEF Directions
    <3>2. Counted(rest[s], 0)
      BY <2>3 DEF Counted
    <3>3. Other(s) \in Sides
      BY TwoSides
    <3> DEFINE c == coming[Other(s)]
               r == rest[Other(s)]
               m == k[Other(s)]
    <3>4. /\ Len(c) = MaxSent - m /\ \A i \in 1 .. MaxSent - m : c[i] = m + i
          /\ Len(r) = m /\ (\A i \in 1 .. m : r[i] = i) /\ m \in 0 .. 1 /\ MaxSent \in Nat
      BY <2>3, <2>4, <3>3
    <3> HIDE DEF c, r, m
    <3>5. Rising(c) /\ Later(r, c)
      BY <3>4 DEF Rising, RisesBut, Later
    <3>6. InOrder(<< >>, << >>, c, r)
      BY <3>5 DEF InOrder, Rising, RisesBut, Later
    <3>7. QED
      BY <2>2, <3>2, <3>6 DEF c, r
  <2>9. FirstTime
    BY <2>2 DEF FirstTime, Rising, RisesBut
  <2>10. FirstCall
    <3>1. ASSUME NEW s \in Sides
          PROVE  /\ Numbered(out[s], buf[s], coming[Other(s)], Unsent(s))
                 /\ Len(out[s]) + Len(buf[s]) + Unsent(s) + Len(coming[Other(s)]) = MaxSent
      <4>1. Other(s) \in Sides
        BY TwoSides
      <4> DEFINE c == coming[Other(s)]
                 m == k[Other(s)]
      <4>2. /\ Len(c) = MaxSent - m /\ \A i \in 1 .. MaxSent - m : c[i] = m + i
            /\ m \in 0 .. 1 /\ MaxSent \in Nat /\ Unsent(s) = m
        BY <2>2, <2>3, <2>4, <4>1 DEF Unsent
      <4> HIDE DEF c, m
      <4>3. Numbered(none, none, c, m) /\ Len(none) + Len(none) + m + Len(c) = MaxSent
        BY <2>5, <4>2 DEF Numbered, Counted
      <4>4. QED
        BY <2>2, <4>2, <4>3 DEF c
    <3>2. \A s \in Sides : Counted(out[s], 0)
      BY <2>2 DEF Counted
    <3>3. QED
      BY <2>2, <3>1, <3>2 DEF FirstCall
  <2>11. QED
    BY <2>6, <2>7, <2>8, <2>9, <2>10 DEF RelayInv
<1>2. ASSUME RelayInv, [RelayNext]_relayVars PROVE RelayInv'
  <2>1. ASSUME UNCHANGED relayVars PROVE RelayInv'
    BY <1>2, <2>1 DEF relayVars, RelayInv, RelayTypes, BufsFit, Directions, FirstTime, FirstCall, Unsent
  <2>2. QED
    BY <1>2, <2>1, SendRestKeeps, SendBufKeeps, ReadBufKeeps, ReadEndKeeps, RelayTimeoutKeeps,
       RelayCallKeeps, SideGoesKeeps DEF RelayNext, RelayStep
<1>3. QED
  BY <1>1, <1>2, PTL DEF RelaySpec

(* For every length of the buffers, every number of bytes and every number *)
(* of calls: what one side sends comes to the other in order and without a *)
(* gap while the first call lasts, no byte but the rest of rBuf is ever    *)
(* sent twice, and a side that closed has had all it sent passed on.       *)
THEOREM BytesKeepTheirOrder == RelaySpec => []RelayKept
<1>1. ASSUME RelayInv PROVE RelayKept
  <2>0. RelayTypes /\ BufsFit /\ Directions /\ FirstTime /\ FirstCall
    BY <1>1 DEF RelayInv
  <2>1. RelayTypeOK
    BY <2>0 DEF RelayTypeOK, RelayTypes, BufsFit
  <2>2. \A s \in Sides : DOMAIN out[s] = 1 .. Len(out[s]) /\ DOMAIN rest[s] = 1 .. Len(rest[s])
    <3>1. SUFFICES ASSUME NEW s \in Sides
                   PROVE  DOMAIN out[s] = 1 .. Len(out[s]) /\ DOMAIN rest[s] = 1 .. Len(rest[s])
      OBVIOUS
    <3>2. out[s] \in Seq(Bytes) /\ rest[s] \in Seq(Bytes)
      BY <2>0 DEF RelayTypes
    <3>3. QED
      BY <3>2
  <2>3. RelayedInOrder
    <3>1. ASSUME NEW s \in Sides, relays <= 1, NEW i \in DOMAIN out[s] PROVE out[s][i] = i
      <4>1. Counted(out[s], 0) /\ i \in 1 .. Len(out[s])
        BY <2>0, <2>2, <3>1 DEF FirstCall
      <4>2. QED
        BY <4>1 DEF Counted
    <3>2. QED
      BY <3>1 DEF RelayedInOrder
  <2>4. OnlyRestTwice
    <3>1. SUFFICES ASSUME NEW s \in Sides, NEW i \in DOMAIN out[s], NEW j \in DOMAIN out[s],
                          i < j, out[s][i] = out[s][j]
                   PROVE  resent /\ out[s][i] \in {rest[Other(s)][n] : n \in DOMAIN rest[Other(s)]}
      BY DEF OnlyRestTwice
    <3> DEFINE o == out[s]
               r == rest[Other(s)]
    <3>2. /\ i \in 1 .. Len(o) /\ j \in 1 .. Len(o) /\ Other(s) \in Sides
          /\ o \in Seq(Bytes) /\ r \in Seq(Bytes) /\ DOMAIN r = 1 .. Len(r)
      BY <1>1, <2>2, <3>1, InvTypes, TwoSides
    <3>3. RisesBut(o, Len(r)) /\ Counted(r, 0)
      BY <1>1, <3>2, InvTypes DEF InOrder
    <3>4. ~resent => RisesBut(o, 0)
      BY <2>0 DEF FirstTime, Rising
    <3>5. o[i] = o[j]
      BY <3>1
    <3> HIDE DEF o, r
    <3>6. o[i] \in Nat /\ o[i] > 0
      BY <3>2, Lens
    <3>7. resent
      BY <3>1, <3>2, <3>4, <3>5, <3>6 DEF RisesBut
    <3>8. o[i] <= Len(r)
      BY <3>1, <3>2, <3>3, <3>5, <3>6 DEF RisesBut
    <3>9. o[i] \in 1 .. Len(r) /\ r[o[i]] = o[i]
      <4>1. Len(r) \in Nat
        BY <3>2
      <4>2. o[i] \in 1 .. Len(r)
        BY <3>6, <3>8, <4>1
      <4>3. r[o[i]] = 0 + o[i]
        BY <3>3, <4>2 DEF Counted
      <4>4. QED
        BY <3>6, <4>2, <4>3
    <3>10. o[i] \in {r[n] : n \in DOMAIN r}
      BY <3>2, <3>9
    <3>11. QED
      BY <3>7, <3>10 DEF o, r
  <2>5. ClosedSideIsComplete
    BY <2>0, Zenon DEF ClosedSideIsComplete, FirstCall
  <2>6. QED
    BY <2>1, <2>3, <2>4, <2>5 DEF RelayKept
<1>2. QED
  BY <1>1, RelayInvHolds, PTL

-----------------------------------------------------------------------------
(* Modbus requests.  The inductive invariant follows a request: on the     *)
(* connection that is in use there is nothing, or the request of the one   *)
(* thread that holds conMux, at one of the places it passes.               *)

(* Who is in a call, and what it does there.                               *)
Holds == {"write", "header", "data", "release", "forget", "unlock"}
Reads == {"header", "data"}

Data == [kind |-> "data"]
HeadOf(t) == [kind |-> "head", nr |-> iMsgIdx, fn |-> fn[t], of |-> <<t, requests[t]>>]
AnswerTo(t) == [nr |-> iMsgIdx, of |-> <<t, requests[t]>>]

(* Nothing is on its way on a connection.                                  *)
Clean(c) == toDevice[c] = << >> /\ toMaster[c] = << >> /\ dpc[c] = "head"

MbTypes ==
  /\ MbTypeOK
  /\ cons \in 0 .. MaxCons
  /\ answer = [t \in Masters |-> answer[t]] /\ requests = [t \in Masters |-> requests[t]]
  /\ writtenOn \in [Masters -> {NULL} \cup ConIds]
  /\ toDevice = [c \in ConIds |-> toDevice[c]] /\ toMaster = [c \in ConIds |-> toMaster[c]]
  /\ dreq = [c \in ConIds |-> dreq[c]]

(* conMux is held from the writing of a request to the end of the call.    *)
LockOfOne == \A t \in Masters : mpc[t] \in Holds => mbMux = t

(* A connection nobody has used yet.                                       *)
Spare(c) ==
  /\ c \in masterOpen \ misread /\ c # mcon
  /\ toDevice[c] = << >> /\ toMaster[c] = << >> /\ dpc[c] = "head"
  /\ \A u \in Masters : writtenOn[u] # c

(* A connection that was just made is open, new and one thread's own.      *)
DialledFresh ==
  \A t \in Masters :
    /\ mpc[t] = "set con" <=> dialledCon[t] # NULL
    /\ dialledCon[t] # NULL =>
         Spare(dialledCon[t]) /\ \A u \in Masters \ {t} : dialledCon[u] # dialledCon[t]

Blank(c) ==
  /\ toDevice[c] = << >> /\ toMaster[c] = << >> /\ dpc[c] = "none"
  /\ c \notin misread /\ c # mcon /\ \A t \in Masters : writtenOn[t] # c

NotYetMade == \A c \in ConIds : c > cons => Blank(c)

(* On the connection in use there is nothing, or what a thread that has    *)
(* the lock has written there.                                             *)
CleanOrInUse ==
  mcon \in masterOpen \ misread =>
    \/ Clean(mcon)
    \/ \E t \in Masters : mpc[t] \in Reads \cup {"release"} /\ writtenOn[t] = mcon

(* A request is on its way, at the device, or its answer is.               *)
UnderWay(t, c) ==
  /\ fn[t] # "unknown"
  /\ \/ /\ toMaster[c] = << >>
        /\ \/ toDevice[c] = Blocks(t) /\ dpc[c] = "head"
           \/ /\ toDevice[c] = <<Data>> /\ dpc[c] = "data"
              /\ fn[t] = "write multiple" /\ dreq[c] = HeadOf(t)
           \/ toDevice[c] = << >> /\ dpc[c] = "answer" /\ dreq[c] = HeadOf(t)
     \/ toMaster[c] = <<AnswerTo(t)>> /\ toDevice[c] = << >> /\ dpc[c] = "head"

(* Who reads does so on the connection it wrote on, or, when another put   *)
(* its own in place, on one that is clean.                                 *)
ExchangeOf(t) ==
  /\ mcon \in masterOpen /\ writtenOn[t] # NULL
  /\ writtenOn[t] = mcon /\ mcon \notin misread => UnderWay(t, mcon)
  /\ writtenOn[t] # mcon => raced /\ mcon \notin misread

InExchange == \A t \in Masters : mpc[t] \in Reads => ExchangeOf(t)

(* When no two threads connected at once, what is open is the connection   *)
(* in use or was just made.                                                *)
OneOpen == ~raced => \A c \in masterOpen : c = mcon \/ \E t \in Masters : c = dialledCon[t]

(* A call writes once.                                                     *)
NotYetWritten ==
  \A t \in Masters :
    mpc[t] \in {"test", "connect", "set con", "lock", "write"} => writtenOn[t] = NULL

(* Who forgets the connection has closed it.                               *)
Forgotten ==
  \A t \in Masters : mpc[t] = "forget" /\ ~raced => mcon \notin masterOpen

MbInv ==
  /\ MbTypes /\ LockOfOne /\ DialledFresh /\ NotYetMade /\ CleanOrInUse /\ InExchange
  /\ Forgotten /\ NotYetWritten /\ AnswerIsOwn /\ OneOpen

LEMMA MbConstants ==
  /\ Numbers \in Nat \ {0} /\ MaxCons \in Nat /\ NULL = 0 /\ NULL \notin Masters
  /\ NULL \notin ConIds
<1>1. Numbers \in Nat \ {0} /\ MaxCons \in Nat
  BY ModbusAssumption
<1>2. NULL \notin Masters
  BY ModbusAssumption DEF NULL
<1>3. NULL \notin ConIds
  BY <1>1 DEF NULL, ConIds
<1>4. QED
  BY <1>1, <1>2, <1>3 DEF NULL

LEMMA OpenIds == MbTypes => masterOpen \subseteq ConIds /\ deviceOpen \subseteq ConIds
<1> SUFFICES ASSUME MbTypes
             PROVE  masterOpen \subseteq ConIds /\ deviceOpen \subseteq ConIds
  OBVIOUS
<1>1. MaxCons \in Nat /\ cons \in 0 .. MaxCons
  BY MbConstants DEF MbTypes
<1>2. 1 .. cons \subseteq ConIds
  BY <1>1 DEF ConIds
<1>3. QED
  BY <1>2 DEF MbTypes, MbTypeOK

LEMMA NumberNext ==
  ASSUME NEW n \in 0 .. Numbers - 1
  PROVE  (n + 1) % Numbers \in 0 .. Numbers - 1
<1>1. ASSUME NEW m \in Nat, NEW k \in Nat \ {0} PROVE m % k \in 0 .. k - 1
  BY <1>1
<1>2. Numbers \in Nat \ {0}
  BY MbConstants
<1>3. n + 1 \in Nat
  BY <1>2
<1>4. QED
  BY <1>1, <1>2, <1>3

(* Every step keeps each part of the invariant.                            *)
LEMMA MbTypesNext ==
  ASSUME MbInv, [MbNext]_mbVars
  PROVE  MbTypes'
<1>0. MbTypes
  BY DEF MbInv
<1>1. ASSUME NEW t \in Masters, Request(t) PROVE MbTypes'
  <2>1. fn' \in [Masters -> Functions \cup {"none"}]
    BY <1>0, <1>1 DEF Request, MbTypes, MbTypeOK
  <2>2. mpc' \in [Masters -> {"idle", "test", "connect", "set con", "lock", "write", "header",
                          "data", "release", "forget", "unlock"}]
    BY <1>0, <1>1 DEF Request, MGoto, MbTypes, MbTypeOK
  <2>3. answer' = [u \in Masters |-> answer'[u]]
    BY <1>0, <1>1 DEF Request, MbTypes
  <2>4. requests' = [u \in Masters |-> requests'[u]]
    BY <1>0, <1>1 DEF Request, MbTypes
  <2>5. writtenOn' \in [Masters -> {NULL} \cup ConIds]
    BY <1>0, <1>1 DEF Request, MbTypes
  <2>6. UNCHANGED <<mbMaster, dialledCon, cons, mbLink, mbDevice, misread, raced>>
    BY <1>1 DEF Request
  <2>7. MbTypes'
    BY <1>0, <2>1, <2>2, <2>3, <2>4, <2>5, <2>6 DEF mbMaster, mbLink, mbDevice, MbTypes, MbTypeOK
  <2>8. QED
    BY <2>1, <2>2, <2>3, <2>4, <2>5, <2>6, <2>7 DEF MbTypes, MbTypeOK
<1>2. ASSUME NEW t \in Masters, TestCon(t) PROVE MbTypes'
  BY <1>0, <1>2 DEF TestCon, MAt, MGoto, mbMaster, mbLink, mbDevice, mbHist, MbTypes, MbTypeOK,
     ConIds
<1>3. ASSUME NEW t \in Masters, Connect(t) PROVE MbTypes'
  <2>1. UNCHANGED <<mbMaster, fn, answer, requests, toDevice, toMaster, dreq, mbHist>>
    BY <1>3 DEF Connect
  <2>2. mpc' \in [Masters -> {"idle", "test", "connect", "set con", "lock", "write", "header",
                          "data", "release", "forget", "unlock"}]
    BY <1>0, <1>3 DEF Connect, MGoto, MbTypes, MbTypeOK
  <2>3. CASE UNCHANGED <<cons, masterOpen, deviceOpen, dpc, dialledCon>>
    BY <1>0, <2>1, <2>2, <2>3 DEF mbMaster, mbHist, MbTypes, MbTypeOK
  <2>4. CASE /\ cons < MaxCons /\ cons' = cons + 1
             /\ masterOpen' = masterOpen \cup {cons'} /\ deviceOpen' = deviceOpen \cup {cons'}
             /\ dpc' = [dpc EXCEPT ![cons'] = "head"]
             /\ dialledCon' = [dialledCon EXCEPT ![t] = cons']
    <3>1. MaxCons \in Nat /\ cons \in 0 .. MaxCons
      BY <1>0, MbConstants DEF MbTypes
    <3>2. /\ cons' \in 0 .. MaxCons /\ cons' \in ConIds /\ cons' \in 1 .. cons'
          /\ 1 .. cons \subseteq 1 .. cons'
      BY <2>4, <3>1 DEF ConIds
    <3>3. masterOpen' \subseteq 1 .. cons' /\ deviceOpen' \subseteq 1 .. cons'
      <4>1. masterOpen \subseteq 1 .. cons /\ deviceOpen \subseteq 1 .. cons
        BY <1>0 DEF MbTypes, MbTypeOK
      <4>2. /\ masterOpen' = masterOpen \cup {cons'} /\ deviceOpen' = deviceOpen \cup {cons'}
            /\ cons' \in 1 .. cons' /\ 1 .. cons \subseteq 1 .. cons'
        BY <2>4, <3>2
      <4>3. QED
        BY ONLY <4>1, <4>2, Zenon
    <3>4. dpc' \in [ConIds -> {"none", "head", "data", "answer", "gone"}]
      BY <1>0, <2>4 DEF MbTypes, MbTypeOK
    <3>5. dialledCon' \in [Masters -> {NULL} \cup ConIds]
      BY <1>0, <2>4, <3>2 DEF MbTypes, MbTypeOK
    <3>6. QED
      BY <1>0, <2>1, <2>2, <3>2, <3>3, <3>4, <3>5 DEF mbMaster, mbHist, MbTypes, MbTypeOK
  <2>5. QED
    BY <1>3, <2>3, <2>4 DEF Connect
<1>4. ASSUME NEW t \in Masters, SetCon(t) PROVE MbTypes'
  BY <1>0, <1>4 DEF SetCon, MAt, MGoto, mbLink, mbDevice, MbTypes, MbTypeOK, ConIds
<1>5. ASSUME NEW t \in Masters, MasterLock(t) PROVE MbTypes'
  <2>1. iMsgIdx' \in 0 .. Numbers - 1 /\ mbMux' \in {NULL} \cup Masters
    BY <1>0, <1>5, NumberNext DEF MasterLock, MbTypes, MbTypeOK
  <2>2. mpc' \in [Masters -> {"idle", "test", "connect", "set con", "lock", "write", "header",
                          "data", "release", "forget", "unlock"}]
    BY <1>0, <1>5 DEF MasterLock, MGoto, MbTypes, MbTypeOK
  <2>3. UNCHANGED <<mcon, fn, dialledCon, answer, requests, cons, mbLink, mbDevice, mbHist>>
    BY <1>5 DEF MasterLock
  <2>4. MbTypes'
    BY <1>0, <2>1, <2>2, <2>3 DEF mbLink, mbDevice, mbHist, MbTypes, MbTypeOK
  <2>5. QED
    BY <2>1, <2>2, <2>3, <2>4 DEF MbTypes, MbTypeOK
<1>6. ASSUME NEW t \in Masters, WriteRequest(t) PROVE MbTypes'
  <2>1. UNCHANGED <<mbMaster, fn, dialledCon, answer, requests, cons, masterOpen, deviceOpen, toMaster, mbDevice, raced>>
    BY <1>6 DEF WriteRequest
  <2>2. mpc' \in [Masters -> {"idle", "test", "connect", "set con", "lock", "write", "header",
                          "data", "release", "forget", "unlock"}]
    BY <1>0, <1>6 DEF WriteRequest, MGoto, MbTypes, MbTypeOK
  <2>3. toDevice' = [c \in ConIds |-> toDevice'[c]]
    BY <1>0, <1>6 DEF WriteRequest, MbTypes
  <2>4. mcon \in masterOpen => mcon \in ConIds
    BY <1>0, OpenIds
  <2>5. /\ misread' \in {misread, misread \cup {mcon}}
        /\ (mcon \in masterOpen) \/ (misread' = misread)
    BY <1>6 DEF WriteRequest
  <2>6. misread' \subseteq ConIds
    <3>1. misread \subseteq ConIds
      BY <1>0 DEF MbTypes, MbTypeOK
    <3>2. QED
      BY <2>4, <2>5, <3>1
  <2>7. writtenOn' \in [Masters -> {NULL} \cup ConIds]
    BY <1>0, <1>6, <2>4 DEF WriteRequest, MbTypes
  <2>8. MbTypes'
    BY <1>0, <2>1, <2>2, <2>3, <2>6, <2>7 DEF mbMaster, mbDevice, MbTypes, MbTypeOK
  <2>9. QED
    BY <2>1, <2>2, <2>3, <2>4, <2>5, <2>6, <2>7, <2>8 DEF MbTypes, MbTypeOK
<1>7. ASSUME NEW t \in Masters, ReadHeader(t) PROVE MbTypes'
  BY <1>0, <1>7 DEF ReadHeader, Came, MAt, MGoto, mbMaster, mbLink, mbDevice, mbHist, MbTypes,
     MbTypeOK, ConIds
<1>8. ASSUME NEW t \in Masters, ReadTimeout(t) PROVE MbTypes'
  BY <1>0, <1>8 DEF ReadTimeout, AfterTimeout, Came, MAt, MGoto, mbMaster, mbLink, mbDevice,
     mbHist, MbTypes, MbTypeOK, ConIds
<1>9. ASSUME NEW t \in Masters, ReadData(t) PROVE MbTypes'
  BY <1>0, <1>9 DEF ReadData, Came, MAt, MGoto, mbMaster, mbDevice, mbHist, MbTypes, MbTypeOK,
     ConIds
<1>10. ASSUME NEW t \in Masters, ReleaseCon(t) PROVE MbTypes'
  BY <1>0, <1>10 DEF ReleaseCon, Released, MAt, MGoto, mbMaster, mbDevice, mbHist, MbTypes,
     MbTypeOK, ConIds
<1>11. ASSUME NEW t \in Masters, ForgetCon(t) PROVE MbTypes'
  BY <1>0, <1>11 DEF ForgetCon, MAt, MGoto, mbLink, mbDevice, mbHist, MbTypes, MbTypeOK, ConIds
<1>12. ASSUME NEW t \in Masters, MasterUnlock(t) PROVE MbTypes'
  BY <1>0, <1>12 DEF MasterUnlock, MAt, MGoto, mbLink, mbDevice, mbHist, MbTypes, MbTypeOK, ConIds
<1>13. ASSUME NEW c \in ConIds, DeviceHead(c) PROVE MbTypes'
  BY <1>0, <1>13 DEF DeviceHead, HasBlock, DAt, DGoto, mbMaster, mbThread, mbHist, MbTypes,
     MbTypeOK, ConIds
<1>14. ASSUME NEW c \in ConIds, DeviceData(c) PROVE MbTypes'
  BY <1>0, <1>14 DEF DeviceData, HasBlock, DAt, DGoto, mbMaster, mbThread, mbHist, MbTypes,
     MbTypeOK, ConIds
<1>15. ASSUME NEW c \in ConIds, DeviceAnswer(c) PROVE MbTypes'
  BY <1>0, <1>15 DEF DeviceAnswer, Answers, DAt, DGoto, mbMaster, mbThread, mbHist, MbTypes,
     MbTypeOK, ConIds
<1>16. ASSUME NEW c \in ConIds, DeviceMisreads(c) PROVE MbTypes'
  BY <1>0, <1>16 DEF DeviceMisreads, HasBlock, Answers, DAt, mbMaster, mbThread, mbDevice, mbHist,
     MbTypes, MbTypeOK, ConIds
<1>17. ASSUME NEW c \in ConIds, DeviceEnds(c) PROVE MbTypes'
  BY <1>0, <1>17 DEF DeviceEnds, HasBlock, DAt, DGoto, mbMaster, mbThread, mbHist, MbTypes,
     MbTypeOK, ConIds
<1>18. CASE UNCHANGED mbVars
  BY <1>0, <1>18 DEF mbVars, mbMaster, mbThread, mbLink, mbDevice, mbHist, MbTypes, MbTypeOK,
     ConIds
<1>19. QED
  BY <1>1, <1>2, <1>3, <1>4, <1>5, <1>6, <1>7, <1>8, <1>9, <1>10, <1>11, <1>12, <1>13, <1>14,
     <1>15, <1>16, <1>17, <1>18 DEF MbNext, MasterStep, DeviceStep

(* One thread holds conMux.                                                *)
LEMMA LockNext ==
  ASSUME MbInv, [MbNext]_mbVars
  PROVE  LockOfOne'
<1>0. LockOfOne /\ MbTypes
  BY DEF MbInv
<1>1. ASSUME NEW t \in Masters, Request(t) PROVE LockOfOne'
  BY <1>0, <1>1 DEF Request, MAt, MGoto, mbMaster, mbLink, mbDevice, LockOfOne, Holds, MbTypes,
     MbTypeOK
<1>2. ASSUME NEW t \in Masters, TestCon(t) PROVE LockOfOne'
  BY <1>0, <1>2 DEF TestCon, MAt, MGoto, mbMaster, mbLink, mbDevice, mbHist, LockOfOne, Holds,
     MbTypes, MbTypeOK
<1>3. ASSUME NEW t \in Masters, Connect(t) PROVE LockOfOne'
  <2>1. mbMux' = mbMux
    BY <1>3 DEF Connect, mbMaster
  <2>2. \A u \in Masters : mpc'[u] \in Holds => mpc[u] \in Holds
    <3>1. mpc = [u \in Masters |-> mpc[u]]
      BY <1>0 DEF MbTypes, MbTypeOK
    <3>2. \E l \in {"set con", "idle"} : mpc' = [mpc EXCEPT ![t] = l]
      BY <1>3 DEF Connect, MGoto
    <3>3. QED
      BY <3>1, <3>2 DEF Holds
  <2>3. QED
    BY <1>0, <2>1, <2>2 DEF LockOfOne
<1>4. ASSUME NEW t \in Masters, SetCon(t) PROVE LockOfOne'
  BY <1>0, <1>4 DEF SetCon, MAt, MGoto, mbLink, mbDevice, LockOfOne, Holds, MbTypes, MbTypeOK
<1>5. ASSUME NEW t \in Masters, MasterLock(t) PROVE LockOfOne'
  BY <1>0, <1>5, MbConstants DEF MasterLock, MbMuxFree, MAt, MGoto, mbLink, mbDevice, mbHist,
     LockOfOne, Holds, MbTypes, MbTypeOK
<1>6. ASSUME NEW t \in Masters, WriteRequest(t) PROVE LockOfOne'
  BY <1>0, <1>6 DEF WriteRequest, MAt, MGoto, mbMaster, mbDevice, LockOfOne, Holds, MbTypes,
     MbTypeOK
<1>7. ASSUME NEW t \in Masters, ReadHeader(t) PROVE LockOfOne'
  BY <1>0, <1>7 DEF ReadHeader, Came, MAt, MGoto, mbMaster, mbLink, mbDevice, mbHist, LockOfOne,
     Holds, MbTypes, MbTypeOK
<1>8. ASSUME NEW t \in Masters, ReadTimeout(t) PROVE LockOfOne'
  BY <1>0, <1>8 DEF ReadTimeout, AfterTimeout, Came, MAt, MGoto, mbMaster, mbLink, mbDevice,
     mbHist, LockOfOne, Holds, MbTypes, MbTypeOK
<1>9. ASSUME NEW t \in Masters, ReadData(t) PROVE LockOfOne'
  BY <1>0, <1>9 DEF ReadData, Came, MAt, MGoto, mbMaster, mbDevice, mbHist, LockOfOne, Holds,
     MbTypes, MbTypeOK
<1>10. ASSUME NEW t \in Masters, ReleaseCon(t) PROVE LockOfOne'
  BY <1>0, <1>10 DEF ReleaseCon, Released, MAt, MGoto, mbMaster, mbDevice, mbHist, LockOfOne,
     Holds, MbTypes, MbTypeOK
<1>11. ASSUME NEW t \in Masters, ForgetCon(t) PROVE LockOfOne'
  BY <1>0, <1>11 DEF ForgetCon, MAt, MGoto, mbLink, mbDevice, mbHist, LockOfOne, Holds, MbTypes,
     MbTypeOK
<1>12. ASSUME NEW t \in Masters, MasterUnlock(t) PROVE LockOfOne'
  BY <1>0, <1>12 DEF MasterUnlock, MAt, MGoto, mbLink, mbDevice, mbHist, LockOfOne, Holds,
     MbTypes, MbTypeOK
<1>13. ASSUME NEW c \in ConIds, DeviceHead(c) PROVE LockOfOne'
  BY <1>0, <1>13 DEF DeviceHead, HasBlock, DAt, DGoto, mbMaster, mbThread, mbHist, LockOfOne,
     Holds, MbTypes, MbTypeOK
<1>14. ASSUME NEW c \in ConIds, DeviceData(c) PROVE LockOfOne'
  BY <1>0, <1>14 DEF DeviceData, HasBlock, DAt, DGoto, mbMaster, mbThread, mbHist, LockOfOne,
     Holds, MbTypes, MbTypeOK
<1>15. ASSUME NEW c \in ConIds, DeviceAnswer(c) PROVE LockOfOne'
  BY <1>0, <1>15 DEF DeviceAnswer, Answers, DAt, DGoto, mbMaster, mbThread, mbHist, LockOfOne,
     Holds, MbTypes, MbTypeOK
<1>16. ASSUME NEW c \in ConIds, DeviceMisreads(c) PROVE LockOfOne'
  BY <1>0, <1>16 DEF DeviceMisreads, HasBlock, Answers, DAt, mbMaster, mbThread, mbDevice, mbHist,
     LockOfOne, Holds, MbTypes, MbTypeOK
<1>17. ASSUME NEW c \in ConIds, DeviceEnds(c) PROVE LockOfOne'
  BY <1>0, <1>17 DEF DeviceEnds, HasBlock, DAt, DGoto, mbMaster, mbThread, mbHist, LockOfOne,
     Holds, MbTypes, MbTypeOK
<1>18. CASE UNCHANGED mbVars
  BY <1>0, <1>18 DEF mbVars, mbMaster, mbThread, mbLink, mbDevice, mbHist, LockOfOne, Holds,
     MbTypes, MbTypeOK
<1>19. QED
  BY <1>1, <1>2, <1>3, <1>4, <1>5, <1>6, <1>7, <1>8, <1>9, <1>10, <1>11, <1>12, <1>13, <1>14,
     <1>15, <1>16, <1>17, <1>18 DEF MbNext, MasterStep, DeviceStep

(* The connection in use is clean for who is about to write on it, and for *)
(* who wrote on another.                                                   *)
LEMMA OneInCall ==
  ASSUME MbInv, NEW t \in Masters, NEW u \in Masters, mpc[t] \in Holds, mpc[u] \in Holds
  PROVE  t = u
BY DEF MbInv, LockOfOne

LEMMA CleanForWriter ==
  ASSUME MbInv, NEW t \in Masters, mcon \in masterOpen \ misread,
         mpc[t] = "write" \/ (mpc[t] \in Reads /\ writtenOn[t] # mcon)
  PROVE  Clean(mcon)
<1>1. mpc[t] \in Holds
  BY DEF Holds, Reads
<1>2. ASSUME NEW u \in Masters, mpc[u] \in Reads \cup {"release"}, writtenOn[u] = mcon PROVE FALSE
  <2>1. mpc[u] \in Holds
    BY <1>2 DEF Holds, Reads
  <2>2. t = u
    BY <1>1, <2>1, OneInCall
  <2>3. QED
    BY <1>2, <2>2 DEF Reads
<1>3. QED
  BY <1>2 DEF MbInv, CleanOrInUse

(* What comes on the connection of a reader is its own answer.             *)
LEMMA OwnComes ==
  ASSUME MbInv, NEW t \in Masters, mpc[t] = "data", Came(mcon), mcon \notin misread
  PROVE  /\ writtenOn[t] = mcon /\ toMaster[mcon] = <<AnswerTo(t)>>
         /\ toDevice[mcon] = << >> /\ dpc[mcon] = "head"
<1>1. mpc[t] \in Reads
  BY DEF Reads
<1>2. mcon \in masterOpen
  BY <1>1 DEF MbInv, InExchange, ExchangeOf
<1>3. toMaster[mcon] # << >>
  BY DEF Came
<1>4. writtenOn[t] = mcon
  BY <1>1, <1>2, <1>3, CleanForWriter DEF Clean
<1>5. UnderWay(t, mcon)
  BY <1>1, <1>4 DEF MbInv, InExchange, ExchangeOf
<1>6. QED
  BY <1>3, <1>4, <1>5 DEF UnderWay

(* A connect makes a connection that nothing knows yet, or fails.          *)
Dialled(t, new) ==
  /\ cons' = new /\ cons < new /\ Blank(new) /\ new \notin masterOpen
  /\ \A u \in Masters : dialledCon[u] # new
  /\ masterOpen' = masterOpen \cup {new}
  /\ dpc' = [dpc EXCEPT ![new] = "head"]
  /\ dialledCon' = [dialledCon EXCEPT ![t] = new]
  /\ mpc' = [mpc EXCEPT ![t] = "set con"]

NotDialled(t) ==
  UNCHANGED <<cons, masterOpen, dpc, dialledCon>> /\ mpc' = [mpc EXCEPT ![t] = "idle"]

LEMMA ConnectCases ==
  ASSUME MbInv, NEW t \in Masters, Connect(t)
  PROVE  NotDialled(t) \/ \E new \in ConIds : Dialled(t, new)
<1> DEFINE new == cons + 1
<1>1. CASE /\ cons < MaxCons /\ cons' = new /\ masterOpen' = masterOpen \cup {cons'}
           /\ dpc' = [dpc EXCEPT ![cons'] = "head"]
           /\ dialledCon' = [dialledCon EXCEPT ![t] = cons'] /\ MGoto(t, "set con")
  <2>1. cons < MaxCons
    BY <1>1
  <2>2. MaxCons \in Nat /\ cons \in 0 .. MaxCons
    BY MbConstants DEF MbInv, MbTypes
  <2>3. new \in ConIds /\ cons < new /\ new > cons /\ new \notin 1 .. cons
    BY <2>1, <2>2 DEF ConIds
  <2> HIDE DEF new
  <2>4. Blank(new)
    BY <2>3 DEF MbInv, NotYetMade
  <2>5. new \notin masterOpen
    BY <2>3 DEF MbInv, MbTypes, MbTypeOK
  <2>6. ASSUME NEW u \in Masters, dialledCon[u] = new PROVE FALSE
    <3>1. dialledCon[u] # NULL
      BY <2>3, <2>6, MbConstants
    <3>2. dialledCon[u] \in masterOpen
      BY <3>1 DEF MbInv, DialledFresh, Spare
    <3>3. QED
      BY <2>5, <2>6, <3>2
  <2>7. QED
    BY <1>1, <2>3, <2>4, <2>5, <2>6 DEF Dialled, MGoto
<1>2. CASE MGoto(t, "idle") /\ UNCHANGED <<cons, masterOpen, deviceOpen, dpc, dialledCon>>
  BY <1>2 DEF NotDialled, MGoto
<1>3. QED
  BY <1>1, <1>2 DEF Connect

LEMMA DialledSteady ==
  ASSUME DialledFresh, MbTypes, UNCHANGED dialledCon,
         \A u \in Masters : (mpc'[u] = "set con") <=> (mpc[u] = "set con"),
         \A c \in ConIds : Spare(c) => Spare(c)'
  PROVE  DialledFresh'
<1> SUFFICES ASSUME NEW t \in Masters
             PROVE  /\ (mpc'[t] = "set con") <=> (dialledCon'[t] # NULL)
                    /\ dialledCon'[t] # NULL =>
                         Spare(dialledCon[t])' /\ \A u \in Masters \ {t} : dialledCon'[u] # dialledCon'[t]
  BY DEF DialledFresh
<1>1. CASE dialledCon[t] = NULL
  BY <1>1 DEF DialledFresh
<1>2. CASE dialledCon[t] # NULL
  <2>1. dialledCon[t] \in ConIds
    BY <1>2 DEF MbTypes, MbTypeOK
  <2>2. Spare(dialledCon[t]) /\ \A u \in Masters \ {t} : dialledCon[u] # dialledCon[t]
    BY <1>2 DEF DialledFresh
  <2>3. Spare(dialledCon[t])'
    BY <2>1, <2>2
  <2>4. QED
    BY <1>2, <2>2, <2>3 DEF DialledFresh
<1>3. QED
  BY <1>1, <1>2

(* A connection that was just made stays unused until it is in use.        *)
LEMMA DialledNext ==
  ASSUME MbInv, [MbNext]_mbVars
  PROVE  DialledFresh'
<1>0. DialledFresh /\ NotYetMade /\ MbTypes
  BY DEF MbInv
<1>1. ASSUME NEW t \in Masters, Request(t) PROVE DialledFresh'
  <2>1. ASSUME NEW d \in ConIds, Spare(d) PROVE Spare(d)'
    BY <1>0, <1>1, <2>1, MbConstants DEF Request, MAt, MGoto, mbMaster, mbLink, mbDevice, Spare,
       MbTypes, MbTypeOK
  <2>2. UNCHANGED dialledCon /\ \A u \in Masters : (mpc'[u] = "set con") <=> (mpc[u] = "set con")
    BY <1>0, <1>1 DEF Request, MAt, MGoto, mbThread, MbTypes, MbTypeOK
  <2>3. QED
    BY <1>0, <2>1, <2>2, DialledSteady
<1>2. ASSUME NEW t \in Masters, TestCon(t) PROVE DialledFresh'
  <2>1. ASSUME NEW d \in ConIds, Spare(d) PROVE Spare(d)'
    BY <1>0, <1>2, <2>1, MbConstants DEF TestCon, MAt, MGoto, mbMaster, mbLink, mbDevice, mbHist,
       Spare, MbTypes, MbTypeOK
  <2>2. UNCHANGED dialledCon /\ \A u \in Masters : (mpc'[u] = "set con") <=> (mpc[u] = "set con")
    BY <1>0, <1>2 DEF TestCon, MAt, MGoto, mbThread, MbTypes, MbTypeOK
  <2>3. QED
    BY <1>0, <2>1, <2>2, DialledSteady
<1>3. ASSUME NEW t \in Masters, Connect(t) PROVE DialledFresh'
  <2>1. UNCHANGED <<mcon, toDevice, toMaster, misread, writtenOn>>
    BY <1>3 DEF Connect, mbMaster, mbHist
  <2>2. CASE NotDialled(t)
    <3>1. \A d \in ConIds : Spare(d) => Spare(d)'
      BY <2>1, <2>2 DEF NotDialled, Spare
    <3>2. \A u \in Masters : (mpc'[u] = "set con") <=> (mpc[u] = "set con")
      BY <1>0, <1>3, <2>2 DEF NotDialled, Connect, MAt, MbTypes, MbTypeOK
    <3>3. QED
      BY <1>0, <2>2, <3>1, <3>2, DialledSteady DEF NotDialled
  <2>3. ASSUME NEW new \in ConIds, Dialled(t, new) PROVE DialledFresh'
    <3>1. Spare(new)'
      <4>1. /\ new \in masterOpen' /\ new # mcon /\ new \notin misread /\ dpc'[new] = "head"
            /\ toDevice[new] = << >> /\ toMaster[new] = << >>
            /\ \A u \in Masters : writtenOn[u] # new
        BY <1>0, <2>3 DEF Dialled, Blank, MbTypes, MbTypeOK
      <4>2. QED
        BY <2>1, <4>1 DEF Spare
    <3>2. ASSUME NEW d \in ConIds, Spare(d) PROVE Spare(d)'
      <4>1. d # new
        BY <2>3, <3>2 DEF Dialled, Spare
      <4>2. d \in masterOpen' /\ dpc'[d] = dpc[d]
        BY <1>0, <2>3, <3>2, <4>1 DEF Dialled, Spare, MbTypes, MbTypeOK
      <4>3. QED
        BY <2>1, <3>2, <4>2 DEF Spare
    <3>3. /\ dialledCon' = [dialledCon EXCEPT ![t] = new] /\ new # NULL
          /\ mpc' = [mpc EXCEPT ![t] = "set con"]
          /\ \A u \in Masters : dialledCon[u] # new
      BY <2>3, MbConstants DEF Dialled
    <3>4. ASSUME NEW u \in Masters
          PROVE  /\ (mpc'[u] = "set con") <=> (dialledCon'[u] # NULL)
                 /\ dialledCon'[u] # NULL =>
                      Spare(dialledCon[u])' /\ \A v \in Masters \ {u} : dialledCon'[v] # dialledCon'[u]
      <4>1. dialledCon \in [Masters -> {NULL} \cup ConIds] /\ mpc = [v \in Masters |-> mpc[v]]
        BY <1>0 DEF MbTypes, MbTypeOK
      <4>2. CASE u = t
        <5>1. dialledCon'[u] = new /\ mpc'[u] = "set con"
          BY <3>3, <4>1, <4>2
        <5>2. \A v \in Masters \ {u} : dialledCon'[v] = dialledCon[v]
          BY <3>3, <4>1, <4>2
        <5>3. QED
          BY <3>1, <3>3, <5>1, <5>2
      <4>3. CASE u # t
        <5>1. dialledCon'[u] = dialledCon[u] /\ mpc'[u] = mpc[u]
          BY <3>3, <4>1, <4>3
        <5>2. dialledCon[u] # NULL => dialledCon[u] \in ConIds
          BY <4>1
        <5>3. \A v \in Masters \ {u} : dialledCon'[v] \in {dialledCon[v], new}
          BY <3>3, <4>1
        <5>4. /\ (mpc[u] = "set con") <=> (dialledCon[u] # NULL)
              /\ dialledCon[u] # NULL =>
                   Spare(dialledCon[u]) /\ \A v \in Masters \ {u} : dialledCon[v] # dialledCon[u]
          BY <1>0 DEF DialledFresh
        <5>5. QED
          BY <3>2, <3>3, <5>1, <5>2, <5>3, <5>4
      <4>4. QED
        BY <4>2, <4>3
    <3>5. QED
      BY <3>4 DEF DialledFresh
  <2>4. QED
    BY <1>3, <2>2, <2>3, ConnectCases
<1>4. ASSUME NEW t \in Masters, SetCon(t) PROVE DialledFresh'
  <2> DEFINE new == dialledCon[t]
  <2>1. /\ mcon' = new /\ dialledCon' = [dialledCon EXCEPT ![t] = NULL]
        /\ mpc' = [mpc EXCEPT ![t] = "lock"] /\ mpc[t] = "set con"
        /\ UNCHANGED <<masterOpen, toDevice, toMaster, dpc, misread, writtenOn>>
    BY <1>4 DEF SetCon, MAt, MGoto, mbLink, mbDevice
  <2>2. ASSUME NEW d \in ConIds, Spare(d), d # new PROVE Spare(d)'
    BY <2>1, <2>2 DEF Spare
  <2>3. dialledCon \in [Masters -> {NULL} \cup ConIds] /\ mpc = [v \in Masters |-> mpc[v]]
    BY <1>0 DEF MbTypes, MbTypeOK
  <2>4. ASSUME NEW u \in Masters
        PROVE  /\ (mpc'[u] = "set con") <=> (dialledCon'[u] # NULL)
               /\ dialledCon'[u] # NULL =>
                    Spare(dialledCon[u])' /\ \A v \in Masters \ {u} : dialledCon'[v] # dialledCon'[u]
    <3>1. CASE u = t
      BY <2>1, <2>3, <3>1
    <3>2. CASE u # t
      <4>1. dialledCon'[u] = dialledCon[u] /\ mpc'[u] = mpc[u]
        BY <2>1, <2>3, <3>2
      <4>2. dialledCon[u] # NULL => dialledCon[u] \in ConIds
        BY <2>3
      <4>3. \A v \in Masters \ {u} : dialledCon'[v] \in {dialledCon[v], NULL}
        BY <2>1, <2>3
      <4>4. /\ (mpc[u] = "set con") <=> (dialledCon[u] # NULL)
            /\ dialledCon[u] # NULL =>
                 Spare(dialledCon[u]) /\ \A v \in Masters \ {u} : dialledCon[v] # dialledCon[u]
        BY <1>0 DEF DialledFresh
      <4>5. dialledCon[u] # NULL => dialledCon[u] # new
        BY <3>2, <4>4
      <4>6. QED
        BY <2>2, <4>1, <4>2, <4>3, <4>4, <4>5
    <3>3. QED
      BY <3>1, <3>2
  <2>5. QED
    BY <2>4 DEF DialledFresh
<1>5. ASSUME NEW t \in Masters, MasterLock(t) PROVE DialledFresh'
  <2>1. ASSUME NEW d \in ConIds, Spare(d) PROVE Spare(d)'
    BY <1>0, <1>5, <2>1, MbConstants DEF MasterLock, MbMuxFree, MAt, MGoto, mbLink, mbDevice,
       mbHist, Spare, MbTypes, MbTypeOK
  <2>2. UNCHANGED dialledCon /\ \A u \in Masters : (mpc'[u] = "set con") <=> (mpc[u] = "set con")
    BY <1>0, <1>5 DEF MasterLock, MAt, MGoto, mbThread, MbTypes, MbTypeOK
  <2>3. QED
    BY <1>0, <2>1, <2>2, DialledSteady
<1>6. ASSUME NEW t \in Masters, WriteRequest(t) PROVE DialledFresh'
  <2>1. ASSUME NEW d \in ConIds, Spare(d) PROVE Spare(d)'
    <3>1. d # mcon /\ toDevice = [c \in ConIds |-> toDevice[c]] /\ d \notin misread
      BY <1>0, <2>1 DEF Spare, MbTypes
    <3>2. toDevice'[d] = toDevice[d]
      BY <1>6, <3>1 DEF WriteRequest
    <3>3. d \notin misread'
      BY <1>6, <3>1 DEF WriteRequest
    <3>4. \A u \in Masters : writtenOn'[u] # d
      BY <1>0, <1>6, <2>1 DEF WriteRequest, Spare, MbTypes
    <3>5. QED
      BY <1>6, <2>1, <3>2, <3>3, <3>4 DEF WriteRequest, mbMaster, mbDevice, Spare
  <2>2. UNCHANGED dialledCon /\ \A u \in Masters : (mpc'[u] = "set con") <=> (mpc[u] = "set con")
    BY <1>0, <1>6 DEF WriteRequest, MAt, MGoto, mbThread, MbTypes, MbTypeOK
  <2>3. QED
    BY <1>0, <2>1, <2>2, DialledSteady
<1>7. ASSUME NEW t \in Masters, ReadHeader(t) PROVE DialledFresh'
  <2>1. ASSUME NEW d \in ConIds, Spare(d) PROVE Spare(d)'
    BY <1>0, <1>7, <2>1, MbConstants DEF ReadHeader, Came, MAt, MGoto, mbMaster, mbLink, mbDevice,
       mbHist, Spare, MbTypes, MbTypeOK
  <2>2. UNCHANGED dialledCon /\ \A u \in Masters : (mpc'[u] = "set con") <=> (mpc[u] = "set con")
    BY <1>0, <1>7 DEF ReadHeader, MAt, MGoto, mbThread, MbTypes, MbTypeOK
  <2>3. QED
    BY <1>0, <2>1, <2>2, DialledSteady
<1>8. ASSUME NEW t \in Masters, ReadTimeout(t) PROVE DialledFresh'
  <2>1. ASSUME NEW d \in ConIds, Spare(d) PROVE Spare(d)'
    BY <1>0, <1>8, <2>1, MbConstants DEF ReadTimeout, AfterTimeout, Came, MAt, MGoto, mbMaster,
       mbLink, mbDevice, mbHist, Spare, MbTypes, MbTypeOK
  <2>2. UNCHANGED dialledCon /\ \A u \in Masters : (mpc'[u] = "set con") <=> (mpc[u] = "set con")
    BY <1>0, <1>8 DEF ReadTimeout, MAt, MGoto, mbThread, MbTypes, MbTypeOK, AfterTimeout
  <2>3. QED
    BY <1>0, <2>1, <2>2, DialledSteady
<1>9. ASSUME NEW t \in Masters, ReadData(t) PROVE DialledFresh'
  <2>1. ASSUME NEW d \in ConIds, Spare(d) PROVE Spare(d)'
    BY <1>0, <1>9, <2>1, MbConstants DEF ReadData, Came, MAt, MGoto, mbMaster, mbDevice, mbHist,
       Spare, MbTypes, MbTypeOK
  <2>2. UNCHANGED dialledCon /\ \A u \in Masters : (mpc'[u] = "set con") <=> (mpc[u] = "set con")
    BY <1>0, <1>9 DEF ReadData, MAt, MGoto, mbThread, MbTypes, MbTypeOK
  <2>3. QED
    BY <1>0, <2>1, <2>2, DialledSteady
<1>10. ASSUME NEW t \in Masters, ReleaseCon(t) PROVE DialledFresh'
  <2>1. ASSUME NEW d \in ConIds, Spare(d) PROVE Spare(d)'
    BY <1>0, <1>10, <2>1, MbConstants DEF ReleaseCon, Released, MAt, MGoto, mbMaster, mbDevice,
       mbHist, Spare, MbTypes, MbTypeOK
  <2>2. UNCHANGED dialledCon /\ \A u \in Masters : (mpc'[u] = "set con") <=> (mpc[u] = "set con")
    BY <1>0, <1>10 DEF ReleaseCon, MAt, MGoto, mbThread, MbTypes, MbTypeOK
  <2>3. QED
    BY <1>0, <2>1, <2>2, DialledSteady
<1>11. ASSUME NEW t \in Masters, ForgetCon(t) PROVE DialledFresh'
  <2>1. ASSUME NEW d \in ConIds, Spare(d) PROVE Spare(d)'
    BY <1>0, <1>11, <2>1, MbConstants DEF ForgetCon, MAt, MGoto, mbLink, mbDevice, mbHist, Spare,
       MbTypes, MbTypeOK
  <2>2. UNCHANGED dialledCon /\ \A u \in Masters : (mpc'[u] = "set con") <=> (mpc[u] = "set con")
    BY <1>0, <1>11 DEF ForgetCon, MAt, MGoto, mbThread, MbTypes, MbTypeOK
  <2>3. QED
    BY <1>0, <2>1, <2>2, DialledSteady
<1>12. ASSUME NEW t \in Masters, MasterUnlock(t) PROVE DialledFresh'
  <2>1. ASSUME NEW d \in ConIds, Spare(d) PROVE Spare(d)'
    BY <1>0, <1>12, <2>1, MbConstants DEF MasterUnlock, MAt, MGoto, mbLink, mbDevice, mbHist,
       Spare, MbTypes, MbTypeOK
  <2>2. UNCHANGED dialledCon /\ \A u \in Masters : (mpc'[u] = "set con") <=> (mpc[u] = "set con")
    BY <1>0, <1>12 DEF MasterUnlock, MAt, MGoto, mbThread, MbTypes, MbTypeOK
  <2>3. QED
    BY <1>0, <2>1, <2>2, DialledSteady
<1>13. ASSUME NEW c \in ConIds, DeviceHead(c) PROVE DialledFresh'
  <2>1. ASSUME NEW d \in ConIds, Spare(d) PROVE Spare(d)'
    BY <1>0, <1>13, <2>1, MbConstants DEF DeviceHead, HasBlock, DAt, DGoto, mbMaster, mbThread,
       mbHist, Spare, MbTypes, MbTypeOK
  <2>2. UNCHANGED dialledCon /\ \A u \in Masters : (mpc'[u] = "set con") <=> (mpc[u] = "set con")
    BY <1>0, <1>13 DEF DeviceHead, MAt, MGoto, mbThread, MbTypes, MbTypeOK
  <2>3. QED
    BY <1>0, <2>1, <2>2, DialledSteady
<1>14. ASSUME NEW c \in ConIds, DeviceData(c) PROVE DialledFresh'
  <2>1. ASSUME NEW d \in ConIds, Spare(d) PROVE Spare(d)'
    BY <1>0, <1>14, <2>1, MbConstants DEF DeviceData, HasBlock, DAt, DGoto, mbMaster, mbThread,
       mbHist, Spare, MbTypes, MbTypeOK
  <2>2. UNCHANGED dialledCon /\ \A u \in Masters : (mpc'[u] = "set con") <=> (mpc[u] = "set con")
    BY <1>0, <1>14 DEF DeviceData, MAt, MGoto, mbThread, MbTypes, MbTypeOK
  <2>3. QED
    BY <1>0, <2>1, <2>2, DialledSteady
<1>15. ASSUME NEW c \in ConIds, DeviceAnswer(c) PROVE DialledFresh'
  <2>1. ASSUME NEW d \in ConIds, Spare(d) PROVE Spare(d)'
    BY <1>0, <1>15, <2>1, MbConstants DEF DeviceAnswer, Answers, DAt, DGoto, mbMaster, mbThread,
       mbHist, Spare, MbTypes, MbTypeOK
  <2>2. UNCHANGED dialledCon /\ \A u \in Masters : (mpc'[u] = "set con") <=> (mpc[u] = "set con")
    BY <1>0, <1>15 DEF DeviceAnswer, MAt, MGoto, mbThread, MbTypes, MbTypeOK
  <2>3. QED
    BY <1>0, <2>1, <2>2, DialledSteady
<1>16. ASSUME NEW c \in ConIds, DeviceMisreads(c) PROVE DialledFresh'
  <2>1. ASSUME NEW d \in ConIds, Spare(d) PROVE Spare(d)'
    BY <1>0, <1>16, <2>1, MbConstants DEF DeviceMisreads, HasBlock, Answers, DAt, mbMaster,
       mbThread, mbDevice, mbHist, Spare, MbTypes, MbTypeOK
  <2>2. UNCHANGED dialledCon /\ \A u \in Masters : (mpc'[u] = "set con") <=> (mpc[u] = "set con")
    BY <1>0, <1>16 DEF DeviceMisreads, MAt, MGoto, mbThread, MbTypes, MbTypeOK
  <2>3. QED
    BY <1>0, <2>1, <2>2, DialledSteady
<1>17. ASSUME NEW c \in ConIds, DeviceEnds(c) PROVE DialledFresh'
  <2>1. ASSUME NEW d \in ConIds, Spare(d) PROVE Spare(d)'
    BY <1>0, <1>17, <2>1, MbConstants DEF DeviceEnds, HasBlock, DAt, DGoto, mbMaster, mbThread,
       mbHist, Spare, MbTypes, MbTypeOK
  <2>2. UNCHANGED dialledCon /\ \A u \in Masters : (mpc'[u] = "set con") <=> (mpc[u] = "set con")
    BY <1>0, <1>17 DEF DeviceEnds, MAt, MGoto, mbThread, MbTypes, MbTypeOK
  <2>3. QED
    BY <1>0, <2>1, <2>2, DialledSteady
<1>18. CASE UNCHANGED mbVars
  BY <1>0, <1>18, DialledSteady DEF Spare, mbVars, mbThread, mbMaster, mbHist, mbLink, mbDevice
<1>19. QED
  BY <1>1, <1>2, <1>3, <1>4, <1>5, <1>6, <1>7, <1>8, <1>9, <1>10, <1>11, <1>12, <1>13, <1>14,
     <1>15, <1>16, <1>17, <1>18 DEF MbNext, MasterStep, DeviceStep

(* What is not yet made is blank.                                          *)
LEMMA NotYetMadeNext ==
  ASSUME MbInv, [MbNext]_mbVars
  PROVE  NotYetMade'
<1>0. NotYetMade /\ DialledFresh /\ MbTypes
  BY DEF MbInv
<1>1. ASSUME NEW t \in Masters, Request(t) PROVE NotYetMade'
  <2>1. ASSUME NEW d \in ConIds, Blank(d) PROVE Blank(d)'
    BY <1>0, <1>1, <2>1, MbConstants DEF Request, MAt, MGoto, mbMaster, mbLink, mbDevice, Blank,
       MbTypes, MbTypeOK
  <2>2. UNCHANGED cons
    BY <1>1 DEF Request
  <2>3. QED
    BY <1>0, <2>1, <2>2 DEF NotYetMade
<1>2. ASSUME NEW t \in Masters, TestCon(t) PROVE NotYetMade'
  <2>1. ASSUME NEW d \in ConIds, Blank(d) PROVE Blank(d)'
    BY <1>0, <1>2, <2>1, MbConstants DEF TestCon, MAt, MGoto, mbMaster, mbLink, mbDevice, mbHist,
       Blank, MbTypes, MbTypeOK
  <2>2. UNCHANGED cons
    BY <1>2 DEF TestCon
  <2>3. QED
    BY <1>0, <2>1, <2>2 DEF NotYetMade
<1>3. ASSUME NEW t \in Masters, Connect(t) PROVE NotYetMade'
  <2>1. UNCHANGED <<mcon, toDevice, toMaster, misread, writtenOn>>
    BY <1>3 DEF Connect, mbMaster, mbHist
  <2>2. CASE NotDialled(t)
    BY <1>0, <2>1, <2>2 DEF NotDialled, NotYetMade, Blank
  <2>3. ASSUME NEW new \in ConIds, Dialled(t, new) PROVE NotYetMade'
    <3>1. ASSUME NEW d \in ConIds, d > new PROVE Blank(d)'
      <4>1. cons < new /\ cons' = new /\ dpc' = [dpc EXCEPT ![new] = "head"]
        BY <2>3 DEF Dialled
      <4>2. d # new /\ d > cons
        <5>1. cons \in Int /\ new \in Int /\ d \in Int
          BY <1>0, <4>1, MbConstants DEF MbTypes, ConIds
        <5>2. QED
          BY <3>1, <4>1, <5>1
      <4>3. Blank(d)
        BY <1>0, <4>2 DEF NotYetMade
      <4>4. dpc'[d] = dpc[d]
        BY <1>0, <4>1, <4>2 DEF MbTypes, MbTypeOK
      <4>5. QED
        BY <2>1, <4>3, <4>4 DEF Blank
    <3>2. QED
      BY <2>3, <3>1 DEF Dialled, NotYetMade
  <2>4. QED
    BY <1>3, <2>2, <2>3, ConnectCases
<1>4. ASSUME NEW t \in Masters, SetCon(t) PROVE NotYetMade'
  <2>1. /\ mcon' = dialledCon[t] /\ mpc[t] = "set con"
        /\ UNCHANGED <<cons, toDevice, toMaster, dpc, misread, writtenOn>>
    BY <1>4 DEF SetCon, MAt, mbLink, mbDevice
  <2>2. mcon' \in masterOpen
    BY <1>0, <2>1 DEF DialledFresh, Spare
  <2>3. mcon' \in 1 .. cons /\ cons \in Nat
    <3>1. MaxCons \in Nat /\ cons \in 0 .. MaxCons
      BY <1>0, MbConstants DEF MbTypes
    <3>2. cons \in Nat
      BY <3>1
    <3>3. QED
      BY <1>0, <2>2, <3>2 DEF MbTypes, MbTypeOK
  <2>4. ASSUME NEW d \in ConIds, d > cons PROVE Blank(d)'
    <3>1. d # mcon'
      BY <2>3, <2>4
    <3>2. Blank(d)
      BY <1>0, <2>4 DEF NotYetMade
    <3>3. QED
      BY <2>1, <3>1, <3>2 DEF Blank
  <2>5. QED
    BY <2>1, <2>4 DEF NotYetMade
<1>5. ASSUME NEW t \in Masters, MasterLock(t) PROVE NotYetMade'
  <2>1. ASSUME NEW d \in ConIds, Blank(d) PROVE Blank(d)'
    BY <1>0, <1>5, <2>1, MbConstants DEF MasterLock, MbMuxFree, MAt, MGoto, mbLink, mbDevice,
       mbHist, Blank, MbTypes, MbTypeOK
  <2>2. UNCHANGED cons
    BY <1>5 DEF MasterLock
  <2>3. QED
    BY <1>0, <2>1, <2>2 DEF NotYetMade
<1>6. ASSUME NEW t \in Masters, WriteRequest(t) PROVE NotYetMade'
  <2>1. ASSUME NEW d \in ConIds, Blank(d) PROVE Blank(d)'
    <3>1. d # mcon /\ toDevice = [c \in ConIds |-> toDevice[c]] /\ d \notin misread
      BY <1>0, <2>1 DEF Blank, MbTypes
    <3>2. toDevice'[d] = toDevice[d]
      BY <1>6, <3>1 DEF WriteRequest
    <3>3. d \notin misread'
      BY <1>6, <3>1 DEF WriteRequest
    <3>4. \A u \in Masters : writtenOn'[u] # d
      BY <1>0, <1>6, <2>1 DEF WriteRequest, Blank, MbTypes
    <3>5. QED
      BY <1>6, <2>1, <3>2, <3>3, <3>4 DEF WriteRequest, mbMaster, mbDevice, Blank
  <2>2. QED
    BY <1>0, <1>6, <2>1 DEF WriteRequest, NotYetMade
<1>7. ASSUME NEW t \in Masters, ReadHeader(t) PROVE NotYetMade'
  <2>1. ASSUME NEW d \in ConIds, Blank(d) PROVE Blank(d)'
    BY <1>0, <1>7, <2>1, MbConstants DEF ReadHeader, Came, MAt, MGoto, mbMaster, mbLink, mbDevice,
       mbHist, Blank, MbTypes, MbTypeOK
  <2>2. UNCHANGED cons
    BY <1>7 DEF ReadHeader
  <2>3. QED
    BY <1>0, <2>1, <2>2 DEF NotYetMade
<1>8. ASSUME NEW t \in Masters, ReadTimeout(t) PROVE NotYetMade'
  <2>1. ASSUME NEW d \in ConIds, Blank(d) PROVE Blank(d)'
    BY <1>0, <1>8, <2>1, MbConstants DEF ReadTimeout, AfterTimeout, Came, MAt, MGoto, mbMaster,
       mbLink, mbDevice, mbHist, Blank, MbTypes, MbTypeOK
  <2>2. UNCHANGED cons
    BY <1>8 DEF ReadTimeout
  <2>3. QED
    BY <1>0, <2>1, <2>2 DEF NotYetMade
<1>9. ASSUME NEW t \in Masters, ReadData(t) PROVE NotYetMade'
  <2>1. ASSUME NEW d \in ConIds, Blank(d) PROVE Blank(d)'
    BY <1>0, <1>9, <2>1, MbConstants DEF ReadData, Came, MAt, MGoto, mbMaster, mbDevice, mbHist,
       Blank, MbTypes, MbTypeOK
  <2>2. UNCHANGED cons
    BY <1>9 DEF ReadData
  <2>3. QED
    BY <1>0, <2>1, <2>2 DEF NotYetMade
<1>10. ASSUME NEW t \in Masters, ReleaseCon(t) PROVE NotYetMade'
  <2>1. ASSUME NEW d \in ConIds, Blank(d) PROVE Blank(d)'
    BY <1>0, <1>10, <2>1, MbConstants DEF ReleaseCon, Released, MAt, MGoto, mbMaster, mbDevice,
       mbHist, Blank, MbTypes, MbTypeOK
  <2>2. UNCHANGED cons
    BY <1>10 DEF ReleaseCon
  <2>3. QED
    BY <1>0, <2>1, <2>2 DEF NotYetMade
<1>11. ASSUME NEW t \in Masters, ForgetCon(t) PROVE NotYetMade'
  <2>1. ASSUME NEW d \in ConIds, Blank(d) PROVE Blank(d)'
    BY <1>0, <1>11, <2>1, MbConstants DEF ForgetCon, MAt, MGoto, mbLink, mbDevice, mbHist, Blank,
       MbTypes, MbTypeOK
  <2>2. UNCHANGED cons
    BY <1>11 DEF ForgetCon
  <2>3. QED
    BY <1>0, <2>1, <2>2 DEF NotYetMade
<1>12. ASSUME NEW t \in Masters, MasterUnlock(t) PROVE NotYetMade'
  <2>1. ASSUME NEW d \in ConIds, Blank(d) PROVE Blank(d)'
    BY <1>0, <1>12, <2>1, MbConstants DEF MasterUnlock, MAt, MGoto, mbLink, mbDevice, mbHist,
       Blank, MbTypes, MbTypeOK
  <2>2. UNCHANGED cons
    BY <1>12 DEF MasterUnlock
  <2>3. QED
    BY <1>0, <2>1, <2>2 DEF NotYetMade
<1>13. ASSUME NEW c \in ConIds, DeviceHead(c) PROVE NotYetMade'
  <2>1. ASSUME NEW d \in ConIds, Blank(d) PROVE Blank(d)'
    BY <1>0, <1>13, <2>1, MbConstants DEF DeviceHead, HasBlock, DAt, DGoto, mbMaster, mbThread,
       mbHist, Blank, MbTypes, MbTypeOK
  <2>2. UNCHANGED cons
    BY <1>13 DEF DeviceHead
  <2>3. QED
    BY <1>0, <2>1, <2>2 DEF NotYetMade
<1>14. ASSUME NEW c \in ConIds, DeviceData(c) PROVE NotYetMade'
  <2>1. ASSUME NEW d \in ConIds, Blank(d) PROVE Blank(d)'
    BY <1>0, <1>14, <2>1, MbConstants DEF DeviceData, HasBlock, DAt, DGoto, mbMaster, mbThread,
       mbHist, Blank, MbTypes, MbTypeOK
  <2>2. UNCHANGED cons
    BY <1>14 DEF DeviceData
  <2>3. QED
    BY <1>0, <2>1, <2>2 DEF NotYetMade
<1>15. ASSUME NEW c \in ConIds, DeviceAnswer(c) PROVE NotYetMade'
  <2>1. ASSUME NEW d \in ConIds, Blank(d) PROVE Blank(d)'
    BY <1>0, <1>15, <2>1, MbConstants DEF DeviceAnswer, Answers, DAt, DGoto, mbMaster, mbThread,
       mbHist, Blank, MbTypes, MbTypeOK
  <2>2. UNCHANGED cons
    BY <1>15 DEF DeviceAnswer
  <2>3. QED
    BY <1>0, <2>1, <2>2 DEF NotYetMade
<1>16. ASSUME NEW c \in ConIds, DeviceMisreads(c) PROVE NotYetMade'
  <2>1. ASSUME NEW d \in ConIds, Blank(d) PROVE Blank(d)'
    BY <1>0, <1>16, <2>1, MbConstants DEF DeviceMisreads, HasBlock, Answers, DAt, mbMaster,
       mbThread, mbDevice, mbHist, Blank, MbTypes, MbTypeOK
  <2>2. UNCHANGED cons
    BY <1>16 DEF DeviceMisreads
  <2>3. QED
    BY <1>0, <2>1, <2>2 DEF NotYetMade
<1>17. ASSUME NEW c \in ConIds, DeviceEnds(c) PROVE NotYetMade'
  <2>1. ASSUME NEW d \in ConIds, Blank(d) PROVE Blank(d)'
    BY <1>0, <1>17, <2>1, MbConstants DEF DeviceEnds, HasBlock, DAt, DGoto, mbMaster, mbThread,
       mbHist, Blank, MbTypes, MbTypeOK
  <2>2. UNCHANGED cons
    BY <1>17 DEF DeviceEnds
  <2>3. QED
    BY <1>0, <2>1, <2>2 DEF NotYetMade
<1>18. CASE UNCHANGED mbVars
  BY <1>0, <1>18 DEF NotYetMade, Blank, mbVars, mbThread, mbMaster, mbHist, mbLink, mbDevice
<1>19. QED
  BY <1>1, <1>2, <1>3, <1>4, <1>5, <1>6, <1>7, <1>8, <1>9, <1>10, <1>11, <1>12, <1>13, <1>14,
     <1>15, <1>16, <1>17, <1>18 DEF MbNext, MasterStep, DeviceStep

(* The connection is closed before it is forgotten.                        *)
LEMMA ForgottenNext ==
  ASSUME MbInv, [MbNext]_mbVars
  PROVE  Forgotten'
<1>0. Forgotten /\ MbTypes
  BY DEF MbInv
<1>1. ASSUME NEW t \in Masters, Request(t) PROVE Forgotten'
  BY <1>0, <1>1 DEF Request, MAt, MGoto, mbMaster, mbLink, mbDevice, Forgotten, MbTypes, MbTypeOK
<1>2. ASSUME NEW t \in Masters, TestCon(t) PROVE Forgotten'
  BY <1>0, <1>2 DEF TestCon, MAt, MGoto, mbMaster, mbLink, mbDevice, mbHist, Forgotten, MbTypes,
     MbTypeOK
<1>3. ASSUME NEW t \in Masters, Connect(t) PROVE Forgotten'
  <2>1. UNCHANGED <<mcon, raced>>
    BY <1>3 DEF Connect, mbMaster, mbHist
  <2>2. \A u \in Masters : mpc'[u] = "forget" => mpc[u] = "forget"
    BY <1>0, <1>3 DEF Connect, MGoto, MbTypes, MbTypeOK
  <2>3. mcon \in masterOpen' => mcon \in masterOpen
    BY <1>3, ConnectCases DEF Dialled, NotDialled, Blank
  <2>4. QED
    BY <1>0, <2>1, <2>2, <2>3 DEF Forgotten
<1>4. ASSUME NEW t \in Masters, SetCon(t) PROVE Forgotten'
  BY <1>0, <1>4 DEF SetCon, MAt, MGoto, mbLink, mbDevice, Forgotten, MbTypes, MbTypeOK
<1>5. ASSUME NEW t \in Masters, MasterLock(t) PROVE Forgotten'
  BY <1>0, <1>5 DEF MasterLock, MbMuxFree, MAt, MGoto, mbLink, mbDevice, mbHist, Forgotten,
     MbTypes, MbTypeOK
<1>6. ASSUME NEW t \in Masters, WriteRequest(t) PROVE Forgotten'
  BY <1>0, <1>6 DEF WriteRequest, MAt, MGoto, mbMaster, mbDevice, Forgotten, MbTypes, MbTypeOK
<1>7. ASSUME NEW t \in Masters, ReadHeader(t) PROVE Forgotten'
  BY <1>0, <1>7 DEF ReadHeader, Came, MAt, MGoto, mbMaster, mbLink, mbDevice, mbHist, Forgotten,
     MbTypes, MbTypeOK
<1>8. ASSUME NEW t \in Masters, ReadTimeout(t) PROVE Forgotten'
  BY <1>0, <1>8 DEF ReadTimeout, AfterTimeout, Came, MAt, MGoto, mbMaster, mbLink, mbDevice,
     mbHist, Forgotten, MbTypes, MbTypeOK
<1>9. ASSUME NEW t \in Masters, ReadData(t) PROVE Forgotten'
  BY <1>0, <1>9 DEF ReadData, Came, MAt, MGoto, mbMaster, mbDevice, mbHist, Forgotten, MbTypes,
     MbTypeOK
<1>10. ASSUME NEW t \in Masters, ReleaseCon(t) PROVE Forgotten'
  BY <1>0, <1>10 DEF ReleaseCon, Released, MAt, MGoto, mbMaster, mbDevice, mbHist, Forgotten,
     MbTypes, MbTypeOK
<1>11. ASSUME NEW t \in Masters, ForgetCon(t) PROVE Forgotten'
  <2>1. ASSUME NEW u \in Masters, mpc'[u] = "forget" PROVE FALSE
    <3>1. u # t /\ mpc[u] = "forget" /\ mpc[t] = "forget"
      BY <1>0, <1>11, <2>1 DEF ForgetCon, MAt, MGoto, MbTypes, MbTypeOK
    <3>2. QED
      BY <3>1, OneInCall DEF Holds
  <2>2. QED
    BY <2>1 DEF Forgotten
<1>12. ASSUME NEW t \in Masters, MasterUnlock(t) PROVE Forgotten'
  BY <1>0, <1>12 DEF MasterUnlock, MAt, MGoto, mbLink, mbDevice, mbHist, Forgotten, MbTypes,
     MbTypeOK
<1>13. ASSUME NEW c \in ConIds, DeviceHead(c) PROVE Forgotten'
  BY <1>0, <1>13 DEF DeviceHead, HasBlock, DAt, DGoto, mbMaster, mbThread, mbHist, Forgotten,
     MbTypes, MbTypeOK
<1>14. ASSUME NEW c \in ConIds, DeviceData(c) PROVE Forgotten'
  BY <1>0, <1>14 DEF DeviceData, HasBlock, DAt, DGoto, mbMaster, mbThread, mbHist, Forgotten,
     MbTypes, MbTypeOK
<1>15. ASSUME NEW c \in ConIds, DeviceAnswer(c) PROVE Forgotten'
  BY <1>0, <1>15 DEF DeviceAnswer, Answers, DAt, DGoto, mbMaster, mbThread, mbHist, Forgotten,
     MbTypes, MbTypeOK
<1>16. ASSUME NEW c \in ConIds, DeviceMisreads(c) PROVE Forgotten'
  BY <1>0, <1>16 DEF DeviceMisreads, HasBlock, Answers, DAt, mbMaster, mbThread, mbDevice, mbHist,
     Forgotten, MbTypes, MbTypeOK
<1>17. ASSUME NEW c \in ConIds, DeviceEnds(c) PROVE Forgotten'
  BY <1>0, <1>17 DEF DeviceEnds, HasBlock, DAt, DGoto, mbMaster, mbThread, mbHist, Forgotten,
     MbTypes, MbTypeOK
<1>18. CASE UNCHANGED mbVars
  BY <1>0, <1>18 DEF mbVars, mbMaster, mbThread, mbLink, mbDevice, mbHist, Forgotten, MbTypes,
     MbTypeOK
<1>19. QED
  BY <1>1, <1>2, <1>3, <1>4, <1>5, <1>6, <1>7, <1>8, <1>9, <1>10, <1>11, <1>12, <1>13, <1>14,
     <1>15, <1>16, <1>17, <1>18 DEF MbNext, MasterStep, DeviceStep

(* The connection in use is clean or in an exchange.                       *)
LEMMA CleanNext ==
  ASSUME MbInv, [MbNext]_mbVars
  PROVE  CleanOrInUse'
<1>0. CleanOrInUse /\ DialledFresh /\ MbTypes
  BY DEF MbInv
<1>1. ASSUME NEW t \in Masters, Request(t) PROVE CleanOrInUse'
  BY <1>0, <1>1 DEF Request, MAt, MGoto, mbMaster, mbLink, mbDevice, CleanOrInUse, Clean, Reads,
     MbTypes, MbTypeOK
<1>2. ASSUME NEW t \in Masters, TestCon(t) PROVE CleanOrInUse'
  BY <1>0, <1>2 DEF TestCon, MAt, MGoto, mbMaster, mbLink, mbDevice, mbHist, CleanOrInUse, Clean,
     Reads, MbTypes, MbTypeOK
<1>3. ASSUME NEW t \in Masters, Connect(t) PROVE CleanOrInUse'
  <2>1. UNCHANGED <<mcon, toDevice, toMaster, misread, writtenOn>>
    BY <1>3 DEF Connect, mbMaster, mbHist
  <2>2. \A u \in Masters : mpc[u] \in Reads \cup {"release"} => mpc'[u] = mpc[u]
    BY <1>0, <1>3 DEF Connect, MAt, MGoto, Reads, MbTypes, MbTypeOK
  <2>3. mcon \in masterOpen' => mcon \in masterOpen /\ dpc'[mcon] = dpc[mcon]
    <3>1. CASE NotDialled(t)
      BY <3>1 DEF NotDialled
    <3>2. ASSUME NEW new \in ConIds, Dialled(t, new)
          PROVE  mcon \in masterOpen' => mcon \in masterOpen /\ dpc'[mcon] = dpc[mcon]
      <4>1. new # mcon /\ masterOpen' = masterOpen \cup {new} /\ dpc' = [dpc EXCEPT ![new] = "head"]
        BY <3>2 DEF Dialled, Blank
      <4>2. mcon \in masterOpen => mcon \in ConIds
        BY <1>0, OpenIds
      <4>3. dpc \in [ConIds -> {"none", "head", "data", "answer", "gone"}]
        BY <1>0 DEF MbTypes, MbTypeOK
      <4>4. QED
        BY <4>1, <4>2, <4>3
    <3>3. QED
      BY <1>3, <3>1, <3>2, ConnectCases
  <2>4. QED
    BY <1>0, <2>1, <2>2, <2>3 DEF CleanOrInUse, Clean
<1>4. ASSUME NEW t \in Masters, SetCon(t) PROVE CleanOrInUse'
  <2>1. Spare(dialledCon[t])
    BY <1>0, <1>4 DEF SetCon, MAt, DialledFresh
  <2>2. QED
    BY <1>4, <2>1 DEF SetCon, mbLink, mbDevice, CleanOrInUse, Clean, Spare
<1>5. ASSUME NEW t \in Masters, MasterLock(t) PROVE CleanOrInUse'
  BY <1>0, <1>5 DEF MasterLock, MbMuxFree, MAt, MGoto, mbLink, mbDevice, mbHist, CleanOrInUse,
     Clean, Reads, MbTypes, MbTypeOK
<1>6. ASSUME NEW t \in Masters, WriteRequest(t) PROVE CleanOrInUse'
  BY <1>0, <1>6 DEF WriteRequest, MAt, MGoto, mbMaster, mbDevice, CleanOrInUse, Clean, Reads,
     MbTypes, MbTypeOK
<1>7. ASSUME NEW t \in Masters, ReadHeader(t) PROVE CleanOrInUse'
  BY <1>0, <1>7 DEF ReadHeader, Came, MAt, MGoto, mbMaster, mbLink, mbDevice, mbHist,
     CleanOrInUse, Clean, Reads, MbTypes, MbTypeOK
<1>8. ASSUME NEW t \in Masters, ReadTimeout(t) PROVE CleanOrInUse'
  BY <1>0, <1>8 DEF ReadTimeout, AfterTimeout, Came, MAt, MGoto, mbMaster, mbLink, mbDevice,
     mbHist, CleanOrInUse, Clean, Reads, MbTypes, MbTypeOK
<1>9. ASSUME NEW t \in Masters, ReadData(t) PROVE CleanOrInUse'
  <2>1. mpc[t] = "data" /\ Came(mcon) /\ toMaster' = [toMaster EXCEPT ![mcon] = Tail(@)]
        /\ UNCHANGED <<mcon, misread, writtenOn, masterOpen, toDevice, dpc>>
    BY <1>9 DEF ReadData, MAt, mbMaster, mbDevice, mbHist
  <2>2. SUFFICES ASSUME mcon \in masterOpen \ misread PROVE Clean(mcon)'
    BY <2>1 DEF CleanOrInUse
  <2>3. toMaster[mcon] = <<AnswerTo(t)>> /\ toDevice[mcon] = << >> /\ dpc[mcon] = "head"
    BY <2>1, <2>2, OwnComes
  <2>4. mcon \in ConIds
    BY <1>0, <2>2, OpenIds
  <2>5. toMaster'[mcon] = Tail(toMaster[mcon])
    BY <1>0, <2>1, <2>4 DEF MbTypes
  <2>6. toMaster'[mcon] = << >>
    BY <2>3, <2>5
  <2>7. QED
    BY <2>1, <2>3, <2>6 DEF Clean
<1>10. ASSUME NEW t \in Masters, ReleaseCon(t) PROVE CleanOrInUse'
  BY <1>0, <1>10 DEF ReleaseCon, Released, MAt, MGoto, mbMaster, mbDevice, mbHist, CleanOrInUse,
     Clean, Reads, MbTypes, MbTypeOK
<1>11. ASSUME NEW t \in Masters, ForgetCon(t) PROVE CleanOrInUse'
  BY <1>0, <1>11, MbConstants, OpenIds, CleanForWriter DEF ForgetCon, MAt, MGoto, mbLink,
     mbDevice, mbHist, CleanOrInUse, Clean, Reads, MbTypes, MbTypeOK
<1>12. ASSUME NEW t \in Masters, MasterUnlock(t) PROVE CleanOrInUse'
  BY <1>0, <1>12 DEF MasterUnlock, MAt, MGoto, mbLink, mbDevice, mbHist, CleanOrInUse, Clean,
     Reads, MbTypes, MbTypeOK
<1>13. ASSUME NEW c \in ConIds, DeviceHead(c) PROVE CleanOrInUse'
  BY <1>0, <1>13, MbConstants, OpenIds, CleanForWriter DEF DeviceHead, HasBlock, DAt, DGoto,
     mbMaster, mbThread, mbHist, CleanOrInUse, Clean, Reads, MbTypes, MbTypeOK
<1>14. ASSUME NEW c \in ConIds, DeviceData(c) PROVE CleanOrInUse'
  BY <1>0, <1>14, MbConstants, OpenIds, CleanForWriter DEF DeviceData, HasBlock, DAt, DGoto,
     mbMaster, mbThread, mbHist, CleanOrInUse, Clean, Reads, MbTypes, MbTypeOK
<1>15. ASSUME NEW c \in ConIds, DeviceAnswer(c) PROVE CleanOrInUse'
  BY <1>0, <1>15, MbConstants, OpenIds, CleanForWriter DEF DeviceAnswer, Answers, DAt, DGoto,
     mbMaster, mbThread, mbHist, CleanOrInUse, Clean, Reads, MbTypes, MbTypeOK
<1>16. ASSUME NEW c \in ConIds, DeviceMisreads(c) PROVE CleanOrInUse'
  BY <1>0, <1>16, MbConstants, OpenIds, CleanForWriter DEF DeviceMisreads, HasBlock, Answers, DAt,
     mbMaster, mbThread, mbDevice, mbHist, CleanOrInUse, Clean, Reads, MbTypes, MbTypeOK
<1>17. ASSUME NEW c \in ConIds, DeviceEnds(c) PROVE CleanOrInUse'
  BY <1>0, <1>17, MbConstants, OpenIds, CleanForWriter DEF DeviceEnds, HasBlock, DAt, DGoto,
     mbMaster, mbThread, mbHist, CleanOrInUse, Clean, Reads, MbTypes, MbTypeOK
<1>18. CASE UNCHANGED mbVars
  BY <1>0, <1>18 DEF mbVars, mbMaster, mbThread, mbLink, mbDevice, mbHist, CleanOrInUse, Clean,
     Reads, MbTypes, MbTypeOK
<1>19. QED
  BY <1>1, <1>2, <1>3, <1>4, <1>5, <1>6, <1>7, <1>8, <1>9, <1>10, <1>11, <1>12, <1>13, <1>14,
     <1>15, <1>16, <1>17, <1>18 DEF MbNext, MasterStep, DeviceStep

(* An answer is the answer to the thread's request.                        *)
LEMMA OwnNext ==
  ASSUME MbInv, [MbNext]_mbVars
  PROVE  AnswerIsOwn'
<1>0. AnswerIsOwn /\ NotYetWritten /\ InExchange /\ MbTypes
  BY DEF MbInv
<1>1. ASSUME NEW t \in Masters, Request(t) PROVE AnswerIsOwn'
  BY <1>0, <1>1 DEF Request, MAt, MGoto, mbMaster, mbLink, mbDevice, AnswerIsOwn, MbTypes,
     MbTypeOK
<1>2. ASSUME NEW t \in Masters, TestCon(t) PROVE AnswerIsOwn'
  BY <1>0, <1>2 DEF TestCon, MAt, MGoto, mbMaster, mbLink, mbDevice, mbHist, AnswerIsOwn, MbTypes,
     MbTypeOK
<1>3. ASSUME NEW t \in Masters, Connect(t) PROVE AnswerIsOwn'
  BY <1>0, <1>3 DEF Connect, MAt, MGoto, mbMaster, mbHist, AnswerIsOwn, MbTypes, MbTypeOK
<1>4. ASSUME NEW t \in Masters, SetCon(t) PROVE AnswerIsOwn'
  BY <1>0, <1>4 DEF SetCon, MAt, MGoto, mbLink, mbDevice, AnswerIsOwn, MbTypes, MbTypeOK
<1>5. ASSUME NEW t \in Masters, MasterLock(t) PROVE AnswerIsOwn'
  BY <1>0, <1>5 DEF MasterLock, MbMuxFree, MAt, MGoto, mbLink, mbDevice, mbHist, AnswerIsOwn,
     MbTypes, MbTypeOK
<1>6. ASSUME NEW t \in Masters, WriteRequest(t) PROVE AnswerIsOwn'
  <2>1. /\ UNCHANGED <<answer, requests>> /\ writtenOn' \in {writtenOn, [writtenOn EXCEPT ![t] = mcon]}
        /\ misread \subseteq misread'
    BY <1>6 DEF WriteRequest
  <2>2. answer[t] \in {NotAnswered, <<t, requests[t]>>}
    <3>1. writtenOn[t] = NULL /\ NULL \notin misread
      BY <1>0, <1>6, MbConstants DEF WriteRequest, MAt, NotYetWritten, MbTypes, MbTypeOK
    <3>2. QED
      BY <1>0, <3>1 DEF AnswerIsOwn
  <2>3. ASSUME NEW u \in Masters
        PROVE  answer[u] \in {NotAnswered, <<u, requests[u]>>} \/ writtenOn'[u] \in misread'
    <3>1. CASE u = t
      BY <2>2, <3>1
    <3>2. CASE u # t
      <4>1. writtenOn'[u] = writtenOn[u]
        BY <1>0, <2>1, <3>2 DEF MbTypes
      <4>2. QED
        BY <1>0, <2>1, <4>1 DEF AnswerIsOwn
    <3>3. QED
      BY <3>1, <3>2
  <2>4. QED
    BY <2>1, <2>3 DEF AnswerIsOwn
<1>7. ASSUME NEW t \in Masters, ReadHeader(t) PROVE AnswerIsOwn'
  BY <1>0, <1>7 DEF ReadHeader, Came, MAt, MGoto, mbMaster, mbLink, mbDevice, mbHist, AnswerIsOwn,
     MbTypes, MbTypeOK
<1>8. ASSUME NEW t \in Masters, ReadTimeout(t) PROVE AnswerIsOwn'
  BY <1>0, <1>8 DEF ReadTimeout, AfterTimeout, Came, MAt, MGoto, mbMaster, mbLink, mbDevice,
     mbHist, AnswerIsOwn, MbTypes, MbTypeOK
<1>9. ASSUME NEW t \in Masters, ReadData(t) PROVE AnswerIsOwn'
  <2>1. /\ mpc[t] = "data" /\ Came(mcon)
        /\ UNCHANGED <<requests, misread, writtenOn>>
        /\ answer' = [answer EXCEPT ![t] = IF IsWanted(t, Head(toMaster[mcon]))
                                           THEN Head(toMaster[mcon]).of ELSE @]
    BY <1>9 DEF ReadData, MAt, mbHist
  <2>2. mcon \notin misread => Head(toMaster[mcon]).of = <<t, requests[t]>>
    <3>1. mcon \notin misread => toMaster[mcon] = <<AnswerTo(t)>>
      BY <2>1, OwnComes
    <3>2. Head(<<AnswerTo(t)>>).of = <<t, requests[t]>>
      BY DEF AnswerTo
    <3>3. QED
      BY <3>1, <3>2
  <2>3. mcon \in misread => writtenOn[t] = mcon
    BY <1>0, <2>1 DEF Reads, InExchange, ExchangeOf
  <2>4. answer'[t] \in {NotAnswered, <<t, requests[t]>>} \/ writtenOn[t] \in misread
    <3>1. answer'[t] \in {answer[t], Head(toMaster[mcon]).of}
      BY <1>0, <2>1 DEF MbTypes
    <3>2. QED
      BY <1>0, <2>2, <2>3, <3>1 DEF AnswerIsOwn
  <2>5. ASSUME NEW u \in Masters, u # t PROVE answer'[u] = answer[u]
    BY <1>0, <2>1, <2>5 DEF MbTypes
  <2>6. QED
    BY <1>0, <2>1, <2>4, <2>5 DEF AnswerIsOwn
<1>10. ASSUME NEW t \in Masters, ReleaseCon(t) PROVE AnswerIsOwn'
  BY <1>0, <1>10 DEF ReleaseCon, Released, MAt, MGoto, mbMaster, mbDevice, mbHist, AnswerIsOwn,
     MbTypes, MbTypeOK
<1>11. ASSUME NEW t \in Masters, ForgetCon(t) PROVE AnswerIsOwn'
  BY <1>0, <1>11 DEF ForgetCon, MAt, MGoto, mbLink, mbDevice, mbHist, AnswerIsOwn, MbTypes,
     MbTypeOK
<1>12. ASSUME NEW t \in Masters, MasterUnlock(t) PROVE AnswerIsOwn'
  BY <1>0, <1>12 DEF MasterUnlock, MAt, MGoto, mbLink, mbDevice, mbHist, AnswerIsOwn, MbTypes,
     MbTypeOK
<1>13. ASSUME NEW c \in ConIds, DeviceHead(c) PROVE AnswerIsOwn'
  BY <1>0, <1>13 DEF DeviceHead, HasBlock, DAt, DGoto, mbMaster, mbThread, mbHist, AnswerIsOwn,
     MbTypes, MbTypeOK
<1>14. ASSUME NEW c \in ConIds, DeviceData(c) PROVE AnswerIsOwn'
  BY <1>0, <1>14 DEF DeviceData, HasBlock, DAt, DGoto, mbMaster, mbThread, mbHist, AnswerIsOwn,
     MbTypes, MbTypeOK
<1>15. ASSUME NEW c \in ConIds, DeviceAnswer(c) PROVE AnswerIsOwn'
  BY <1>0, <1>15 DEF DeviceAnswer, Answers, DAt, DGoto, mbMaster, mbThread, mbHist, AnswerIsOwn,
     MbTypes, MbTypeOK
<1>16. ASSUME NEW c \in ConIds, DeviceMisreads(c) PROVE AnswerIsOwn'
  BY <1>0, <1>16 DEF DeviceMisreads, HasBlock, Answers, DAt, mbMaster, mbThread, mbDevice, mbHist,
     AnswerIsOwn, MbTypes, MbTypeOK
<1>17. ASSUME NEW c \in ConIds, DeviceEnds(c) PROVE AnswerIsOwn'
  BY <1>0, <1>17 DEF DeviceEnds, HasBlock, DAt, DGoto, mbMaster, mbThread, mbHist, AnswerIsOwn,
     MbTypes, MbTypeOK
<1>18. CASE UNCHANGED mbVars
  BY <1>0, <1>18 DEF mbVars, mbMaster, mbThread, mbLink, mbDevice, mbHist, AnswerIsOwn, MbTypes,
     MbTypeOK
<1>19. QED
  BY <1>1, <1>2, <1>3, <1>4, <1>5, <1>6, <1>7, <1>8, <1>9, <1>10, <1>11, <1>12, <1>13, <1>14,
     <1>15, <1>16, <1>17, <1>18 DEF MbNext, MasterStep, DeviceStep

(* A call writes once.                                                     *)
LEMMA NotYetWrittenNext ==
  ASSUME MbInv, [MbNext]_mbVars
  PROVE  NotYetWritten'
<1>0. NotYetWritten /\ MbTypes
  BY DEF MbInv
<1>1. ASSUME NEW t \in Masters, Request(t) PROVE NotYetWritten'
  BY <1>0, <1>1 DEF Request, MAt, MGoto, mbMaster, mbLink, mbDevice, NotYetWritten, MbTypes,
     MbTypeOK
<1>2. ASSUME NEW t \in Masters, TestCon(t) PROVE NotYetWritten'
  BY <1>0, <1>2 DEF TestCon, MAt, MGoto, mbMaster, mbLink, mbDevice, mbHist, NotYetWritten,
     MbTypes, MbTypeOK
<1>3. ASSUME NEW t \in Masters, Connect(t) PROVE NotYetWritten'
  BY <1>0, <1>3 DEF Connect, MAt, MGoto, mbMaster, mbHist, NotYetWritten, MbTypes, MbTypeOK
<1>4. ASSUME NEW t \in Masters, SetCon(t) PROVE NotYetWritten'
  BY <1>0, <1>4 DEF SetCon, MAt, MGoto, mbLink, mbDevice, NotYetWritten, MbTypes, MbTypeOK
<1>5. ASSUME NEW t \in Masters, MasterLock(t) PROVE NotYetWritten'
  BY <1>0, <1>5 DEF MasterLock, MbMuxFree, MAt, MGoto, mbLink, mbDevice, mbHist, NotYetWritten,
     MbTypes, MbTypeOK
<1>6. ASSUME NEW t \in Masters, WriteRequest(t) PROVE NotYetWritten'
  <2>1. /\ \E l \in {"header", "release"} : mpc' = [mpc EXCEPT ![t] = l]
        /\ writtenOn' \in {writtenOn, [writtenOn EXCEPT ![t] = mcon]}
    BY <1>6 DEF WriteRequest, MGoto
  <2>2. QED
    BY <1>0, <2>1 DEF NotYetWritten, MbTypes, MbTypeOK
<1>7. ASSUME NEW t \in Masters, ReadHeader(t) PROVE NotYetWritten'
  BY <1>0, <1>7 DEF ReadHeader, Came, MAt, MGoto, mbMaster, mbLink, mbDevice, mbHist,
     NotYetWritten, MbTypes, MbTypeOK
<1>8. ASSUME NEW t \in Masters, ReadTimeout(t) PROVE NotYetWritten'
  BY <1>0, <1>8 DEF ReadTimeout, AfterTimeout, Came, MAt, MGoto, mbMaster, mbLink, mbDevice,
     mbHist, NotYetWritten, MbTypes, MbTypeOK
<1>9. ASSUME NEW t \in Masters, ReadData(t) PROVE NotYetWritten'
  BY <1>0, <1>9 DEF ReadData, Came, MAt, MGoto, mbMaster, mbDevice, mbHist, NotYetWritten,
     MbTypes, MbTypeOK
<1>10. ASSUME NEW t \in Masters, ReleaseCon(t) PROVE NotYetWritten'
  BY <1>0, <1>10 DEF ReleaseCon, Released, MAt, MGoto, mbMaster, mbDevice, mbHist, NotYetWritten,
     MbTypes, MbTypeOK
<1>11. ASSUME NEW t \in Masters, ForgetCon(t) PROVE NotYetWritten'
  BY <1>0, <1>11 DEF ForgetCon, MAt, MGoto, mbLink, mbDevice, mbHist, NotYetWritten, MbTypes,
     MbTypeOK
<1>12. ASSUME NEW t \in Masters, MasterUnlock(t) PROVE NotYetWritten'
  BY <1>0, <1>12 DEF MasterUnlock, MAt, MGoto, mbLink, mbDevice, mbHist, NotYetWritten, MbTypes,
     MbTypeOK
<1>13. ASSUME NEW c \in ConIds, DeviceHead(c) PROVE NotYetWritten'
  BY <1>0, <1>13 DEF DeviceHead, HasBlock, DAt, DGoto, mbMaster, mbThread, mbHist, NotYetWritten,
     MbTypes, MbTypeOK
<1>14. ASSUME NEW c \in ConIds, DeviceData(c) PROVE NotYetWritten'
  BY <1>0, <1>14 DEF DeviceData, HasBlock, DAt, DGoto, mbMaster, mbThread, mbHist, NotYetWritten,
     MbTypes, MbTypeOK
<1>15. ASSUME NEW c \in ConIds, DeviceAnswer(c) PROVE NotYetWritten'
  BY <1>0, <1>15 DEF DeviceAnswer, Answers, DAt, DGoto, mbMaster, mbThread, mbHist, NotYetWritten,
     MbTypes, MbTypeOK
<1>16. ASSUME NEW c \in ConIds, DeviceMisreads(c) PROVE NotYetWritten'
  BY <1>0, <1>16 DEF DeviceMisreads, HasBlock, Answers, DAt, mbMaster, mbThread, mbDevice, mbHist,
     NotYetWritten, MbTypes, MbTypeOK
<1>17. ASSUME NEW c \in ConIds, DeviceEnds(c) PROVE NotYetWritten'
  BY <1>0, <1>17 DEF DeviceEnds, HasBlock, DAt, DGoto, mbMaster, mbThread, mbHist, NotYetWritten,
     MbTypes, MbTypeOK
<1>18. CASE UNCHANGED mbVars
  BY <1>0, <1>18 DEF mbVars, mbMaster, mbThread, mbLink, mbDevice, mbHist, NotYetWritten, MbTypes,
     MbTypeOK
<1>19. QED
  BY <1>1, <1>2, <1>3, <1>4, <1>5, <1>6, <1>7, <1>8, <1>9, <1>10, <1>11, <1>12, <1>13, <1>14,
     <1>15, <1>16, <1>17, <1>18 DEF MbNext, MasterStep, DeviceStep

(* One connection is open.                                                 *)
LEMMA OneOpenNext ==
  ASSUME MbInv, [MbNext]_mbVars
  PROVE  OneOpen'
<1>0. OneOpen /\ Forgotten /\ DialledFresh /\ MbTypes
  BY DEF MbInv
<1>1. ASSUME NEW t \in Masters, Request(t) PROVE OneOpen'
  BY <1>0, <1>1 DEF Request, MAt, MGoto, mbMaster, mbLink, mbDevice, OneOpen, MbTypes, MbTypeOK
<1>2. ASSUME NEW t \in Masters, TestCon(t) PROVE OneOpen'
  BY <1>0, <1>2 DEF TestCon, MAt, MGoto, mbMaster, mbLink, mbDevice, mbHist, OneOpen, MbTypes,
     MbTypeOK
<1>3. ASSUME NEW t \in Masters, Connect(t) PROVE OneOpen'
  <2>1. UNCHANGED <<mcon, raced>>
    BY <1>3 DEF Connect, mbMaster, mbHist
  <2>2. CASE NotDialled(t)
    BY <1>0, <2>1, <2>2 DEF NotDialled, OneOpen
  <2>3. ASSUME NEW new \in ConIds, Dialled(t, new) PROVE OneOpen'
    <3>1. /\ masterOpen' = masterOpen \cup {new} /\ dialledCon'[t] = new
          /\ \A u \in Masters \ {t} : dialledCon'[u] = dialledCon[u]
      BY <1>0, <2>3 DEF Dialled, MbTypes, MbTypeOK
    <3>2. dialledCon[t] \notin masterOpen
      <4>1. mpc[t] = "connect"
        BY <1>3 DEF Connect, MAt
      <4>2. dialledCon[t] = NULL
        BY <1>0, <4>1 DEF DialledFresh
      <4>3. QED
        BY <1>0, <4>2, MbConstants, OpenIds
    <3>3. QED
      BY <1>0, <2>1, <3>1, <3>2 DEF OneOpen
  <2>4. QED
    BY <1>3, <2>2, <2>3, ConnectCases
<1>4. ASSUME NEW t \in Masters, SetCon(t) PROVE OneOpen'
  <2>1. /\ mcon' = dialledCon[t] /\ UNCHANGED masterOpen
        /\ dialledCon' = [dialledCon EXCEPT ![t] = NULL]
        /\ ~raced' => ~raced /\ mcon = NULL
    BY <1>4 DEF SetCon, mbLink
  <2>2. \A u \in Masters \ {t} : dialledCon'[u] = dialledCon[u]
    BY <1>0, <2>1 DEF MbTypes, MbTypeOK
  <2>3. NULL \notin masterOpen
    BY <1>0, MbConstants, OpenIds
  <2>4. QED
    BY <1>0, <2>1, <2>2, <2>3 DEF OneOpen
<1>5. ASSUME NEW t \in Masters, MasterLock(t) PROVE OneOpen'
  BY <1>0, <1>5 DEF MasterLock, MbMuxFree, MAt, MGoto, mbLink, mbDevice, mbHist, OneOpen, MbTypes,
     MbTypeOK
<1>6. ASSUME NEW t \in Masters, WriteRequest(t) PROVE OneOpen'
  BY <1>0, <1>6 DEF WriteRequest, MAt, MGoto, mbMaster, mbDevice, OneOpen, MbTypes, MbTypeOK
<1>7. ASSUME NEW t \in Masters, ReadHeader(t) PROVE OneOpen'
  BY <1>0, <1>7 DEF ReadHeader, Came, MAt, MGoto, mbMaster, mbLink, mbDevice, mbHist, OneOpen,
     MbTypes, MbTypeOK
<1>8. ASSUME NEW t \in Masters, ReadTimeout(t) PROVE OneOpen'
  BY <1>0, <1>8 DEF ReadTimeout, AfterTimeout, Came, MAt, MGoto, mbMaster, mbLink, mbDevice,
     mbHist, OneOpen, MbTypes, MbTypeOK
<1>9. ASSUME NEW t \in Masters, ReadData(t) PROVE OneOpen'
  BY <1>0, <1>9 DEF ReadData, Came, MAt, MGoto, mbMaster, mbDevice, mbHist, OneOpen, MbTypes,
     MbTypeOK
<1>10. ASSUME NEW t \in Masters, ReleaseCon(t) PROVE OneOpen'
  BY <1>0, <1>10 DEF ReleaseCon, Released, MAt, MGoto, mbMaster, mbDevice, mbHist, OneOpen,
     MbTypes, MbTypeOK
<1>11. ASSUME NEW t \in Masters, ForgetCon(t) PROVE OneOpen'
  <2>1. mpc[t] = "forget" /\ UNCHANGED <<raced, masterOpen, dialledCon>>
    BY <1>11 DEF ForgetCon, MAt, mbHist, mbLink
  <2>2. ~raced => mcon \notin masterOpen
    BY <1>0, <2>1 DEF Forgotten
  <2>3. QED
    BY <1>0, <2>1, <2>2 DEF OneOpen
<1>12. ASSUME NEW t \in Masters, MasterUnlock(t) PROVE OneOpen'
  BY <1>0, <1>12 DEF MasterUnlock, MAt, MGoto, mbLink, mbDevice, mbHist, OneOpen, MbTypes,
     MbTypeOK
<1>13. ASSUME NEW c \in ConIds, DeviceHead(c) PROVE OneOpen'
  BY <1>0, <1>13 DEF DeviceHead, HasBlock, DAt, DGoto, mbMaster, mbThread, mbHist, OneOpen,
     MbTypes, MbTypeOK
<1>14. ASSUME NEW c \in ConIds, DeviceData(c) PROVE OneOpen'
  BY <1>0, <1>14 DEF DeviceData, HasBlock, DAt, DGoto, mbMaster, mbThread, mbHist, OneOpen,
     MbTypes, MbTypeOK
<1>15. ASSUME NEW c \in ConIds, DeviceAnswer(c) PROVE OneOpen'
  BY <1>0, <1>15 DEF DeviceAnswer, Answers, DAt, DGoto, mbMaster, mbThread, mbHist, OneOpen,
     MbTypes, MbTypeOK
<1>16. ASSUME NEW c \in ConIds, DeviceMisreads(c) PROVE OneOpen'
  BY <1>0, <1>16 DEF DeviceMisreads, HasBlock, Answers, DAt, mbMaster, mbThread, mbDevice, mbHist,
     OneOpen, MbTypes, MbTypeOK
<1>17. ASSUME NEW c \in ConIds, DeviceEnds(c) PROVE OneOpen'
  BY <1>0, <1>17 DEF DeviceEnds, HasBlock, DAt, DGoto, mbMaster, mbThread, mbHist, OneOpen,
     MbTypes, MbTypeOK
<1>18. CASE UNCHANGED mbVars
  BY <1>0, <1>18 DEF mbVars, mbMaster, mbThread, mbLink, mbDevice, mbHist, OneOpen, MbTypes,
     MbTypeOK
<1>19. QED
  BY <1>1, <1>2, <1>3, <1>4, <1>5, <1>6, <1>7, <1>8, <1>9, <1>10, <1>11, <1>12, <1>13, <1>14,
     <1>15, <1>16, <1>17, <1>18 DEF MbNext, MasterStep, DeviceStep

(* What the device does with a request that is under way.                  *)
LEMMA BlocksAre ==
  ASSUME NEW t \in Masters, fn[t] # "unknown"
  PROVE  Blocks(t) = IF fn[t] = "write multiple" THEN <<HeadOf(t), Data>> ELSE <<HeadOf(t)>>
<1>1. fn[t] \in WithData <=> fn[t] = "write multiple"
  BY DEF WithData
<1>2. Blocks(t) = <<HeadOf(t)>> \o IF fn[t] = "write multiple" THEN <<Data>> ELSE << >>
  BY <1>1 DEF Blocks, HeadOf, Data
<1>3. ASSUME NEW x, NEW y PROVE <<x>> \o <<y>> = <<x, y>> /\ <<x>> \o << >> = <<x>>
  <2> DEFINE one == <<x>> \o <<y>>
             two == <<x, y>>
  <2>1. <<x>> \in Seq({x, y}) /\ <<y>> \in Seq({x, y})
    OBVIOUS
  <2>2. Len(one) = 2 /\ one[1] = x /\ one[2] = y /\ one \in Seq({x, y})
    BY <2>1
  <2>3. Len(two) = 2 /\ two[1] = x /\ two[2] = y /\ two \in Seq({x, y})
    OBVIOUS
  <2> HIDE DEF one, two
  <2>4. \A i \in 1 .. Len(one) : one[i] = two[i]
    BY <2>2, <2>3
  <2>5. one = two
    BY <2>2, <2>3, <2>4, SeqEqual
  <2>6. <<x>> \o << >> = <<x>>
    OBVIOUS
  <2>7. QED
    BY <2>5, <2>6 DEF one, two
<1>4. CASE fn[t] = "write multiple"
  BY <1>2, <1>3, <1>4
<1>5. CASE fn[t] # "write multiple"
  BY <1>2, <1>3, <1>5
<1>6. QED
  BY <1>4, <1>5

LEMMA UnderWayNext ==
  ASSUME MbInv, NEW t \in Masters, NEW c \in ConIds, c \in masterOpen, UnderWay(t, c), DeviceStep(c)
  PROVE  UnderWay(t, c)'
<1>0. MbTypes /\ fn[t] # "unknown"
  BY DEF MbInv, UnderWay
<1>1. (fn[t] # "unknown")' /\ HeadOf(t)' = HeadOf(t) /\ AnswerTo(t)' = AnswerTo(t) /\ fn' = fn
  BY DEF UnderWay, DeviceStep, DeviceHead, DeviceData, DeviceAnswer, DeviceMisreads, DeviceEnds,
         HeadOf, AnswerTo, mbMaster, mbThread
<1> DEFINE head == HeadOf(t)
<1>2. head.kind = "head" /\ head.fn = fn[t] /\ head.nr = AnswerTo(t).nr /\ head.of = AnswerTo(t).of
  BY DEF HeadOf, AnswerTo
<1>3. AnswerTo(t) = [nr |-> head.nr, of |-> head.of]
  BY DEF HeadOf, AnswerTo
<1>4. Data.kind = "data" /\ Data.kind # "head"
  BY DEF Data
<1>5. \/ toMaster[c] = << >> /\ toDevice[c] = <<head>> /\ dpc[c] = "head" /\ fn[t] # "write multiple"
      \/ toMaster[c] = << >> /\ toDevice[c] = <<head, Data>> /\ dpc[c] = "head" /\ fn[t] = "write multiple"
      \/ /\ toMaster[c] = << >> /\ toDevice[c] = <<Data>> /\ dpc[c] = "data"
         /\ fn[t] = "write multiple" /\ dreq[c] = head
      \/ toMaster[c] = << >> /\ toDevice[c] = << >> /\ dpc[c] = "answer" /\ dreq[c] = head
      \/ toMaster[c] = <<AnswerTo(t)>> /\ toDevice[c] = << >> /\ dpc[c] = "head"
  BY <1>0, BlocksAre DEF UnderWay
<1> HIDE DEF head
<1> DEFINE Result ==
      \/ /\ toMaster'[c] = << >> /\ toDevice'[c] = <<Data>> /\ dpc'[c] = "data"
         /\ fn[t] = "write multiple" /\ dreq'[c] = head
      \/ toMaster'[c] = << >> /\ toDevice'[c] = << >> /\ dpc'[c] = "answer" /\ dreq'[c] = head
      \/ toMaster'[c] = <<AnswerTo(t)>> /\ toDevice'[c] = << >> /\ dpc'[c] = "head"
<1>6. ASSUME DeviceHead(c) PROVE Result
  <2>1. /\ dpc[c] = "head" /\ toDevice[c] # << >> /\ toMaster' = toMaster
        /\ dreq' = [dreq EXCEPT ![c] = Head(toDevice[c])]
        /\ toDevice' = [toDevice EXCEPT ![c] = Tail(@)]
        /\ dpc' = [dpc EXCEPT ![c] = IF Head(toDevice[c]).fn = "write multiple" THEN "data" ELSE "answer"]
    BY <1>6 DEF DeviceHead, DAt, DGoto, HasBlock
  <2>2. /\ dreq'[c] = Head(toDevice[c]) /\ toDevice'[c] = Tail(toDevice[c])
        /\ dpc'[c] = IF Head(toDevice[c]).fn = "write multiple" THEN "data" ELSE "answer"
    BY <1>0, <2>1 DEF MbTypes, MbTypeOK
  <2>3. ASSUME toMaster[c] = << >> /\ toDevice[c] = <<head>> /\ fn[t] # "write multiple"
        PROVE  Result
    <3>1. Head(<<head>>) = head /\ Tail(<<head>>) = << >>
      OBVIOUS
    <3>2. QED
      BY <1>2, <2>1, <2>2, <2>3, <3>1
  <2>4. ASSUME toMaster[c] = << >> /\ toDevice[c] = <<head, Data>> /\ fn[t] = "write multiple"
        PROVE  Result
    <3>1. Head(<<head, Data>>) = head /\ Tail(<<head, Data>>) = <<Data>>
      OBVIOUS
    <3>2. QED
      BY <1>2, <2>1, <2>2, <2>4, <3>1
  <2>5. QED
    BY <1>5, <2>1, <2>3, <2>4
<1>7. ASSUME DeviceData(c) PROVE Result
  <2>1. /\ dpc[c] = "data" /\ UNCHANGED <<toMaster, dreq>>
        /\ toDevice' = IF HasBlock(c, "data") THEN [toDevice EXCEPT ![c] = Tail(@)] ELSE toDevice
        /\ dpc' = [dpc EXCEPT ![c] = "answer"]
    BY <1>7 DEF DeviceData, DAt, DGoto
  <2>2. toMaster[c] = << >> /\ toDevice[c] = <<Data>> /\ dreq[c] = head
    BY <1>5, <2>1
  <2>3. Head(<<Data>>) = Data /\ Tail(<<Data>>) = << >> /\ <<Data>> # << >>
    OBVIOUS
  <2>4. HasBlock(c, "data")
    BY <1>4, <2>2, <2>3 DEF HasBlock
  <2>5. toDevice'[c] = << >> /\ dpc'[c] = "answer"
    BY <1>0, <2>1, <2>2, <2>3, <2>4 DEF MbTypes, MbTypeOK
  <2>6. QED
    BY <2>1, <2>2, <2>5
<1>8. ASSUME DeviceAnswer(c) PROVE Result
  <2>1. /\ dpc[c] = "answer" /\ toDevice' = toDevice
        /\ toMaster' = [toMaster EXCEPT ![c] = Append(@, [nr |-> dreq[c].nr, of |-> dreq[c].of])]
        /\ dpc' = [dpc EXCEPT ![c] = "head"]
    BY <1>8 DEF DeviceAnswer, DAt, DGoto, Answers, AnswerNumber
  <2>2. toMaster[c] = << >> /\ toDevice[c] = << >> /\ dreq[c] = head
    BY <1>5, <2>1
  <2>3. toMaster'[c] = Append(toMaster[c], [nr |-> head.nr, of |-> head.of]) /\ dpc'[c] = "head"
    BY <1>0, <2>1, <2>2 DEF MbTypes, MbTypeOK
  <2>4. Append(<< >>, AnswerTo(t)) = <<AnswerTo(t)>>
    OBVIOUS
  <2>5. QED
    BY <1>3, <2>1, <2>2, <2>3, <2>4
<1>9. ~DeviceMisreads(c)
  <2>1. SUFFICES ASSUME DeviceMisreads(c) PROVE FALSE
    OBVIOUS
  <2>2. dpc[c] = "head" /\ toDevice[c] # << >> /\ Head(toDevice[c]).kind = "data"
    BY <2>1 DEF DeviceMisreads, DAt, HasBlock
  <2>3. Head(<<head>>) = head /\ Head(<<head, Data>>) = head
    OBVIOUS
  <2>4. QED
    BY <1>2, <1>5, <2>2, <2>3
<1>10. ~DeviceEnds(c)
  <2>1. SUFFICES ASSUME DeviceEnds(c) PROVE FALSE
    OBVIOUS
  <2>2. dpc[c] = "head" /\ toDevice[c] # << >> /\ Head(toDevice[c]).kind = "data"
    BY <2>1 DEF DeviceEnds, DAt, HasBlock
  <2>3. Head(<<head>>) = head /\ Head(<<head, Data>>) = head
    OBVIOUS
  <2>4. QED
    BY <1>2, <1>5, <2>2, <2>3
<1>11. Result
  BY <1>6, <1>7, <1>8, <1>9, <1>10 DEF DeviceStep
<1>12. QED
  BY <1>1, <1>11 DEF UnderWay, head

(* A reader's request stays under way until its answer is read.            *)
LEMMA ExchangeNext ==
  ASSUME MbInv, [MbNext]_mbVars
  PROVE  InExchange'
<1>0. InExchange /\ LockOfOne /\ DialledFresh /\ MbTypes
  BY DEF MbInv
<1>1. ASSUME NEW t \in Masters, Request(t) PROVE InExchange'
  <2>1. SUFFICES ASSUME NEW u \in Masters, mpc'[u] \in Reads PROVE ExchangeOf(u)'
    BY DEF InExchange
  <2>2. u # t /\ mpc[u] \in Reads
    BY <1>0, <1>1, <2>1 DEF Request, MAt, MGoto, Reads, MbTypes, MbTypeOK
  <2>3. ExchangeOf(u)
    BY <1>0, <2>2 DEF InExchange
  <2>4. /\ fn'[u] = fn[u] /\ requests'[u] = requests[u] /\ writtenOn'[u] = writtenOn[u]
        /\ UNCHANGED <<mcon, iMsgIdx, masterOpen, toDevice, toMaster, dpc, dreq, misread, raced>>
    BY <1>0, <1>1, <2>2 DEF Request, mbMaster, mbLink, mbDevice, mbHist, MbTypes, MbTypeOK
  <2>5. Blocks(u)' = Blocks(u) /\ HeadOf(u)' = HeadOf(u) /\ AnswerTo(u)' = AnswerTo(u)
    BY <2>4 DEF Blocks, HeadOf, AnswerTo
  <2>6. QED
    BY <2>3, <2>4, <2>5 DEF ExchangeOf, UnderWay
<1>2. ASSUME NEW t \in Masters, TestCon(t) PROVE InExchange'
  <2>1. SUFFICES ASSUME NEW u \in Masters, mpc'[u] \in Reads PROVE ExchangeOf(u)'
    BY DEF InExchange
  <2>2. u # t /\ mpc[u] \in Reads
    BY <1>0, <1>2, <2>1 DEF TestCon, MAt, MGoto, Reads, MbTypes, MbTypeOK
  <2>3. ExchangeOf(u)
    BY <1>0, <2>2 DEF InExchange
  <2>4. /\ fn'[u] = fn[u] /\ requests'[u] = requests[u] /\ writtenOn'[u] = writtenOn[u]
        /\ UNCHANGED <<mcon, iMsgIdx, masterOpen, toDevice, toMaster, dpc, dreq, misread, raced>>
    BY <1>0, <1>2, <2>2 DEF TestCon, mbMaster, mbLink, mbDevice, mbHist, MbTypes, MbTypeOK
  <2>5. Blocks(u)' = Blocks(u) /\ HeadOf(u)' = HeadOf(u) /\ AnswerTo(u)' = AnswerTo(u)
    BY <2>4 DEF Blocks, HeadOf, AnswerTo
  <2>6. QED
    BY <2>3, <2>4, <2>5 DEF ExchangeOf, UnderWay
<1>3. ASSUME NEW t \in Masters, Connect(t) PROVE InExchange'
  <2>1. SUFFICES ASSUME NEW u \in Masters, mpc'[u] \in Reads PROVE ExchangeOf(u)'
    BY DEF InExchange
  <2>2. mpc[u] \in Reads
    BY <1>0, <1>3, <2>1 DEF Connect, MAt, MGoto, Reads, MbTypes, MbTypeOK
  <2>3. ExchangeOf(u)
    BY <1>0, <2>2 DEF InExchange
  <2>4. UNCHANGED <<mcon, iMsgIdx, fn, requests, toDevice, toMaster, dreq, misread, writtenOn, raced>>
    BY <1>3 DEF Connect, mbMaster, mbHist
  <2>5. mcon \in masterOpen' /\ dpc'[mcon] = dpc[mcon]
    <3>1. mcon \in masterOpen /\ mcon \in ConIds
      BY <1>0, <2>3, OpenIds DEF ExchangeOf
    <3>2. ASSUME NEW new \in ConIds, Dialled(t, new) PROVE mcon \in masterOpen' /\ dpc'[mcon] = dpc[mcon]
      BY <1>0, <3>1, <3>2 DEF Dialled, Blank, MbTypes, MbTypeOK
    <3>3. QED
      BY <1>3, <3>1, <3>2, ConnectCases DEF NotDialled
  <2>6. Blocks(u)' = Blocks(u) /\ HeadOf(u)' = HeadOf(u) /\ AnswerTo(u)' = AnswerTo(u)
    BY <2>4 DEF Blocks, HeadOf, AnswerTo
  <2>7. QED
    BY <2>3, <2>4, <2>5, <2>6 DEF ExchangeOf, UnderWay
<1>4. ASSUME NEW t \in Masters, SetCon(t) PROVE InExchange'
  <2>1. SUFFICES ASSUME NEW u \in Masters, mpc'[u] \in Reads PROVE ExchangeOf(u)'
    BY DEF InExchange
  <2>2. mpc[u] \in Reads
    BY <1>0, <1>4, <2>1 DEF SetCon, MAt, MGoto, Reads, MbTypes, MbTypeOK
  <2>3. mcon # NULL /\ writtenOn[u] # NULL
    BY <1>0, <2>2, MbConstants, OpenIds DEF InExchange, ExchangeOf
  <2>4. Spare(dialledCon[t])
    BY <1>0, <1>4 DEF SetCon, MAt, DialledFresh
  <2>5. /\ mcon' = dialledCon[t] /\ UNCHANGED <<masterOpen, misread, writtenOn>>
        /\ mcon # NULL => raced'
    BY <1>4 DEF SetCon, mbLink
  <2>6. /\ mcon' \in masterOpen' /\ mcon' \notin misread' /\ writtenOn'[u] # mcon'
        /\ writtenOn'[u] # NULL /\ raced'
    BY <2>3, <2>4, <2>5 DEF Spare
  <2>7. QED
    BY <2>6 DEF ExchangeOf
<1>5. ASSUME NEW t \in Masters, MasterLock(t) PROVE InExchange'
  <2>1. SUFFICES ASSUME NEW u \in Masters, mpc'[u] \in Reads PROVE ExchangeOf(u)'
    BY DEF InExchange
  <2>2. u # t /\ mpc[u] \in Reads
    BY <1>0, <1>5, <2>1 DEF MasterLock, MAt, MGoto, Reads, MbTypes, MbTypeOK
  <2>3. mbMux = u
    BY <1>0, <2>2 DEF LockOfOne, Holds, Reads
  <2>4. QED
    BY <1>5, <2>3, MbConstants DEF MasterLock, MbMuxFree
<1>6. ASSUME NEW t \in Masters, WriteRequest(t) PROVE InExchange'
  <2>1. mpc[t] \in Holds
    BY <1>6 DEF WriteRequest, MAt, Holds
  <2>2. SUFFICES ASSUME NEW u \in Masters, mpc'[u] \in Reads PROVE ExchangeOf(u)'
    BY DEF InExchange
  <2>3. u # t => mpc[u] \in Holds
    BY <1>0, <1>6, <2>2 DEF WriteRequest, MGoto, Holds, Reads, MbTypes, MbTypeOK
  <2>4. u = t
    BY <2>1, <2>3, OneInCall
  <2>5. /\ mcon \in masterOpen /\ toDevice' = [toDevice EXCEPT ![mcon] = @ \o Blocks(t)]
        /\ misread' = (IF fn[t] = "unknown" THEN misread \cup {mcon} ELSE misread)
        /\ writtenOn' = [writtenOn EXCEPT ![t] = mcon]
    <3>1. CASE MGoto(t, "release")
      BY <1>0, <2>2, <2>4, <3>1 DEF MGoto, Reads, MbTypes, MbTypeOK
    <3>2. QED
      BY <1>6, <3>1 DEF WriteRequest
  <2>6. mpc[t] = "write" /\ UNCHANGED <<mcon, iMsgIdx, fn, requests, masterOpen, toMaster, dpc, dreq, raced>>
    BY <1>6 DEF WriteRequest, MAt, mbMaster, mbDevice
  <2>7. writtenOn'[u] = mcon /\ mcon \in ConIds /\ mcon # NULL
    BY <1>0, <2>4, <2>5, MbConstants, OpenIds DEF MbTypes
  <2>8. ASSUME mcon \notin misread' PROVE UnderWay(u, mcon)'
    <3>1. fn[t] # "unknown" /\ mcon \notin misread
      BY <2>5, <2>8
    <3>2. toDevice[mcon] = << >> /\ toMaster[mcon] = << >> /\ dpc[mcon] = "head"
      <4>1. mcon \in masterOpen \ misread
        BY <2>5, <3>1
      <4>2. Clean(mcon)
        BY <2>6, <4>1, CleanForWriter
      <4>3. QED
        BY <4>2 DEF Clean
    <3>3. toDevice'[mcon] = << >> \o Blocks(t)
      BY <1>0, <2>5, <2>7, <3>2 DEF MbTypes
    <3>4. << >> \o Blocks(t) = Blocks(t)
      <4>1. Blocks(t) \in Seq({HeadOf(t), Data})
        <5> DEFINE head == HeadOf(t)
        <5>1. Blocks(t) = <<head, Data>> \/ Blocks(t) = <<head>>
          BY <3>1, BlocksAre
        <5> HIDE DEF head
        <5>2. <<head, Data>> \in Seq({head, Data}) /\ <<head>> \in Seq({head, Data})
          OBVIOUS
        <5>3. QED
          BY <5>1, <5>2 DEF head
      <4>2. QED
        BY <4>1, ConcatEmptySeq
    <3>5. Blocks(u)' = Blocks(t)
      BY <2>4, <2>6 DEF Blocks
    <3>6. QED
      BY <2>4, <2>6, <3>1, <3>2, <3>3, <3>4, <3>5 DEF UnderWay
  <2>9. QED
    BY <2>5, <2>6, <2>7, <2>8 DEF ExchangeOf
<1>7. ASSUME NEW t \in Masters, ReadHeader(t) PROVE InExchange'
  <2>1. mpc[t] \in Holds
    BY <1>7 DEF ReadHeader, MAt, Holds
  <2>2. SUFFICES ASSUME NEW u \in Masters, mpc'[u] \in Reads PROVE ExchangeOf(u)'
    BY DEF InExchange
  <2>3. u # t => mpc[u] \in Holds
    BY <1>0, <1>7, <2>2 DEF ReadHeader, MGoto, Holds, Reads, MbTypes, MbTypeOK
  <2>4. u = t
    BY <2>1, <2>3, OneInCall
  <2>5. ExchangeOf(u)
    BY <1>0, <1>7, <2>4 DEF ReadHeader, MAt, InExchange, Reads
  <2>6. UNCHANGED <<mcon, iMsgIdx, fn, requests, masterOpen, toDevice, toMaster, dpc, dreq, misread, writtenOn, raced>>
    BY <1>7 DEF ReadHeader, mbMaster, mbLink, mbDevice, mbHist
  <2>7. QED
    BY <2>5, <2>6 DEF ExchangeOf, UnderWay, Blocks, HeadOf, AnswerTo
<1>8. ASSUME NEW t \in Masters, ReadTimeout(t) PROVE InExchange'
  <2>1. mpc[t] \in Holds
    BY <1>8 DEF ReadTimeout, MAt, Holds
  <2>2. SUFFICES ASSUME NEW u \in Masters, mpc'[u] \in Reads PROVE ExchangeOf(u)'
    BY DEF InExchange
  <2>3. u # t => mpc[u] \in Holds
    BY <1>0, <1>8, <2>2 DEF ReadTimeout, MGoto, Holds, Reads, MbTypes, MbTypeOK
  <2>4. u = t
    BY <2>1, <2>3, OneInCall
  <2>5. QED
    BY <1>0, <1>8, <2>2, <2>4 DEF ReadTimeout, MAt, MGoto, Reads, MbTypes, MbTypeOK, AfterTimeout
<1>9. ASSUME NEW t \in Masters, ReadData(t) PROVE InExchange'
  <2>1. mpc[t] \in Holds
    BY <1>9 DEF ReadData, MAt, Holds
  <2>2. SUFFICES ASSUME NEW u \in Masters, mpc'[u] \in Reads PROVE ExchangeOf(u)'
    BY DEF InExchange
  <2>3. u # t => mpc[u] \in Holds
    BY <1>0, <1>9, <2>2 DEF ReadData, MGoto, Holds, Reads, MbTypes, MbTypeOK
  <2>4. u = t
    BY <2>1, <2>3, OneInCall
  <2>5. mpc[t] = "data" /\ Came(mcon) /\ mpc[t] \in Reads
    BY <1>9 DEF ReadData, MAt, Reads
  <2>6. IF IsWanted(t, Head(toMaster[mcon])) THEN mpc'[t] = "unlock" ELSE mpc'[t] = "header"
    BY <1>0, <1>9 DEF ReadData, MGoto, MbTypes, MbTypeOK
  <2>7. mcon \in misread
    <3>1. SUFFICES ASSUME mcon \notin misread PROVE FALSE
      OBVIOUS
    <3>2. toMaster[mcon] = <<AnswerTo(t)>>
      BY <2>5, <3>1, OwnComes
    <3>3. Head(<<AnswerTo(t)>>).nr = iMsgIdx
      BY DEF AnswerTo
    <3>4. IsWanted(t, Head(toMaster[mcon]))
      BY <3>2, <3>3 DEF IsWanted
    <3>5. QED
      BY <2>2, <2>4, <2>6, <3>4 DEF Reads
  <2>8. UNCHANGED <<mcon, masterOpen, misread, writtenOn, raced>>
    BY <1>9 DEF ReadData, mbMaster, mbHist
  <2>9. QED
    BY <1>0, <2>4, <2>5, <2>7, <2>8 DEF InExchange, ExchangeOf
<1>10. ASSUME NEW t \in Masters, ReleaseCon(t) PROVE InExchange'
  <2>1. mpc[t] \in Holds
    BY <1>10 DEF ReleaseCon, MAt, Holds
  <2>2. SUFFICES ASSUME NEW u \in Masters, mpc'[u] \in Reads PROVE ExchangeOf(u)'
    BY DEF InExchange
  <2>3. u # t => mpc[u] \in Holds
    BY <1>0, <1>10, <2>2 DEF ReleaseCon, MGoto, Holds, Reads, MbTypes, MbTypeOK
  <2>4. u = t
    BY <2>1, <2>3, OneInCall
  <2>5. QED
    BY <1>0, <1>10, <2>2, <2>4 DEF ReleaseCon, MAt, MGoto, Reads, MbTypes, MbTypeOK
<1>11. ASSUME NEW t \in Masters, ForgetCon(t) PROVE InExchange'
  <2>1. mpc[t] \in Holds
    BY <1>11 DEF ForgetCon, MAt, Holds
  <2>2. SUFFICES ASSUME NEW u \in Masters, mpc'[u] \in Reads PROVE ExchangeOf(u)'
    BY DEF InExchange
  <2>3. u # t => mpc[u] \in Holds
    BY <1>0, <1>11, <2>2 DEF ForgetCon, MGoto, Holds, Reads, MbTypes, MbTypeOK
  <2>4. u = t
    BY <2>1, <2>3, OneInCall
  <2>5. QED
    BY <1>0, <1>11, <2>2, <2>4 DEF ForgetCon, MAt, MGoto, Reads, MbTypes, MbTypeOK
<1>12. ASSUME NEW t \in Masters, MasterUnlock(t) PROVE InExchange'
  <2>1. mpc[t] \in Holds
    BY <1>12 DEF MasterUnlock, MAt, Holds
  <2>2. SUFFICES ASSUME NEW u \in Masters, mpc'[u] \in Reads PROVE ExchangeOf(u)'
    BY DEF InExchange
  <2>3. u # t => mpc[u] \in Holds
    BY <1>0, <1>12, <2>2 DEF MasterUnlock, MGoto, Holds, Reads, MbTypes, MbTypeOK
  <2>4. u = t
    BY <2>1, <2>3, OneInCall
  <2>5. QED
    BY <1>0, <1>12, <2>2, <2>4 DEF MasterUnlock, MAt, MGoto, Reads, MbTypes, MbTypeOK
<1>13. ASSUME NEW c \in ConIds, DeviceHead(c) PROVE InExchange'
  <2>1. SUFFICES ASSUME NEW u \in Masters, mpc'[u] \in Reads PROVE ExchangeOf(u)'
    BY DEF InExchange
  <2>2. UNCHANGED <<mcon, iMsgIdx, mpc, fn, requests, masterOpen, misread, writtenOn, raced>>
    BY <1>13 DEF DeviceHead, mbMaster, mbThread, mbHist
  <2>3. ExchangeOf(u)
    BY <1>0, <2>1, <2>2 DEF InExchange
  <2>4. /\ mcon \in ConIds
        /\ \A d \in ConIds \ {c} : /\ toDevice'[d] = toDevice[d] /\ toMaster'[d] = toMaster[d]
                                 /\ dpc'[d] = dpc[d] /\ dreq'[d] = dreq[d]
    <3>1. mcon \in ConIds
      BY <1>0, <2>3, OpenIds DEF ExchangeOf
    <3>2. ASSUME NEW d \in ConIds \ {c}
          PROVE  /\ toDevice'[d] = toDevice[d] /\ toMaster'[d] = toMaster[d]
                 /\ dpc'[d] = dpc[d] /\ dreq'[d] = dreq[d]
      BY <1>0, <1>13 DEF DeviceHead, Answers, DGoto, mbDevice, MbTypes, MbTypeOK
    <3>3. QED
      BY <3>1, <3>2
  <2>5. UnderWay(u, mcon) => UnderWay(u, mcon)'
    <3>1. CASE mcon = c
      <4>1. UnderWay(u, c) => UnderWay(u, c)'
        BY <1>13, <2>3, <3>1, UnderWayNext DEF DeviceStep, ExchangeOf
      <4>2. QED
        BY <2>2, <3>1, <4>1 DEF UnderWay
    <3>2. CASE mcon # c
      BY <2>2, <2>4, <3>2 DEF UnderWay, Blocks, HeadOf, AnswerTo
    <3>3. QED
      BY <3>1, <3>2
  <2>6. QED
    BY <2>2, <2>3, <2>5 DEF ExchangeOf
<1>14. ASSUME NEW c \in ConIds, DeviceData(c) PROVE InExchange'
  <2>1. SUFFICES ASSUME NEW u \in Masters, mpc'[u] \in Reads PROVE ExchangeOf(u)'
    BY DEF InExchange
  <2>2. UNCHANGED <<mcon, iMsgIdx, mpc, fn, requests, masterOpen, misread, writtenOn, raced>>
    BY <1>14 DEF DeviceData, mbMaster, mbThread, mbHist
  <2>3. ExchangeOf(u)
    BY <1>0, <2>1, <2>2 DEF InExchange
  <2>4. /\ mcon \in ConIds
        /\ \A d \in ConIds \ {c} : /\ toDevice'[d] = toDevice[d] /\ toMaster'[d] = toMaster[d]
                                 /\ dpc'[d] = dpc[d] /\ dreq'[d] = dreq[d]
    <3>1. mcon \in ConIds
      BY <1>0, <2>3, OpenIds DEF ExchangeOf
    <3>2. ASSUME NEW d \in ConIds \ {c}
          PROVE  /\ toDevice'[d] = toDevice[d] /\ toMaster'[d] = toMaster[d]
                 /\ dpc'[d] = dpc[d] /\ dreq'[d] = dreq[d]
      BY <1>0, <1>14 DEF DeviceData, Answers, DGoto, mbDevice, MbTypes, MbTypeOK
    <3>3. QED
      BY <3>1, <3>2
  <2>5. UnderWay(u, mcon) => UnderWay(u, mcon)'
    <3>1. CASE mcon = c
      <4>1. UnderWay(u, c) => UnderWay(u, c)'
        BY <1>14, <2>3, <3>1, UnderWayNext DEF DeviceStep, ExchangeOf
      <4>2. QED
        BY <2>2, <3>1, <4>1 DEF UnderWay
    <3>2. CASE mcon # c
      BY <2>2, <2>4, <3>2 DEF UnderWay, Blocks, HeadOf, AnswerTo
    <3>3. QED
      BY <3>1, <3>2
  <2>6. QED
    BY <2>2, <2>3, <2>5 DEF ExchangeOf
<1>15. ASSUME NEW c \in ConIds, DeviceAnswer(c) PROVE InExchange'
  <2>1. SUFFICES ASSUME NEW u \in Masters, mpc'[u] \in Reads PROVE ExchangeOf(u)'
    BY DEF InExchange
  <2>2. UNCHANGED <<mcon, iMsgIdx, mpc, fn, requests, masterOpen, misread, writtenOn, raced>>
    BY <1>15 DEF DeviceAnswer, mbMaster, mbThread, mbHist
  <2>3. ExchangeOf(u)
    BY <1>0, <2>1, <2>2 DEF InExchange
  <2>4. /\ mcon \in ConIds
        /\ \A d \in ConIds \ {c} : /\ toDevice'[d] = toDevice[d] /\ toMaster'[d] = toMaster[d]
                                 /\ dpc'[d] = dpc[d] /\ dreq'[d] = dreq[d]
    <3>1. mcon \in ConIds
      BY <1>0, <2>3, OpenIds DEF ExchangeOf
    <3>2. ASSUME NEW d \in ConIds \ {c}
          PROVE  /\ toDevice'[d] = toDevice[d] /\ toMaster'[d] = toMaster[d]
                 /\ dpc'[d] = dpc[d] /\ dreq'[d] = dreq[d]
      BY <1>0, <1>15 DEF DeviceAnswer, Answers, DGoto, mbDevice, MbTypes, MbTypeOK
    <3>3. QED
      BY <3>1, <3>2
  <2>5. UnderWay(u, mcon) => UnderWay(u, mcon)'
    <3>1. CASE mcon = c
      <4>1. UnderWay(u, c) => UnderWay(u, c)'
        BY <1>15, <2>3, <3>1, UnderWayNext DEF DeviceStep, ExchangeOf
      <4>2. QED
        BY <2>2, <3>1, <4>1 DEF UnderWay
    <3>2. CASE mcon # c
      BY <2>2, <2>4, <3>2 DEF UnderWay, Blocks, HeadOf, AnswerTo
    <3>3. QED
      BY <3>1, <3>2
  <2>6. QED
    BY <2>2, <2>3, <2>5 DEF ExchangeOf
<1>16. ASSUME NEW c \in ConIds, DeviceMisreads(c) PROVE InExchange'
  <2>1. SUFFICES ASSUME NEW u \in Masters, mpc'[u] \in Reads PROVE ExchangeOf(u)'
    BY DEF InExchange
  <2>2. UNCHANGED <<mcon, iMsgIdx, mpc, fn, requests, masterOpen, misread, writtenOn, raced>>
    BY <1>16 DEF DeviceMisreads, mbMaster, mbThread, mbHist
  <2>3. ExchangeOf(u)
    BY <1>0, <2>1, <2>2 DEF InExchange
  <2>4. /\ mcon \in ConIds
        /\ \A d \in ConIds \ {c} : /\ toDevice'[d] = toDevice[d] /\ toMaster'[d] = toMaster[d]
                                 /\ dpc'[d] = dpc[d] /\ dreq'[d] = dreq[d]
    <3>1. mcon \in ConIds
      BY <1>0, <2>3, OpenIds DEF ExchangeOf
    <3>2. ASSUME NEW d \in ConIds \ {c}
          PROVE  /\ toDevice'[d] = toDevice[d] /\ toMaster'[d] = toMaster[d]
                 /\ dpc'[d] = dpc[d] /\ dreq'[d] = dreq[d]
      BY <1>0, <1>16 DEF DeviceMisreads, Answers, DGoto, mbDevice, MbTypes, MbTypeOK
    <3>3. QED
      BY <3>1, <3>2
  <2>5. UnderWay(u, mcon) => UnderWay(u, mcon)'
    <3>1. CASE mcon = c
      <4>1. UnderWay(u, c) => UnderWay(u, c)'
        BY <1>16, <2>3, <3>1, UnderWayNext DEF DeviceStep, ExchangeOf
      <4>2. QED
        BY <2>2, <3>1, <4>1 DEF UnderWay
    <3>2. CASE mcon # c
      BY <2>2, <2>4, <3>2 DEF UnderWay, Blocks, HeadOf, AnswerTo
    <3>3. QED
      BY <3>1, <3>2
  <2>6. QED
    BY <2>2, <2>3, <2>5 DEF ExchangeOf
<1>17. ASSUME NEW c \in ConIds, DeviceEnds(c) PROVE InExchange'
  <2>1. SUFFICES ASSUME NEW u \in Masters, mpc'[u] \in Reads PROVE ExchangeOf(u)'
    BY DEF InExchange
  <2>2. UNCHANGED <<mcon, iMsgIdx, mpc, fn, requests, masterOpen, misread, writtenOn, raced>>
    BY <1>17 DEF DeviceEnds, mbMaster, mbThread, mbHist
  <2>3. ExchangeOf(u)
    BY <1>0, <2>1, <2>2 DEF InExchange
  <2>4. /\ mcon \in ConIds
        /\ \A d \in ConIds \ {c} : /\ toDevice'[d] = toDevice[d] /\ toMaster'[d] = toMaster[d]
                                 /\ dpc'[d] = dpc[d] /\ dreq'[d] = dreq[d]
    <3>1. mcon \in ConIds
      BY <1>0, <2>3, OpenIds DEF ExchangeOf
    <3>2. ASSUME NEW d \in ConIds \ {c}
          PROVE  /\ toDevice'[d] = toDevice[d] /\ toMaster'[d] = toMaster[d]
                 /\ dpc'[d] = dpc[d] /\ dreq'[d] = dreq[d]
      BY <1>0, <1>17 DEF DeviceEnds, Answers, DGoto, mbDevice, MbTypes, MbTypeOK
    <3>3. QED
      BY <3>1, <3>2
  <2>5. UnderWay(u, mcon) => UnderWay(u, mcon)'
    <3>1. CASE mcon = c
      <4>1. UnderWay(u, c) => UnderWay(u, c)'
        BY <1>17, <2>3, <3>1, UnderWayNext DEF DeviceStep, ExchangeOf
      <4>2. QED
        BY <2>2, <3>1, <4>1 DEF UnderWay
    <3>2. CASE mcon # c
      BY <2>2, <2>4, <3>2 DEF UnderWay, Blocks, HeadOf, AnswerTo
    <3>3. QED
      BY <3>1, <3>2
  <2>6. QED
    BY <2>2, <2>3, <2>5 DEF ExchangeOf
<1>18. CASE UNCHANGED mbVars
  BY <1>0, <1>18 DEF mbVars, mbMaster, mbThread, mbLink, mbDevice, mbHist, InExchange, ExchangeOf,
     UnderWay, Blocks, HeadOf, AnswerTo
<1>19. QED
  BY <1>1, <1>2, <1>3, <1>4, <1>5, <1>6, <1>7, <1>8, <1>9, <1>10, <1>11, <1>12, <1>13, <1>14,
     <1>15, <1>16, <1>17, <1>18 DEF MbNext, MasterStep, DeviceStep

(* The invariant holds from the start.                                     *)
THEOREM MbInvHolds == MbSpec => []MbInv
<1>1. MbInit => MbInv
  <2> SUFFICES ASSUME MbInit PROVE MbInv
    OBVIOUS
  <2>1. MbTypes
    <3>1. 0 \in 0 .. Numbers - 1 /\ 0 \in 0 .. MaxCons
      BY MbConstants
    <3>2. QED
      BY <3>1, MbConstants DEF MbInit, MbTypes, MbTypeOK
  <2>2. LockOfOne /\ InExchange /\ Forgotten
    BY DEF MbInit, LockOfOne, Holds, InExchange, Reads, Forgotten
  <2>3. DialledFresh /\ NotYetWritten
    BY DEF MbInit, DialledFresh, NotYetWritten
  <2>4. NotYetMade
    BY MbConstants DEF MbInit, NotYetMade, Blank
  <2>5. CleanOrInUse /\ OneOpen
    BY DEF MbInit, CleanOrInUse, OneOpen
  <2>6. AnswerIsOwn
    BY DEF MbInit, AnswerIsOwn
  <2>7. QED
    BY <2>1, <2>2, <2>3, <2>4, <2>5, <2>6 DEF MbInv
<1>2. MbInv /\ [MbNext]_mbVars => MbInv'
  BY MbTypesNext, LockNext, DialledNext, NotYetMadeNext, CleanNext, ExchangeNext, ForgottenNext,
     NotYetWrittenNext, OwnNext, OneOpenNext DEF MbInv
<1>3. QED
  BY <1>1, <1>2, PTL DEF MbSpec

(* A request gets its own answer, and gets it on its own connection, in    *)
(* every interleaving of any number of threads.                            *)
THEOREM ModbusAnswersAreOwn == MbSpec => []RequestsKept
<1>1. MbInv => RequestsKept
  <2> SUFFICES ASSUME MbInv PROVE RequestsKept
    OBVIOUS
  <2>1. MbTypeOK /\ AnswerIsOwn
    BY DEF MbInv, MbTypes
  <2>2. NothingLate
    <3>1. SUFFICES ASSUME NEW t \in Masters, mpc[t] = "write", mcon \in masterOpen \ misread
                   PROVE  toMaster[mcon] = << >> /\ toDevice[mcon] = << >> /\ dpc[mcon] = "head"
      BY DEF NothingLate, MAt
    <3>2. Clean(mcon)
      BY <3>1, CleanForWriter
    <3>3. QED
      BY <3>2 DEF Clean
  <2>3. OneConnection
    <3>1. SUFFICES ASSUME ~raced, NEW c \in masterOpen
                   PROVE  c \in {mcon} \cup {dialledCon[t] : t \in Masters}
      BY DEF OneConnection
    <3>2. c = mcon \/ \E t \in Masters : c = dialledCon[t]
      BY <3>1 DEF MbInv, OneOpen
    <3>3. QED
      BY <3>2
  <2>4. AnswerOnSameCon
    BY DEF MbInv, InExchange, ExchangeOf, Reads, AnswerOnSameCon
  <2>5. QED
    BY <2>1, <2>2, <2>3, <2>4 DEF RequestsKept
<1>2. QED
  BY <1>1, MbInvHolds, PTL
=============================================================================
