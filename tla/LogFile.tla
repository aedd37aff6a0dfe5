------------------------------ MODULE LogFile -------------------------------
(***************************************************************************)
(* The log file of processWarnInfo (stl_daemon.c): a thread opens it to    *)
(* append, writes, closes and, when it has become too large, renames it to *)
(* .old or, with printfLogRotCount, to the first number that is not in     *)
(* use.  The mutex is one of the process: processes that use one log file  *)
(* do not exclude each other.  A process may be killed: what fwrite holds  *)
(* is lost.  A line is one unit of size.                                   *)
(***************************************************************************)
EXTENDS Integers, Sequences, FiniteSets
LOCAL INSTANCE SequencesExt

CONSTANTS
  Procs, Writers,    (* processes; their threads, pairs of process, number *)
  Tries,             (* times fopen is tried: 5 in the code                *)
  RotSize,           (* printfLogRotSize                                   *)
  CountModes,        (* whether files are numbered: printfLogRotCount >= 0 *)
  MaxLines,          (* BOUND: lines written and being written             *)
  MaxFaults          (* BOUND: times fopen fails or a process is killed    *)

ASSUME LogFileAssumption ==
  /\ \A w \in Writers : w[1] \in Procs
  /\ Tries \in Nat \ {0} /\ RotSize \in Nat /\ CountModes \subseteq BOOLEAN
  /\ MaxLines \in Nat /\ MaxFaults \in Nat

MsgFn == -2
Old == -1                             (* the names .old, .0000, .0001 ...  *)
NoFile == 0
NoWriter == <<>>
ProcOf(w) == w[1]

VARIABLES
  numbered,                (* printfLogRotCount >= 0                       *)
  rotCount,                (* printfLogRotCount of a process               *)
  disk,                    (* names and the files they are names of        *)
  text,                    (* the lines of every file there was            *)
  logMux,                  (* per process: who has mux                     *)
  wpc, tries, f1, Tm2,     (* a thread: its tries, its file, the new name  *)
  linesOf,                 (* lines a thread has begun                     *)
  openFails, kills,
  saved,                   (* HISTORY: the lines in the order of fclose    *)
  overlap                  (* HISTORY: two processes were at the file at   *)
                           (* once                                         *)

lfDisk == <<disk, text, saved>>
lfThread == <<wpc, tries, f1, Tm2, linesOf>>
lfVars == <<numbered, rotCount, lfDisk, logMux, lfThread, openFails, kills, overlap>>

Threads0(x) == [w \in Writers |-> x]

LfInit ==
  /\ numbered \in CountModes
  /\ rotCount = [p \in Procs |-> 0]
  /\ disk = [n \in {} |-> NoFile] /\ text = << >>
  /\ logMux = [p \in Procs |-> NoWriter]
  /\ wpc = Threads0("idle") /\ tries = Threads0(0)
  /\ f1 = Threads0(NoFile) /\ Tm2 = Threads0(MsgFn)
  /\ linesOf = Threads0(0)
  /\ openFails = 0 /\ kills = 0
  /\ saved = << >> /\ overlap = FALSE

At(w, label) == wpc[w] = label
ToLabel(w, label) == wpc' = [wpc EXCEPT ![w] = label]
FreeMux(w) == logMux' = [logMux EXCEPT ![ProcOf(w)] = NoWriter]

AtFile == {w \in Writers : wpc[w] \in {"close", "rotate", "unlink", "rename"}}
Others(w) == {v \in AtFile : ProcOf(v) # ProcOf(w)}

-----------------------------------------------------------------------------
(* processWarnInfo, when stlPrintfFile has given a name.                   *)

LogLine(w) ==
  /\ At(w, "idle")
  /\ Len(saved) + Cardinality({v \in Writers : ~At(v, "idle")}) < MaxLines
  /\ linesOf' = [linesOf EXCEPT ![w] = @ + 1]
  /\ tries' = [tries EXCEPT ![w] = 0]
  /\ ToLabel(w, "lock")
  /\ UNCHANGED <<numbered, rotCount, lfDisk, logMux, f1, Tm2, openFails, kills, overlap>>

MuxFree_Not(w) == TRUE                                     \* mutant
MuxFree(w) == logMux[ProcOf(w)] = NoWriter

LockLog(w) ==
  /\ At(w, "lock") /\ MuxFree(w)
  /\ logMux' = [logMux EXCEPT ![ProcOf(w)] = w]
  /\ ToLabel(w, "open")
  /\ UNCHANGED <<numbered, rotCount, lfDisk, tries, f1, Tm2, linesOf, openFails, kills, overlap>>

OpenLog(w) ==
  /\ At(w, "open")
  /\ IF MsgFn \in DOMAIN disk
       THEN f1' = [f1 EXCEPT ![w] = disk[MsgFn]] /\ UNCHANGED <<disk, text>>
       ELSE /\ text' = Append(text, << >>)
            /\ disk' = [n \in DOMAIN disk \cup {MsgFn} |->
                          IF n = MsgFn THEN Len(text') ELSE disk[n]]
            /\ f1' = [f1 EXCEPT ![w] = Len(text')]
  /\ overlap' = (overlap \/ Others(w) # {})
  /\ ToLabel(w, "close")
  /\ UNCHANGED <<numbered, rotCount, saved, logMux, tries, Tm2, linesOf, openFails, kills>>

(* After the last try the line is dropped.                                 *)
OpenLogFails(w) ==
  /\ At(w, "open") /\ openFails + kills < MaxFaults
  /\ openFails' = openFails + 1
  /\ tries' = [tries EXCEPT ![w] = @ + 1]
  /\ FreeMux(w)
  /\ ToLabel(w, IF tries[w] + 1 < Tries THEN "lock" ELSE "idle")
  /\ UNCHANGED <<numbered, rotCount, lfDisk, f1, Tm2, linesOf, kills, overlap>>

TooLarge_Kept(w) == FALSE                                  \* mutant
TooLarge(w) == Len(text'[f1[w]]) > RotSize

CloseLog(w) ==
  /\ At(w, "close")
  /\ LET line == <<w, linesOf[w]>>
     IN  /\ text' = [text EXCEPT ![f1[w]] = Append(@, line)]
         /\ saved' = Append(saved, line)
  /\ IF TooLarge(w)
       THEN ToLabel(w, "rotate") /\ UNCHANGED logMux
       ELSE ToLabel(w, "idle") /\ FreeMux(w)
  /\ UNCHANGED <<numbered, rotCount, disk, tries, f1, Tm2, linesOf, openFails, kills, overlap>>

InUse_Not(n) == FALSE                                      \* mutant
InUse(n) == n \in DOMAIN disk

(* One turn of the loop that looks for a number, or the name .old.         *)
NewName(w) ==
  /\ At(w, "rotate")
  /\ IF numbered
       THEN /\ rotCount' = [rotCount EXCEPT ![ProcOf(w)] = @ + 1]
            /\ Tm2' = [Tm2 EXCEPT ![w] = rotCount[ProcOf(w)]]
            /\ ToLabel(w, IF InUse(rotCount[ProcOf(w)]) THEN "rotate" ELSE "unlink")
       ELSE /\ Tm2' = [Tm2 EXCEPT ![w] = Old]
            /\ ToLabel(w, "unlink")
            /\ UNCHANGED rotCount
  /\ UNCHANGED <<numbered, lfDisk, logMux, tries, f1, linesOf, openFails, kills, overlap>>

UnlinkOld(w) ==
  /\ At(w, "unlink")
  /\ disk' = [n \in DOMAIN disk \ {Tm2[w]} |-> disk[n]]
  /\ ToLabel(w, "rename")
  /\ UNCHANGED <<numbered, rotCount, text, saved, logMux, tries, f1, Tm2, linesOf, openFails, kills, overlap>>

(* rename fails when the other process has just renamed the file.          *)
RenameLog(w) ==
  /\ At(w, "rename")
  /\ disk' = IF MsgFn \in DOMAIN disk
               THEN [n \in (DOMAIN disk \ {MsgFn}) \cup {Tm2[w]} |->
                       IF n = Tm2[w] THEN disk[MsgFn] ELSE disk[n]]
               ELSE disk
  /\ FreeMux(w)
  /\ ToLabel(w, "idle")
  /\ UNCHANGED <<numbered, rotCount, text, saved, tries, f1, Tm2, linesOf, openFails, kills, overlap>>

(* A process is killed and started again.                                  *)
KillProc(p) ==
  /\ openFails + kills < MaxFaults /\ kills' = kills + 1
  /\ \E w \in Writers : ProcOf(w) = p /\ ~At(w, "idle")
  /\ wpc' = [w \in Writers |-> IF ProcOf(w) = p THEN "idle" ELSE wpc[w]]
  /\ logMux' = [logMux EXCEPT ![p] = NoWriter]
  /\ rotCount' = [rotCount EXCEPT ![p] = 0]
  /\ UNCHANGED <<numbered, lfDisk, tries, f1, Tm2, linesOf, openFails, overlap>>

-----------------------------------------------------------------------------

processWarnInfo(w) ==
  \/ LogLine(w) \/ LockLog(w) \/ OpenLog(w) \/ OpenLogFails(w) \/ CloseLog(w)
  \/ NewName(w) \/ UnlinkOld(w) \/ RenameLog(w)

LfNext == (\E w \in Writers : processWarnInfo(w)) \/ \E p \in Procs : KillProc(p)

LfSpec == LfInit /\ [][LfNext]_lfVars

-----------------------------------------------------------------------------
(* Properties.                                                             *)

FileOf(n) == IF n \in DOMAIN disk THEN text[disk[n]] ELSE << >>
Numbers == {n \in DOMAIN disk : n >= 0}

(* Type invariant.                                                         *)
LfTypeOK ==
  /\ numbered \in BOOLEAN /\ rotCount \in [Procs -> Nat]
  /\ \A n \in DOMAIN disk : disk[n] \in 1 .. Len(text)
  /\ logMux \in [Procs -> Writers \cup {NoWriter}]
  /\ wpc \in [Writers -> {"idle", "lock", "open", "close", "rotate", "unlink", "rename"}]
  /\ tries \in [Writers -> 0 .. Tries] /\ f1 \in [Writers -> 0 .. Len(text)]

(* The log reads like the order the lines were written in: with .old it is *)
(* the end of it, nothing in between is missing; with numbers it is all of *)
(* it.  A killed process does not break this, two processes at one log do. *)
LogIsInOrder ==
  ~overlap =>
    IF numbered
      THEN FlattenSeq([i \in 1 .. Cardinality(Numbers) |-> FileOf(i - 1)]) \o FileOf(MsgFn) = saved
      ELSE IsSuffix(FileOf(Old) \o FileOf(MsgFn), saved)

(* With .old the last RotSize lines are always there, whatever is killed:  *)
(* only the oldest file is removed.                                        *)
LastLinesKept ==
  ~overlap => \/ Len(FileOf(Old)) + Len(FileOf(MsgFn)) >= RotSize
              \/ numbered \/ Len(saved) < RotSize

(* A file grows past RotSize by one line at most, and only until it is     *)
(* renamed, unless a process is killed before it renames.                  *)
FilesBounded ==
  ~overlap /\ kills = 0 =>
    /\ \A n \in DOMAIN disk : Len(text[disk[n]]) <= RotSize + 1
    /\ AtFile = {} => Len(FileOf(MsgFn)) <= RotSize

(* With numbers no file is ever removed by a single process, killed or not.*)
NumberedKept == numbered /\ ~overlap => \A i \in 1 .. Len(text) : \E n \in DOMAIN disk : disk[n] = i

(* All of it: the files hold the log in order, no more than they should,   *)
(* and lose none of what they should keep.                                 *)
LogKept ==
  /\ LfTypeOK /\ LogIsInOrder /\ LastLinesKept
  /\ FilesBounded /\ NumberedKept
=============================================================================
