------------------------------ MODULE FileTree ------------------------------
(* Files and directories that several programs use at a time: stlMakeDirp, *)
(* stlFileWrite and stlFileWriteDir (stl_file.c), and the search of files  *)
(* (stl_fileFind.cpp).  Every call of the system is a step.                *)
(*                                                                         *)
(* A name is a sequence of characters, a path a sequence of names.  A name *)
(* leads to a directory, to nothing, or to a file by its number, so that a *)
(* file that is renamed while it is open is still the one that is written. *)
EXTENDS Integers, Sequences, FiniteSets, SequencesExt, StrBase

CONSTANTS
  FileUsers,      \* the programs
  Dirs,           \* paths of directories, with those above them
  FileNames,      \* names of files; no directory has one
  Patterns,       \* what is searched for
  MaxFileCalls,   \* calls in all
  MaxFileFaults,  \* calls of the system that fail
  MaxRemoves      \* files and directories that others remove

VARIABLES
  dirTree,  \* what each path leads to: NONE, DIR or the number of a file
  content,  \* what is in each file: 0 when it is empty or cut off
  fileJob,  \* the call of each user
  budget,   \* calls, faults and removals so far
  good      \* for the properties: what was last written to each file, and the
            \* writes that failed since

ftVars == <<dirTree, content, fileJob, budget, good>>

NONE == 0
DIR == -1

Bak(name) == name \o <<46, 98, 97, 107>>                      \* ".bak"
EntryNames == FileNames \cup {Bak(n) : n \in FileNames}
Files == {d \o <<n>> : d \in Dirs, n \in EntryNames}
BakOf(file) == Front(file) \o <<Bak(Last(file))>>

(* The root is always there.                                               *)
IsDir(p) == p = << >> \/ (p \in Dirs /\ dirTree[p] = DIR)
StatExists(p) == p = << >> \/ dirTree[p] # NONE
IsFile(p) == p # << >> /\ dirTree[p] \notin {NONE, DIR}
Entries(d) == {p \in DOMAIN dirTree : Len(p) = Len(d) + 1 /\ Front(p) = d /\ dirTree[p] # NONE}

(* The jobs of others see that the disk changed.                           *)
Busy(u) == fileJob[u].pc \notin {"idle", "done"}
DiskStep(u, newDisk, j) ==
  /\ dirTree' = newDisk
  /\ fileJob' = [v \in FileUsers |->
               IF v = u THEN j
               ELSE IF newDisk # dirTree /\ Busy(v)
                    THEN [fileJob[v] EXCEPT !.disturbed = TRUE,
                                        !.seen = @ \/ (fileJob[v].dir # << >> /\ newDisk[fileJob[v].dir] = DIR),
                                        !.throughout = {p \in @ : newDisk[p] = dirTree[p]}]
                    ELSE fileJob[v]]

CanFault == budget.faults < MaxFileFaults
Fault == budget' = [budget EXCEPT !.faults = @ + 1]

-----------------------------------------------------------------------------
(* A call: the directory, the file to write or the pattern.                *)
Idle == [pc |-> "idle", dir |-> << >>, n |-> 0, slash |-> FALSE, up |-> FALSE, name |-> << >>, data |-> 0,
         ino |-> 0, pattern |-> << >>, seenNames |-> {}, current |-> << >>, found |-> << >>, result |-> 0,
         disturbed |-> FALSE, fault |-> FALSE, seen |-> FALSE, throughout |-> {}]
Begin(u, j) ==
  /\ ~Busy(u) /\ budget.calls < MaxFileCalls
  /\ fileJob' = [fileJob EXCEPT ![u] = [j EXCEPT !.seen = IsDir(j.dir)]]
  /\ budget' = [budget EXCEPT !.calls = @ + 1]
  /\ UNCHANGED <<dirTree, content, good>>

CallMakeDirp(u) ==
  \E d \in Dirs, slash \in BOOLEAN :
    Begin(u, [Idle EXCEPT !.pc = "mkdir", !.dir = d, !.n = Len(d), !.slash = slash])
CallWriteDir(u) ==
  \E d \in Dirs, name \in FileNames :
    Begin(u, [Idle EXCEPT !.pc = "mkdir", !.dir = d, !.n = Len(d), !.name = name, !.data = budget.calls + 1])
StartFind(u) ==
  \E d \in Dirs, pattern \in Patterns :
    Begin(u, [Idle EXCEPT !.pc = "opendir", !.dir = d, !.pattern = pattern])

Done(j, result) == [j EXCEPT !.pc = "done", !.result = result]

-----------------------------------------------------------------------------
(* stlMakeDirp: makes the directory; when the one above it is missing, that*)
(* one first, and then once more this one, that may not be there this time.*)
MkdirErr(p) ==
  IF StatExists(p) THEN "EEXIST" ELSE IF IsDir(Front(p)) THEN "ok" ELSE "ENOENT"

(* What follows when the n-th directory of the path is there.              *)
AfterMkdir(j) ==
  IF j.n < Len(j.dir) THEN [j EXCEPT !.n = @ + 1, !.up = TRUE]
  ELSE IF j.name # << >> THEN [j EXCEPT !.pc = "unlink"] ELSE Done(j, 0)
(* stlFileWriteDir goes on whatever stlMakeDirp says.                      *)
Failed(j) == IF j.name # << >> THEN [j EXCEPT !.pc = "unlink"] ELSE Done(j, -1)

(* A name that ends in '/' is made without it first.                       *)
Above(j) == IF j.slash THEN [j EXCEPT !.slash = FALSE] ELSE [j EXCEPT !.n = @ - 1]
MadeBy_Any(err, up) == TRUE                                   \* mutant
MadeBy(err, up) == err = "ok" \/ (err = "EEXIST" /\ ~up)
Mkdir(u) ==
  LET j == fileJob[u]
      p == SubSeq(j.dir, 1, j.n)
      err == MkdirErr(p)
      seen == [j EXCEPT !.seen = @ \/ (err = "ok" /\ j.n = Len(j.dir))]
  IN /\ j.pc = "mkdir"
     /\ DiskStep(u, IF err = "ok" THEN [dirTree EXCEPT ![p] = DIR] ELSE dirTree,
                 IF MadeBy(err, j.up) THEN AfterMkdir(seen)
                 ELSE IF err = "ENOENT" /\ ~j.up THEN Above(j) ELSE Failed(j))
     /\ UNCHANGED <<content, budget, good>>
MkdirFault(u) ==
  /\ fileJob[u].pc = "mkdir" /\ CanFault /\ Fault
  /\ fileJob' = [fileJob EXCEPT ![u] = Failed([@ EXCEPT !.fault = TRUE])]
  /\ UNCHANGED <<dirTree, content, good>>

-----------------------------------------------------------------------------
(* stlFileWrite: the old backup goes, the file becomes the backup, and is  *)
(* written again; when it cannot be opened the backup becomes the file.    *)
OpenOf(u) == fileJob[u].dir \o <<fileJob[u].name>>
To(u, pc) == [fileJob[u] EXCEPT !.pc = pc]
Unlinked(p) == IF IsFile(p) THEN [dirTree EXCEPT ![p] = NONE] ELSE dirTree
RenamedOn(d, from, to) == IF d[from] # NONE THEN [d EXCEPT ![to] = d[from], ![from] = NONE] ELSE d

UnlinkBak(u) ==
  /\ fileJob[u].pc = "unlink"
  /\ DiskStep(u, Unlinked(BakOf(OpenOf(u))), To(u, "rename"))
  /\ good' = [good EXCEPT ![OpenOf(u)] = [@ EXCEPT !.writing = @ + 1, !.mixed = @ \/ good[OpenOf(u)].writing > 0]]
  /\ UNCHANGED <<content, budget>>

ToBackup_Not(p) == dirTree                                      \* mutant
ToBackup(p) == RenamedOn(dirTree, p, BakOf(p))
RenameToBak(u) ==
  /\ fileJob[u].pc = "rename"
  /\ DiskStep(u, ToBackup(OpenOf(u)), To(u, "fopen"))
  /\ UNCHANGED <<content, budget, good>>

Fopen(u) ==
  LET p == OpenOf(u)
      new == Len(content) + 1
      ino == IF IsFile(p) THEN dirTree[p] ELSE new
  IN /\ fileJob[u].pc = "fopen" /\ IsDir(fileJob[u].dir)
     /\ DiskStep(u, [dirTree EXCEPT ![p] = ino], [To(u, "fwrite") EXCEPT !.ino = ino])
     /\ content' = IF ino = new THEN Append(content, 0) ELSE [content EXCEPT ![ino] = 0]
     /\ UNCHANGED <<budget, good>>
FopenFails(u) ==
  /\ fileJob[u].pc = "fopen"
  /\ \/ ~IsDir(fileJob[u].dir) /\ fileJob' = [fileJob EXCEPT ![u] = To(u, "undo")] /\ UNCHANGED budget
     \/ CanFault /\ Fault /\ fileJob' = [fileJob EXCEPT ![u] = [To(u, "undo") EXCEPT !.fault = TRUE]]
  /\ UNCHANGED <<dirTree, content, good>>

Ended(u, result) == Done(fileJob[u], result)
DataWritten(p, j) ==
  [good EXCEPT ![p] = [data |-> IF j.ino \in {dirTree[p], dirTree[BakOf(p)]} THEN j.data ELSE 0,
                       fails |-> 0,
                       writing |-> @.writing - 1, mixed |-> @.writing > 1]]
NotWritten(p) == [good EXCEPT ![p].fails = @ + 1, ![p].writing = @ - 1]
Fwrite(u) ==
  /\ fileJob[u].pc = "fwrite"
  /\ fileJob' = [fileJob EXCEPT ![u] = Ended(u, 0)]
  /\ content' = [content EXCEPT ![fileJob[u].ino] = fileJob[u].data]
  /\ good' = DataWritten(OpenOf(u), fileJob[u])
  /\ UNCHANGED <<dirTree, budget>>
FwriteFails(u) ==
  /\ fileJob[u].pc = "fwrite" /\ CanFault /\ Fault
  /\ fileJob' = [fileJob EXCEPT ![u] = [Ended(u, -2) EXCEPT !.fault = TRUE]]
  /\ good' = NotWritten(OpenOf(u))
  /\ UNCHANGED <<dirTree, content>>

UndoUnlink(u) ==
  /\ fileJob[u].pc = "undo"
  /\ DiskStep(u, Unlinked(OpenOf(u)), To(u, "back"))
  /\ UNCHANGED <<content, budget, good>>
UndoRename(u) ==
  /\ fileJob[u].pc = "back"
  /\ DiskStep(u, RenamedOn(dirTree, BakOf(OpenOf(u)), OpenOf(u)), Ended(u, -99))
  /\ good' = NotWritten(OpenOf(u))
  /\ UNCHANGED <<content, budget>>

-----------------------------------------------------------------------------
(* stlFindFirst, stlFindNext, stlFindClose and stlGetFiles: the names of   *)
(* the files that match.  readdir gives what is there all the time, once;  *)
(* what comes or goes meanwhile, it may give.                              *)
Opendir(u) ==
  LET d == fileJob[u].dir
  IN /\ fileJob[u].pc = "opendir"
     /\ fileJob' = [fileJob EXCEPT ![u] = IF IsDir(d)
                                  THEN [To(u, "readdir") EXCEPT !.throughout = {p \in Entries(d) : IsFile(p)}]
                                  ELSE Done(@, -1)]
     /\ UNCHANGED <<dirTree, content, budget, good>>

Readdir(u) ==
  LET j == fileJob[u]
  IN /\ j.pc = "readdir"
     /\ \E p \in {q \in DOMAIN dirTree : Len(q) = Len(j.dir) + 1 /\ Front(q) = j.dir} \ j.seenNames :
          /\ StatExists(p) \/ j.disturbed
          /\ fileJob' = [fileJob EXCEPT ![u] = [@ EXCEPT !.seenNames = @ \cup {p}, !.current = p,
                                                 !.pc = IF patmat(j.pattern, Last(p)) THEN "stat" ELSE "readdir"]]
     /\ UNCHANGED <<dirTree, content, budget, good>>

(* stat may fail: then what it was is what the variable held before.       *)
TakesIt_All(p) == {TRUE}                                      \* mutant
TakesIt(p) == IF StatExists(p) THEN {IsFile(p)} ELSE BOOLEAN
Stat(u) ==
  LET j == fileJob[u]
  IN /\ j.pc = "stat"
     /\ \E takes \in TakesIt(j.current) :
          fileJob' = [fileJob EXCEPT ![u] = [@ EXCEPT !.pc = "readdir",
                                              !.found = IF takes THEN Append(@, j.current) ELSE @]]
     /\ UNCHANGED <<dirTree, content, budget, good>>
FindEnds(u) ==
  /\ fileJob[u].pc = "readdir"
  /\ \A p \in Entries(fileJob[u].dir) : p \in fileJob[u].seenNames \/ fileJob[u].disturbed
  /\ fileJob[u].throughout \subseteq fileJob[u].seenNames
  /\ fileJob' = [fileJob EXCEPT ![u] = Ended(u, 0)]
  /\ UNCHANGED <<dirTree, content, budget, good>>

(* Another program removes a file or an empty directory.                   *)
OtherRemoves ==
  /\ budget.removes < MaxRemoves /\ budget' = [budget EXCEPT !.removes = @ + 1]
  /\ \E p \in DOMAIN dirTree :
       /\ StatExists(p) /\ (IsDir(p) => Entries(p) = {})
       /\ DiskStep("nobody", [dirTree EXCEPT ![p] = NONE], Idle)
       /\ good' = [f \in DOMAIN good |-> IF p \in {f, BakOf(f)} THEN [good[f] EXCEPT !.data = 0] ELSE good[f]]
  /\ UNCHANGED content

FtInit ==
  /\ dirTree = [p \in Dirs \cup Files |-> NONE] /\ content = << >>
  /\ fileJob = [u \in FileUsers |-> Idle]
  /\ budget = [calls |-> 0, faults |-> 0, removes |-> 0]
  /\ good = [f \in {d \o <<n>> : d \in Dirs, n \in FileNames} |-> [data |-> 0, fails |-> 0, writing |-> 0, mixed |-> FALSE]]

FtNext ==
  \/ \E u \in FileUsers :
       \/ CallMakeDirp(u) \/ CallWriteDir(u) \/ StartFind(u)
       \/ Mkdir(u) \/ MkdirFault(u)
       \/ UnlinkBak(u) \/ RenameToBak(u) \/ Fopen(u) \/ FopenFails(u)
       \/ Fwrite(u) \/ FwriteFails(u) \/ UndoUnlink(u) \/ UndoRename(u)
       \/ Opendir(u) \/ Readdir(u) \/ Stat(u) \/ FindEnds(u)
  \/ OtherRemoves

FtSpec == FtInit /\ [][FtNext]_ftVars

-----------------------------------------------------------------------------
Answered(u, what(_)) == fileJob[u].pc = "done" /\ what(fileJob[u])
IsMake(j) == j.dir # << >> /\ j.name = << >> /\ j.pattern = << >>
IsWrite(j) == j.name # << >>
IsFind(j) == j.pattern # << >>

(* stlMakeDirp says 0 only of a directory that was there during the call,  *)
(* and says it always when nothing fails and nobody else touches the disk; *)
(* with another that makes the same one it may say -1.                     *)
MakesDirs ==
  \A u \in FileUsers : Answered(u, IsMake) =>
    IF fileJob[u].result = 0 THEN fileJob[u].seen ELSE fileJob[u].disturbed \/ fileJob[u].fault

(* What was written is in the file or in its backup until it is written    *)
(* again; but when the write before failed, or two wrote at a time.        *)
DirHolds(p, data) == IsFile(p) /\ content[dirTree[p]] = data
LastIsKept ==
  \A f \in DOMAIN good :
    LET g == good[f]
    IN g.data # 0 => \/ DirHolds(f, g.data) \/ DirHolds(BakOf(f), g.data)
                     \/ g.mixed \/ g.fails > 1 \/ (g.fails = 1 /\ g.writing = 1)

(* A file that is there all the time and matches is found, once; and what  *)
(* is found matches and is a file, but when it was removed meanwhile.      *)
FindsFiles ==
  \A u \in FileUsers : Answered(u, IsFind) =>
    LET j == fileJob[u]
    IN j.result = 0 =>
         /\ IsInjective(j.found)
         /\ \A p \in j.throughout : IsMatch(j.pattern, Last(p)) => p \in ToSet(j.found)
         /\ \A p \in ToSet(j.found) : IsMatch(j.pattern, Last(p)) /\ (j.disturbed \/ p \in Files)

DirectoriesKept == MakesDirs /\ LastIsKept /\ FindsFiles
=============================================================================
