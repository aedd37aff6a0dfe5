------------------------------- MODULE XmlDoc -------------------------------
(***************************************************************************)
(* A configuration document and its files (stlXml in stl_xmlc.cpp): it is  *)
(* read from the file, from .old or from .ok, whichever can be read first; *)
(* a save makes the file the .old one and writes it anew, and a load that  *)
(* succeeds writes .ok.  The threads of a program use the document under   *)
(* docMux; the program may die at every step and start again, and a write  *)
(* may fail on a full disk, which nothing tests.                           *)
(*                                                                         *)
(* A document is a version here (XmlTree has the content): every change    *)
(* makes a higher one.  A file is Gone, Bad (cut off: no parser reads it)  *)
(* or a version.                                                           *)
(***************************************************************************)
EXTENDS Integers, Sequences

CONSTANTS
  XmlThreads,            (* threads of the program                         *)
  MaxXmlEdits,           (* BOUND: changes                                 *)
  MaxXmlSaves,           (* BOUND: loads and saves                         *)
  MaxXmlCrashes,         (* BOUND: deaths                                  *)
  MaxXmlFull             (* BOUND: writes to a full disk                   *)

Gone == -2
Bad == -1
NoDoc == 0
ASSUME XmlDocAssumption == {MaxXmlEdits, MaxXmlSaves, MaxXmlCrashes, MaxXmlFull} \subseteq Nat

VARIABLES
  xFile,                 (* the files by name: main, old, ok               *)
  cfgDoc,                (* version in memory, or NoDoc                    *)
  docMux,                (* <<holder>> or << >>                            *)
  xUser,                 (* a thread: [pc, doc]                            *)
  version,               (* highest version there was                      *)
  xSaves, xCrashes, xFull,
  xSaved,                (* HISTORY: last version that a save or load completed, 0: none *)
  unsafe,                (* HISTORY: the file was removed by a save by name *)
  xNet                   (* HISTORY: a load came to its end, and wrote .ok *)
fileVars == <<xFile, cfgDoc, docMux, xUser, version, xSaves, xCrashes, xFull, xSaved, unsafe, xNet>>

-----------------------------------------------------------------------------
NoXmlUser == [pc |-> "idle", doc |-> NoDoc]
Go(t, p) == xUser' = [xUser EXCEPT ![t].pc = p]
At(t, p) == xUser[t].pc = p
Done(t) == xUser' = [xUser EXCEPT ![t] = NoXmlUser] /\ docMux' = << >>
CanRead(f) == xFile[f] > 0
MuxIsFree_Never == TRUE  \* mutant
MuxIsFree == docMux = << >>
Lock(t) == MuxIsFree /\ docMux' = <<t>>
SavesLeft == xSaves < MaxXmlSaves /\ xSaves' = xSaves + 1

(* xmlSaveFormatFile: the file is cut off first and written then; without  *)
(* a document it is not touched.                                           *)
Open(t, f, p) ==
  /\ xFile' = IF cfgDoc = NoDoc THEN xFile ELSE [xFile EXCEPT ![f] = Bad]
  /\ Go(t, p)
  /\ UNCHANGED <<cfgDoc, docMux, version, xSaves, xCrashes, xFull, xSaved, unsafe, xNet>>
Written(f) ==
  \/ /\ xFile' = IF cfgDoc = NoDoc THEN xFile ELSE [xFile EXCEPT ![f] = cfgDoc]
     /\ UNCHANGED xFull
  \/ /\ cfgDoc # NoDoc /\ xFull < MaxXmlFull /\ xFull' = xFull + 1
     /\ UNCHANGED xFile
(* What a completed write of the file means.                               *)
NowSaved ==
  IF xFile'["main"] > 0
  THEN xSaved' = xFile'["main"] /\ unsafe' = FALSE
  ELSE UNCHANGED <<xSaved, unsafe, xNet>>

-----------------------------------------------------------------------------
(* loadXml, in the constructor too.                                        *)

BeginLoad(t) ==
  /\ At(t, "idle") /\ SavesLeft /\ Lock(t)
  /\ cfgDoc' = NoDoc /\ Go(t, "parse")
  /\ UNCHANGED <<xFile, version, xCrashes, xFull, xSaved, unsafe, xNet>>
(* The first file that can be read.                                        *)
ReadOrder_NoOld == <<"main", "ok">>  \* mutant
ReadOrder == <<"main", "old", "ok">>
Readable == {i \in DOMAIN ReadOrder : CanRead(ReadOrder[i])}
Parse(t) ==
  /\ At(t, "parse")
  /\ LET i == CHOOSE k \in Readable : \A j \in Readable : k <= j
     IN IF Readable = {} THEN cfgDoc' = NoDoc /\ Done(t)
        ELSE /\ cfgDoc' = xFile[ReadOrder[i]]
             /\ Go(t, IF i = 1 THEN "writeok" ELSE "unlinkbad")
             /\ UNCHANGED docMux
  /\ UNCHANGED <<xFile, version, xSaves, xCrashes, xFull, xSaved, unsafe, xNet>>
(* The file could not be read: it is written from what was.                *)
UnlinkBad(t) ==
  /\ At(t, "unlinkbad") /\ xFile' = [xFile EXCEPT !["main"] = Gone] /\ Go(t, "repair")
  /\ UNCHANGED <<cfgDoc, docMux, version, xSaves, xCrashes, xFull, xSaved, unsafe, xNet>>
Repair(t) == At(t, "repair") /\ Open(t, "main", "repaired")
Repaired(t) ==
  /\ At(t, "repaired") /\ Written("main") /\ Go(t, "writeok") /\ NowSaved
  /\ UNCHANGED <<cfgDoc, docMux, version, xSaves, xCrashes, xNet>>
WriteOk(t) == At(t, "writeok") /\ Open(t, "ok", "wroteok")
WroteOk(t) ==
  /\ At(t, "wroteok") /\ Written("ok") /\ Done(t) /\ NowSaved /\ xNet' = TRUE
  /\ UNCHANGED <<cfgDoc, version, xSaves, xCrashes>>

-----------------------------------------------------------------------------
(* saveDocument, to the file of the document with its old one kept, or to  *)
(* the file by its name, which removes it.                                 *)

BeginSave(t) ==
  /\ At(t, "idle") /\ SavesLeft /\ Lock(t)
  /\ \/ Go(t, "unlinkold") /\ UNCHANGED unsafe
     \/ Go(t, "unlinkmain") /\ unsafe' = TRUE
  /\ UNCHANGED <<xFile, cfgDoc, version, xCrashes, xFull, xSaved, xNet>>
UnlinkOld(t) ==
  /\ At(t, "unlinkold") /\ xFile' = [xFile EXCEPT !["old"] = Gone] /\ Go(t, "rename")
  /\ UNCHANGED <<cfgDoc, docMux, version, xSaves, xCrashes, xFull, xSaved, unsafe, xNet>>
RenameMain_Not == xFile  \* mutant
RenameMain ==
  IF xFile["main"] = Gone THEN xFile ELSE [xFile EXCEPT !["old"] = xFile["main"], !["main"] = Gone]
Rename(t) ==
  /\ At(t, "rename") /\ xFile' = RenameMain /\ Go(t, "write")
  /\ UNCHANGED <<cfgDoc, docMux, version, xSaves, xCrashes, xFull, xSaved, unsafe, xNet>>
UnlinkMain(t) ==
  /\ At(t, "unlinkmain") /\ xFile' = [xFile EXCEPT !["main"] = Gone] /\ Go(t, "write")
  /\ UNCHANGED <<cfgDoc, docMux, version, xSaves, xCrashes, xFull, xSaved, unsafe, xNet>>
WriteMain(t) == At(t, "write") /\ Open(t, "main", "wrote")
Wrote(t) ==
  /\ At(t, "wrote") /\ Written("main") /\ Done(t) /\ NowSaved
  /\ UNCHANGED <<cfgDoc, version, xSaves, xCrashes, xNet>>

-----------------------------------------------------------------------------
(* cfgGetXpath, cfgSetXpath and cfgDelXpath test the document before they  *)
(* wait for docMux, and use what is there after: maybe none.               *)

Test(t) ==
  /\ At(t, "idle") /\ cfgDoc # NoDoc /\ Go(t, "tested")
  /\ UNCHANGED <<xFile, cfgDoc, docMux, version, xSaves, xCrashes, xFull, xSaved, unsafe, xNet>>
Enter(t) ==
  /\ At(t, "tested") /\ Lock(t)
  /\ xUser' = [xUser EXCEPT ![t] = [pc |-> "inside", doc |-> cfgDoc]]
  /\ UNCHANGED <<xFile, cfgDoc, version, xSaves, xCrashes, xFull, xSaved, unsafe, xNet>>
Read(t) ==
  /\ At(t, "inside") /\ Done(t)
  /\ UNCHANGED <<xFile, cfgDoc, version, xSaves, xCrashes, xFull, xSaved, unsafe, xNet>>
Edit(t) ==
  /\ At(t, "inside") /\ xUser[t].doc # NoDoc /\ version < MaxXmlEdits
  /\ version' = version + 1 /\ cfgDoc' = version' /\ Done(t)
  /\ UNCHANGED <<xFile, xSaves, xCrashes, xFull, xSaved, unsafe, xNet>>

(* The program dies; it starts again with the load of its constructor, by  *)
(* its first thread, or with a document of its own where there is no file. *)
First1 == CHOOSE t \in XmlThreads : TRUE
Crash ==
  /\ xCrashes < MaxXmlCrashes /\ xCrashes' = xCrashes + 1
  /\ docMux' = <<First1>> /\ cfgDoc' = NoDoc
  /\ xUser' = [t \in XmlThreads |-> IF t = First1 THEN [NoXmlUser EXCEPT !.pc = "parse"] ELSE NoXmlUser]
  /\ UNCHANGED <<xFile, version, xSaves, xFull, xSaved, unsafe, xNet>>

XdInit ==
  /\ \/ /\ xFile = [f \in {"main", "old", "ok"} |-> IF f = "main" THEN 1 ELSE Gone]
        /\ cfgDoc = NoDoc /\ docMux = <<First1>> /\ version = 1 /\ xSaved = 1
        /\ xUser = [t \in XmlThreads |-> IF t = First1 THEN [NoXmlUser EXCEPT !.pc = "parse"] ELSE NoXmlUser]
     \/ /\ xFile = [f \in {"main", "old", "ok"} |-> Gone]
        /\ cfgDoc = 1 /\ docMux = << >> /\ version = 1 /\ xSaved = 0
        /\ xUser = [t \in XmlThreads |-> NoXmlUser]
  /\ xSaves = 0 /\ xCrashes = 0 /\ xFull = 0
  /\ unsafe = FALSE /\ xNet = FALSE
XdThread(t) ==
  \/ BeginLoad(t) \/ Parse(t) \/ UnlinkBad(t) \/ Repair(t) \/ Repaired(t) \/ WriteOk(t) \/ WroteOk(t)
  \/ BeginSave(t) \/ UnlinkOld(t) \/ Rename(t) \/ UnlinkMain(t) \/ WriteMain(t) \/ Wrote(t)
  \/ Test(t) \/ Enter(t) \/ Read(t) \/ Edit(t)
XdNext == Crash \/ \E t \in XmlThreads : XdThread(t)

-----------------------------------------------------------------------------
(* Properties.                                                             *)

XdTypeOK ==
  /\ xFile \in [{"main", "old", "ok"} -> {Gone, Bad} \cup 1 .. version]
  /\ cfgDoc \in 0 .. version /\ docMux \in {<<t>> : t \in XmlThreads} \cup {<< >>}

(* The document a thread works on is not freed or replaced under it        *)
(* (docMux), and only the thread that holds docMux touches the files.      *)
UsedUnderMux ==
  \A t \in XmlThreads :
    /\ ~At(t, "idle") /\ ~At(t, "tested") => docMux = <<t>>
    /\ At(t, "inside") => xUser[t].doc = cfgDoc

(* A version that was saved or loaded to the end is never lost: after a    *)
(* death at any step, what can be read first is that one or a later one.   *)
(* Not so while the file is saved by its name, which removes it first, and *)
(* after a write to a full disk, of which saveDocument tells nothing.      *)
SavedIsKept ==
  xSaved > 0 /\ ~unsafe /\ xFull = 0 =>
    Readable # {} /\ xFile[ReadOrder[CHOOSE k \in Readable : \A j \in Readable : k <= j]] >= xSaved

(* The last net (.ok): once a document was loaded there is a file to load  *)
(* at every moment, whatever way it is saved and wherever the program dies; *)
(* and also when one write failed, unless it is saved by its name then.    *)
OneCanBeRead == xNet /\ (xFull = 0 \/ (xFull = 1 /\ ~unsafe)) => Readable # {}

(* All of it: the files of a document keep it.                             *)
FilesKept == XdTypeOK /\ UsedUnderMux /\ SavedIsKept /\ OneCanBeRead
=============================================================================
