------------------------------- MODULE IniFile -------------------------------
(***************************************************************************)
(* The ini file of a program (stl_inifile.c) and the file it is kept in    *)
(* (stlFileRead and stlFileWrite of stl_file.c): the first use makes the   *)
(* name of the file, stlIniSet reads the file, changes the lines of one    *)
(* item and writes all of it back under the mutex of its process, with the *)
(* old file as .bak, and stlIniGet reads without a mutex.  Threads of two  *)
(* processes of one program use the file; a process may die, and the disk  *)
(* may be full.                                                            *)
(*                                                                         *)
(* A line is a header (sect), an item with its value, or another line.     *)
(* Letter case, blanks and comments are left out, and so are values with   *)
(* '=' or ';', of which stlIniGet returns the first part only.  A file is  *)
(* << >> (not there) or <<lines>>.                                         *)
(***************************************************************************)
EXTENDS Integers, Sequences
LOCAL INSTANCE SequencesExt
LOCAL INSTANCE FiniteSetsExt

CONSTANTS
  IniThreads,            (* <<process, number>>                            *)
  Sections,              (* sections asked for                             *)
  Items,                 (* items asked for                                *)
  IniValues,             (* values stored                                  *)
  FirstFiles,            (* files there may be at the start                *)
  MaxIniCalls,           (* BOUND: calls                                   *)
  MaxIniFaults           (* BOUND: deaths and full disks                   *)

ASSUME IniFileAssumption ==
  /\ "NULL" \notin IniValues /\ "" \notin Sections /\ "" \notin Items
  /\ MaxIniCalls \in Nat /\ MaxIniFaults \in Nat

IniProcs == {t[1] : t \in IniThreads}
NoValue == "NULL"                                (* sValue to remove an item *)

VARIABLES
  iniDisk,               (* the files by name                              *)
  bak,                   (* the file and .bak                              *)
  iniName,               (* _stlExeName of a process                       *)
  iniMux,                (* holder of mux of stlIniSet of a process, or << >> *)
  user,                  (* a thread: [pc, file, sect, item, value, lines] *)
  iniCalls,
  iniFaults,
  got,                   (* HISTORY: what the last stlIniGet returned and should have *)
  stored,                (* HISTORY: [sect, item] -> value of the last stlIniSet *)
  harm                   (* HISTORY: what may have lost a value            *)
iniVars == <<iniDisk, bak, iniName, iniMux, user, iniCalls, iniFaults, got, stored, harm>>

(* Names: the program itself, while ".ini" is not added yet, and the name  *)
(* two threads make that both add it.                                      *)
Names == {"program", "ini", "ini.ini"}
NoIniUser == [pc |-> "idle", file |-> "", sect |-> "", item |-> "", value |-> "",
           lines |-> << >>]

-----------------------------------------------------------------------------
(* The lines of a file.                                                    *)

Header(s) == [sect |-> s, item |-> "", val |-> ""]
Item(i, v) == [sect |-> "", item |-> i, val |-> v]
Blank == Item("", "")

HeadersTo(lines, i) == {k \in 1 .. i : lines[k].sect # ""}
InSection_Any(lines, i, s) == \E k \in HeadersTo(lines, i) : lines[k].sect = s   \* mutant
InSection(lines, i, s) ==
  HeadersTo(lines, i) # {} /\ lines[Max(HeadersTo(lines, i))].sect = s
Matches(lines, s, i) ==
  {k \in DOMAIN lines : lines[k].item = i /\ lines[k].sect = "" /\ InSection(lines, k, s)}

InsertedAt_End(lines, s) == Len(lines) + 1                   \* mutant
InsertedAt(lines, s) == 1 + Min({k \in DOMAIN lines : lines[k].sect = s})

Only(lines, kept) ==
  LET order == SetToSortSeq(kept, <) IN [k \in DOMAIN order |-> lines[order[k]]]

Changed(lines, s, i, v) ==
  LET found == Matches(lines, s, i)
  IN IF v = NoValue THEN Only(lines, DOMAIN lines \ found)
     ELSE IF found # {}
       THEN [k \in DOMAIN lines |-> IF k \in found THEN Item(i, v) ELSE lines[k]]
     ELSE IF \E k \in DOMAIN lines : lines[k].sect = s
       THEN InsertAt(lines, InsertedAt(lines, s), Item(i, v))
     ELSE lines \o <<Blank, Header(s), Item(i, v), Blank>>

(* stlIniGet: the values of all the lines of the item, << >> for NULL.     *)
Found(file, s, i) ==
  IF file = << >> THEN << >>
  ELSE LET values == Only(file[1], Matches(file[1], s, i))
       IN [k \in DOMAIN values |-> values[k].val]

-----------------------------------------------------------------------------

IniInit ==
  /\ \E f \in FirstFiles : iniDisk = [n \in Names |-> IF n = "ini" THEN f
                                                   ELSE IF n = "program" THEN <<<<Blank>>>> ELSE << >>]
  /\ bak = << >> /\ iniName = [p \in IniProcs |-> ""]
  /\ iniMux = [p \in IniProcs |-> << >>] /\ user = [t \in IniThreads |-> NoIniUser]
  /\ iniCalls = 0 /\ iniFaults = 0 /\ got = <<{}, << >>>>
  /\ stored = [k \in Sections \X Items |-> Found(iniDisk["ini"], k[1], k[2])] /\ harm = {}

Goes(t, pc) == user' = [user EXCEPT ![t].pc = pc]
IniAt(t, pc) == user[t].pc = pc

Call(t) ==
  /\ IniAt(t, "idle") /\ iniCalls < MaxIniCalls /\ iniCalls' = iniCalls + 1
  /\ \E s \in Sections, i \in Items :
       \/ user' = [user EXCEPT ![t] = [NoIniUser EXCEPT !.pc = "name get", !.sect = s, !.item = i]]
       \/ \E v \in IniValues \cup {NoValue} :
            user' = [user EXCEPT ![t] = [NoIniUser EXCEPT !.pc = "name set", !.sect = s, !.item = i, !.value = v]]
  /\ UNCHANGED <<iniDisk, bak, iniName, iniMux, iniFaults, got, stored, harm>>

(* _stlInitName: the name is copied, then ".ini" is added to it.           *)
NameRace(t) ==
  IF \E u \in IniThreads \ {t} : u[1] = t[1] /\ user[u].pc \in {"copy get", "copy set", "add get", "add set"}
    THEN {"name"} ELSE {}
NameTest(t) ==
  /\ user[t].pc \in {"name get", "name set"}
  /\ \/ /\ iniName[t[1]] # ""
        /\ Goes(t, IF IniAt(t, "name get") THEN "get" ELSE "lock")
        /\ harm' = harm \cup NameRace(t)
     \/ /\ iniName[t[1]] = ""
        /\ Goes(t, IF IniAt(t, "name get") THEN "copy get" ELSE "copy set")
        /\ UNCHANGED harm
  /\ UNCHANGED <<iniDisk, bak, iniName, iniMux, iniCalls, iniFaults, got, stored>>
NameCopy(t) ==
  /\ user[t].pc \in {"copy get", "copy set"}
  /\ Goes(t, IF IniAt(t, "copy get") THEN "add get" ELSE "add set")
  /\ harm' = harm \cup NameRace(t)
  /\ iniName' = [iniName EXCEPT ![t[1]] = "program"]
  /\ UNCHANGED <<iniDisk, bak, iniMux, iniCalls, iniFaults, got, stored>>
WithIni_Not(n) == n                                          \* mutant
WithIni(n) == IF n = "program" THEN "ini" ELSE "ini.ini"
NameAdd(t) ==
  /\ user[t].pc \in {"add get", "add set"}
  /\ Goes(t, IF IniAt(t, "add get") THEN "get" ELSE "lock")
  /\ iniName' = [iniName EXCEPT ![t[1]] = WithIni(@)]
  /\ UNCHANGED <<iniDisk, bak, iniMux, iniCalls, iniFaults, got, stored, harm>>

(* A file that is being written: a call that meets it reads a part.        *)
Writing == {t \in IniThreads : user[t].pc \in {"create", "write"}}

Get(t) ==
  /\ IniAt(t, "get") /\ user' = [user EXCEPT ![t] = NoIniUser]
  /\ got' = <<IF Writing # {} THEN {"while written"} ELSE harm,
              <<Found(iniDisk[iniName[t[1]]], user[t].sect, user[t].item), stored[<<user[t].sect, user[t].item>>]>>>>
  /\ UNCHANGED <<iniDisk, bak, iniName, iniMux, iniCalls, iniFaults, stored, harm>>

IniMuxFree_Not(p) == TRUE                                    \* mutant
IniMuxFree(p) == iniMux[p] = << >>
Lock(t) ==
  /\ IniAt(t, "lock") /\ IniMuxFree(t[1])
  /\ iniMux' = [iniMux EXCEPT ![t[1]] = t] /\ Goes(t, "read")
  /\ UNCHANGED <<iniDisk, bak, iniName, iniCalls, iniFaults, got, stored, harm>>

(* stlFileRead; it is tried again after 100 ms when there is no file, and  *)
(* then there was none.                                                    *)
Between(u) == user[u].pc \in {"read", "again", "change", "unlink", "rename", "create", "write"}
Read(t) ==
  /\ IniAt(t, "read") \/ IniAt(t, "again")
  /\ LET f == iniName[t[1]]
         done == iniDisk[f] # << >> \/ IniAt(t, "again")
     IN /\ user' = [user EXCEPT ![t].pc = IF done THEN "change" ELSE "again",
                                ![t].file = IF done THEN f ELSE @,
                                ![t].lines = IF iniDisk[f] = << >> THEN @ ELSE iniDisk[f][1]]
        /\ harm' = harm \cup (IF \E u \in IniThreads : u[1] # t[1] /\ Between(u)
                              THEN {"two processes"} ELSE {})
  /\ UNCHANGED <<iniDisk, bak, iniName, iniMux, iniCalls, iniFaults, got, stored>>

IniUnlock(t) == /\ user' = [user EXCEPT ![t] = NoIniUser]
             /\ iniMux' = [iniMux EXCEPT ![t[1]] = << >>]
Remember(t) ==
  stored' = [stored EXCEPT ![<<user[t].sect, user[t].item>>] =
               IF user[t].value = NoValue THEN << >>
               ELSE [k \in 1 .. Max({1, Len(@)}) |-> user[t].value]]

(* Nothing is written when there was nothing to remove.                    *)
ChangeText(t) ==
  /\ IniAt(t, "change")
  /\ LET new == Changed(user[t].lines, user[t].sect, user[t].item, user[t].value)
         none == user[t].value = NoValue /\ Matches(user[t].lines, user[t].sect, user[t].item) = {}
     IN IF none THEN IniUnlock(t)
        ELSE user' = [user EXCEPT ![t].lines = new, ![t].pc = "unlink"] /\ UNCHANGED iniMux
  /\ UNCHANGED <<iniDisk, bak, iniName, iniCalls, iniFaults, got, stored, harm>>

(* stlFileWrite.                                                           *)
Unlink(t) ==
  /\ IniAt(t, "unlink") /\ Goes(t, "rename")
  /\ bak' = << >>
  /\ UNCHANGED <<iniDisk, iniName, iniMux, iniCalls, iniFaults, got, stored, harm>>
Backup_Not(f) == << >>                                       \* mutant
Backup(f) == IF iniDisk[f] = << >> THEN bak ELSE iniDisk[f]
Rename(t) ==
  /\ IniAt(t, "rename") /\ Goes(t, "create")
  /\ bak' = Backup(user[t].file)
  /\ iniDisk' = [iniDisk EXCEPT ![user[t].file] = << >>]
  /\ UNCHANGED <<iniName, iniMux, iniCalls, iniFaults, got, stored, harm>>
Create(t) ==
  /\ IniAt(t, "create") /\ Goes(t, "write")
  /\ iniDisk' = [iniDisk EXCEPT ![user[t].file] = <<<< >>>>]
  /\ UNCHANGED <<bak, iniName, iniMux, iniCalls, iniFaults, got, stored, harm>>

(* The directory may not be written: the old file comes back.              *)
Restored_Not(f) == iniDisk                                      \* mutant
Restored(f) == [iniDisk EXCEPT ![f] = bak]
CannotCreate(t) ==
  /\ IniAt(t, "create") /\ iniFaults < MaxIniFaults /\ iniFaults' = iniFaults + 1
  /\ IniUnlock(t)
  /\ iniDisk' = Restored(user[t].file) /\ bak' = << >>
  /\ UNCHANGED <<iniName, iniCalls, got, stored, harm>>

WriteIni(t) ==
  /\ IniAt(t, "write")
  /\ \/ /\ iniDisk' = [iniDisk EXCEPT ![user[t].file] = <<user[t].lines>>]
        /\ UNCHANGED <<harm, iniFaults>>
     \/ /\ iniFaults < MaxIniFaults /\ iniFaults' = iniFaults + 1
        /\ iniDisk' = [iniDisk EXCEPT ![user[t].file] =
                      <<SubSeq(user[t].lines, 1, Len(user[t].lines) - 1)>>]
        /\ harm' = harm \cup {"disk full"}
  /\ Remember(t) /\ IniUnlock(t)
  /\ UNCHANGED <<bak, iniName, iniCalls, got>>

(* A process dies; its name is made again by the next.                     *)
IniDies(p) ==
  /\ \E t \in IniThreads : t[1] = p /\ user[t].pc # "idle"
  /\ iniFaults < MaxIniFaults /\ iniFaults' = iniFaults + 1
  /\ harm' = harm \cup (IF \E t \in Writing : t[1] = p THEN {"death"} ELSE {})
  /\ user' = [t \in IniThreads |-> IF t[1] = p THEN NoIniUser ELSE user[t]]
  /\ iniName' = [iniName EXCEPT ![p] = ""] /\ iniMux' = [iniMux EXCEPT ![p] = << >>]
  /\ UNCHANGED <<iniDisk, bak, iniCalls, got, stored>>

IniNext ==
  \/ \E t \in IniThreads :
       \/ Call(t) \/ NameTest(t) \/ NameCopy(t) \/ NameAdd(t)
       \/ Get(t) \/ Lock(t) \/ Read(t) \/ ChangeText(t)
       \/ Unlink(t) \/ Rename(t) \/ Create(t) \/ CannotCreate(t) \/ WriteIni(t)
  \/ \E p \in IniProcs : IniDies(p)

IniSpec == IniInit /\ [][IniNext]_iniVars

-----------------------------------------------------------------------------
(* Properties.                                                             *)

(* Type invariant.                                                         *)
IniTypeOK ==
  /\ \A n \in Names : Len(iniDisk[n]) <= 1
  /\ \A p \in IniProcs :
       iniMux[p] # << >> <=> \E t \in IniThreads : t[1] = p /\ Between(t)
  /\ \A t \in IniThreads : user[t].file \in Names \cup {""}

(* Every item of the file has the values stored in it last (removed ones   *)
(* none), whatever else the file holds and whichever threads of a process  *)
(* store at once, unless the file was written by two processes at once, a  *)
(* process died in the middle of writing, the disk was full, or two threads*)
(* made its name.                                                          *)
ValuesKept ==
  Writing = {} /\ harm = {} =>
    \A k \in Sections \X Items : Found(iniDisk["ini"], k[1], k[2]) = stored[k]

(* stlIniGet returns what was stored last, unless the file was being       *)
(* written.                                                                *)
GetsWhatIsStored == got[1] = {} /\ got[2] # << >> => got[2][1] = got[2][2]

(* While the file is written, .bak has the values it had, to come back to  *)
(* when the writing fails or the process dies.                             *)
BackupIsWhole ==
  Writing # {} /\ harm = {} => \A k \in Sections \X Items : Found(bak, k[1], k[2]) = stored[k]

(* The file of the program itself is never written, but by a thread that   *)
(* found its name half made.                                               *)
ProgramKept == iniDisk["program"] # <<<<Blank>>>> => "name" \in harm

(* All of it: the file, its copy and what is read from it hold what was    *)
(* stored.                                                                 *)
IniKept ==
  /\ IniTypeOK /\ ValuesKept /\ GetsWhatIsStored
  /\ BackupIsWhole /\ ProgramKept
=============================================================================
