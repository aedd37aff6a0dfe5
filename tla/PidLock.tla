------------------------------ MODULE PidLock ------------------------------
(***************************************************************************)
(* The lock file of stl_daemon.c (Linux) that lets an application run      *)
(* once: it calls testPidLock, and setPidLock when that returned 0; it may *)
(* become a daemon (stlDeamonize) before or after that.  The file holds a  *)
(* process number and is never removed; it counts as a lock when there is  *)
(* a process of that number, whichever program it is of.                   *)
(***************************************************************************)
EXTENDS Integers, FiniteSets

CONSTANTS
  Apps,          (* starts of the application                              *)
  PidNumbers,    (* process numbers, free again when a process has gone    *)
  MaxAppStarts   (* BOUND: processes started                               *)

ASSUME PidLockAssumption ==
  PidNumbers \subseteq Nat \ {0} /\ MaxAppStarts \in Nat

NoPid == 0                             (* what atoi makes of no number     *)
Absent == -1

VARIABLES
  lockFile,      (* Absent, NoPid when it is empty, or the number in it    *)
  apc, apid,     (* a start of the application and its process number      *)
  readPid,       (* the number testPidLock has read                        *)
  strangers,     (* numbers of processes of other programs                 *)
  appStarts,
  together,      (* HISTORY: two were in testPidLock or setPidLock at once *)
  forked         (* HISTORY: one became a daemon with the lock set         *)

plVars == <<lockFile, apc, apid, readPid, strangers, appStarts, together, forked>>

PlInit ==
  /\ lockFile \in {Absent} \cup PidNumbers
  /\ apc = [a \in Apps |-> "gone"]
  /\ apid = [a \in Apps |-> NoPid]
  /\ readPid = [a \in Apps |-> NoPid]
  /\ strangers \in SUBSET PidNumbers
  /\ appStarts = 0
  /\ together = FALSE /\ forked = FALSE

AtApp(a, label) == apc[a] = label
GotoApp(a, label) == apc' = [apc EXCEPT ![a] = label]
PidsAlive == {apid[a] : a \in {b \in Apps : apc[b] # "gone"}} \cup strangers
Exists_Never(n) == FALSE                                      \* mutant
Exists(n) == n \in PidsAlive                (* /proc/<n>/status can be opened  *)
Locking == {a \in Apps : apc[a] \in {"read", "look", "truncate", "write"}}

StartApp(a) ==
  /\ AtApp(a, "gone") /\ appStarts < MaxAppStarts
  /\ appStarts' = appStarts + 1
  /\ \E n \in PidNumbers \ PidsAlive : apid' = [apid EXCEPT ![a] = n]
  /\ GotoApp(a, "read")
  /\ together' = (together \/ Locking # {})
  /\ UNCHANGED <<lockFile, readPid, strangers, forked>>

(* testPidLock reads the file: an absent or empty one is no lock.          *)
ReadLock(a) ==
  /\ AtApp(a, "read")
  /\ readPid' = [readPid EXCEPT ![a] = lockFile]
  /\ GotoApp(a, IF lockFile \in PidNumbers THEN "look" ELSE "truncate")
  /\ UNCHANGED <<lockFile, apid, strangers, appStarts, together, forked>>

LookForPid(a) ==
  /\ AtApp(a, "look")
  /\ GotoApp(a, IF Exists(readPid[a]) THEN "refused" ELSE "truncate")
  /\ readPid' = [readPid EXCEPT ![a] = NoPid]
  /\ UNCHANGED <<lockFile, apid, strangers, appStarts, together, forked>>

(* setPidLock: fopen "w" empties the file, fclose writes the number.       *)
TruncateLock(a) ==
  /\ AtApp(a, "truncate")
  /\ lockFile' = NoPid
  /\ GotoApp(a, "write")
  /\ UNCHANGED <<apid, readPid, strangers, appStarts, together, forked>>

WritesPid_Parent(a) == CHOOSE n \in PidNumbers : TRUE        \* mutant
WritesPid(a) == apid[a]

WriteLock(a) ==
  /\ AtApp(a, "write")
  /\ lockFile' = WritesPid(a)
  /\ GotoApp(a, "runs")
  /\ UNCHANGED <<apid, readPid, strangers, appStarts, together, forked>>

(* stlDeamonize: the child goes on, the parent exits.                      *)
stlDeamonize(a) ==
  /\ apc[a] \in {"read", "runs"}
  /\ \E n \in PidNumbers \ PidsAlive : apid' = [apid EXCEPT ![a] = n]
  /\ forked' = (forked \/ AtApp(a, "runs"))
  /\ UNCHANGED <<lockFile, apc, readPid, strangers, appStarts, together>>

(* An application that was refused exits; one that runs exits or is        *)
(* killed, at any step: the lock file stays as it is.                      *)
EndApp(a) ==
  /\ apc[a] # "gone"
  /\ GotoApp(a, "gone")
  /\ apid' = [apid EXCEPT ![a] = NoPid]
  /\ UNCHANGED <<lockFile, readPid, strangers, appStarts, together, forked>>

Stranger ==
  /\ \/ \E n \in PidNumbers \ PidsAlive : strangers' = strangers \cup {n}
     \/ \E n \in strangers : strangers' = strangers \ {n}
  /\ UNCHANGED <<lockFile, apc, apid, readPid, appStarts, together, forked>>

PlNext ==
  \/ Stranger
  \/ \E a \in Apps :
       \/ StartApp(a) \/ ReadLock(a) \/ LookForPid(a) \/ TruncateLock(a)
       \/ WriteLock(a) \/ stlDeamonize(a) \/ EndApp(a)

PlSpec == PlInit /\ [][PlNext]_plVars

-----------------------------------------------------------------------------
(* Properties.                                                             *)

(* Type invariant.                                                         *)
PlTypeOK ==
  /\ lockFile \in {Absent, NoPid} \cup PidNumbers
  /\ apc \in [Apps -> {"gone", "read", "look", "refused", "truncate", "write", "runs"}]
  /\ apid \in [Apps -> {NoPid} \cup PidNumbers]
  /\ readPid \in [Apps -> {Absent, NoPid} \cup PidNumbers]
  /\ strangers \subseteq PidNumbers /\ appStarts \in 0 .. MaxAppStarts
  /\ together \in BOOLEAN /\ forked \in BOOLEAN

(* "sets system wide lock so application can only be running once": two    *)
(* run only when one became a daemon with the lock set (the number in the  *)
(* file is its parent's), or when two were testing or setting the lock at  *)
(* the same time, themselves or others before them.                        *)
RunsOnce ==
  ~together /\ ~forked =>
    \A a, b \in Apps : apc[a] = "runs" /\ apc[b] = "runs" => a = b

(* While an application runs, its number is in the lock file: nobody who   *)
(* tests it empties it, and no start after a crash leaves an old number.   *)
LockIsHeld ==
  ~together /\ ~forked =>
    \A a \in Apps : apc[a] = "runs" => lockFile = apid[a]

(* All of it: one application runs, and holds the lock.                    *)
OneInstance == PlTypeOK /\ RunsOnce /\ LockIsHeld
=============================================================================
