------------------------------- MODULE Console -------------------------------
(* The console on Linux (stl_conio.cpp): a thread reads the keyboard, one  *)
(* more thread each device that setInputDevice opens, and a handler takes  *)
(* Ctrl-C; all put what they have into one slot, chGet: _getch empties it. *)
(* No lock is taken: every access of a shared variable is a step.          *)
(*                                                                         *)
(* A key is <<where it was pressed, its number>>, a code is the sequence of*)
(* the keys it was made of, << >> is 0.  escMs is "none" (0), "armed" or   *)
(* "late" (set more than 100 ms ago).                                      *)
EXTENDS Integers, Sequences, FiniteSets, SequencesExt

CONSTANT
  Cases  \* what happens: [typed, pads, signals, opens], of which typed is what
         \* is typed ("ESC", "digit" for 0x31 and 0x32, or "key"), and the
         \* others are how many keys of the device and Ctrl-C are pressed,
         \* and how often a device is opened

VARIABLES
  threadState, chGet, escMs, inputFD, haveOldTIO,
  tty,       \* "cooked" or "raw": how the terminal is set
  files,     \* the devices that are open
  worker,    \* workThread: [pc, code, escPos, escLen, escVal]
  pads,      \* the threads of workThreadFD, by the number of their opening
  reader,    \* who calls _kbhit and _getch
  chMain,    \* setInputDevice and the destructor: [pc, fd]
  case,      \* the one of Cases
  keys,      \* how many keys were pressed, by where
  gotKey,    \* what _getch returned
  known      \* for the properties: what happened to the keys

chShared == <<threadState, chGet, escMs, inputFD, haveOldTIO, tty, files>>
cnVars == <<chShared, worker, pads, reader, chMain, case, keys, gotKey, known>>

-----------------------------------------------------------------------------
(* A key is pressed while nothing of the one before it is on its way: the  *)
(* slot is empty, and it is no part of a sequence that is late.            *)
NoneOnItsWay ==
  worker.pc \in {"new", "raw", "loop", "getchar"} /\ \A i \in DOMAIN pads : pads[i].pc # "store"
Quiet == chGet = << >> /\ reader # "clear" /\ escMs # "late" /\ NoneOnItsWay
Pressed(where, quiet) ==
  /\ keys' = [keys EXCEPT ![where] = @ + 1]
  /\ known' = [known EXCEPT !.calm = @ /\ quiet]
Key(where) == <<where, keys[where] + 1>>

(* The thread starts, and sets the terminal.                               *)
WorkStart ==
  /\ worker.pc = "new"
  /\ worker' = [worker EXCEPT !.pc = "raw"] /\ threadState' = 2
  /\ UNCHANGED <<chGet, escMs, inputFD, haveOldTIO, tty, files, pads, reader, chMain, case, keys, gotKey, known>>

lxRawKeys ==
  /\ worker.pc = "raw"
  /\ worker' = [worker EXCEPT !.pc = "loop"] /\ haveOldTIO' = TRUE /\ tty' = "raw"
  /\ known' = [known EXCEPT !.rawLate = chMain.pc = "gone"]
  /\ UNCHANGED <<threadState, chGet, escMs, inputFD, files, pads, reader, chMain, case, keys, gotKey>>

WorkLoop ==
  /\ worker.pc = "loop"
  /\ IF threadState = 2
     THEN worker' = [worker EXCEPT !.pc = "getchar"] /\ UNCHANGED threadState
     ELSE worker' = [worker EXCEPT !.pc = "ended"] /\ threadState' = 4
  /\ UNCHANGED <<chGet, escMs, inputFD, haveOldTIO, tty, files, pads, reader, chMain, case, keys, gotKey, known>>

(* getchar gives a key, or nothing any more.                               *)
WorkGet ==
  /\ worker.pc = "getchar"
  /\ \/ /\ keys.kb < Len(case.typed)
        /\ worker' = [worker EXCEPT !.pc = "test", !.code = <<Key("kb")>>]
        /\ Pressed("kb", Quiet)
     \/ /\ keys.kb = Len(case.typed)
        /\ worker' = [worker EXCEPT !.pc = "loop"] /\ UNCHANGED <<case, keys, known>>
  /\ UNCHANGED <<chShared, pads, reader, chMain, case, gotKey>>

(* An ESC begins a sequence.                                               *)
KeyIs(k) == case.typed[worker.code[1][2]] = k
StartsEsc == KeyIs("ESC") /\ escMs = "none"
WorkTest ==
  /\ worker.pc = "test"
  /\ IF StartsEsc
     THEN /\ worker' = [worker EXCEPT !.pc = "loop", !.code = << >>, !.escPos = 0, !.escVal = << >>, !.escLen = 2]
          /\ escMs' = "armed" /\ known' = [known EXCEPT !.esc = worker.code[1]]
     ELSE worker' = [worker EXCEPT !.pc = "in"] /\ UNCHANGED <<escMs, known>>
  /\ UNCHANGED <<threadState, chGet, inputFD, haveOldTIO, tty, files, pads, reader, chMain, case, keys, gotKey>>

(* The keys of a sequence are kept until it is complete: two, or four when *)
(* the second one is a digit.                                              *)
WorkIn ==
  /\ worker.pc = "in"
  /\ worker' = [worker EXCEPT !.pc = IF escMs # "none" THEN "grow" ELSE "store"]
  /\ UNCHANGED <<chShared, pads, reader, chMain, case, keys, gotKey, known>>

EscLen == IF worker.escPos = 1 /\ KeyIs("digit") THEN 4 ELSE worker.escLen
Complete == worker.escPos + 1 >= EscLen
WorkGrow ==
  /\ worker.pc = "grow"
  /\ LET val == worker.escVal \o worker.code
     IN worker' = [worker EXCEPT !.escLen = EscLen, !.escPos = @ + 1,
                                 !.escVal = IF Complete THEN << >> ELSE val,
                                 !.code = IF Complete THEN <<known.esc>> \o val ELSE << >>,
                                 !.pc = IF Complete THEN "store" ELSE "loop"]
  /\ escMs' = IF Complete THEN "none" ELSE "armed"
  /\ UNCHANGED <<threadState, chGet, inputFD, haveOldTIO, tty, files, pads, reader, chMain, case, keys, gotKey, known>>

WorkStore ==
  /\ worker.pc = "store"
  /\ worker' = [worker EXCEPT !.pc = "loop", !.code = << >>] /\ chGet' = worker.code
  /\ UNCHANGED <<threadState, escMs, inputFD, haveOldTIO, tty, files, pads, reader, chMain, case, keys, gotKey, known>>

WorkStep == WorkLoop \/ WorkGet \/ WorkTest \/ WorkIn \/ WorkGrow \/ WorkStore

(* 100 ms pass after the last key of a sequence: it is cut off.            *)
EscLate ==
  /\ escMs = "armed" /\ escMs' = "late"
  /\ known' = [known EXCEPT !.calm = @ /\ worker.pc \in {"loop", "getchar"} /\ worker.escPos = 0]
  /\ UNCHANGED <<threadState, chGet, inputFD, haveOldTIO, tty, files, worker, pads, reader, chMain, case, keys, gotKey>>

(* Ctrl-C counts as an ESC, and a sequence that was begun is dropped.      *)
handleCtrlC ==
  /\ keys.sig < case.signals
  /\ escMs' = "none" /\ chGet' = <<Key("sig")>>
  /\ Pressed("sig", Quiet /\ escMs = "none")
  /\ UNCHANGED <<threadState, inputFD, haveOldTIO, tty, files, worker, pads, reader, chMain, case, gotKey>>

-----------------------------------------------------------------------------
(* _kbhit: escMs is read twice; when the sequence ended between the two,   *)
(* the second gives 0, and that is long ago.                               *)
LateEsc_Early == escMs # "none"                               \* mutant
LateEsc == escMs # "armed"
_kbhitLook ==
  /\ reader = "idle"
  /\ reader' = IF escMs # "none" THEN "hit" ELSE IF chGet # << >> THEN "get" ELSE "idle"
_kbhitLate ==
  /\ reader = "hit"
  /\ reader' = IF LateEsc \/ chGet # << >> THEN "get" ELSE "idle"

(* _getch: an ESC that is late, or the code in the slot, that is cleared   *)
(* after it was read.  Also called without _kbhit.                         *)
GetCall == reader = "idle" /\ reader' = "get"
GetLook == reader = "get" /\ reader' = IF escMs # "none" THEN "esc" ELSE "wait"
ReaderStep ==
  /\ chMain.pc \notin {"stop", "restore", "gone"}
  /\ _kbhitLook \/ _kbhitLate \/ GetCall \/ GetLook
  /\ UNCHANGED <<chShared, worker, pads, chMain, case, keys, gotKey, known>>

GetEsc ==
  /\ reader = "esc"
  /\ IF LateEsc
     THEN /\ escMs' = "none" /\ gotKey' = Append(gotKey, [late |-> TRUE, code |-> <<known.esc>>]) /\ reader' = "idle"
          /\ known' = [known EXCEPT !.raced = @ \/ escMs = "none" \/ worker.pc = "grow"]
     ELSE reader' = "wait" /\ UNCHANGED <<escMs, gotKey, known>>
  /\ UNCHANGED <<threadState, chGet, inputFD, haveOldTIO, tty, files, worker, pads, chMain, case, keys>>

GetRead ==
  /\ reader = "wait" /\ chGet # << >>
  /\ reader' = "clear" /\ gotKey' = Append(gotKey, [late |-> FALSE, code |-> chGet])
  /\ UNCHANGED <<chShared, worker, pads, chMain, case, keys, known>>

Cleared_Not == chGet                                          \* mutant
Cleared == << >>
GetClear ==
  /\ reader = "clear"
  /\ reader' = "idle" /\ chGet' = Cleared
  /\ UNCHANGED <<threadState, escMs, inputFD, haveOldTIO, tty, files, worker, pads, chMain, case, keys, gotKey, known>>

-----------------------------------------------------------------------------
(* A device: its thread takes the keys that are pressed.  It reads inputFD *)
(* again each time, so that it goes on with another device, or with none.  *)
PadTo(i, pc) == pads' = [pads EXCEPT ![i].pc = pc]
PadLoop(i) ==
  /\ pads[i].pc = "loop"
  /\ pads' = [pads EXCEPT ![i] = [@ EXCEPT !.pc = IF threadState = 2 THEN "read" ELSE "exit", !.fd = inputFD]]
  /\ UNCHANGED <<chShared, worker, reader, chMain, case, keys, gotKey, known>>

PadKey(i) ==
  /\ pads[i].pc = "read" /\ pads[i].fd >= 0 /\ keys.pad < case.pads
  /\ pads' = [pads EXCEPT ![i] = [@ EXCEPT !.pc = "store", !.code = <<Key("pad")>>]]
  /\ escMs' = "none" /\ Pressed("pad", Quiet /\ escMs = "none")
  /\ UNCHANGED <<threadState, chGet, inputFD, haveOldTIO, tty, files, worker, reader, chMain, case, gotKey>>

PadStore(i) ==
  /\ pads[i].pc = "store" /\ chGet' = pads[i].code
  /\ pads' = [pads EXCEPT ![i] = [@ EXCEPT !.pc = "loop", !.code = << >>]]
  /\ UNCHANGED <<threadState, escMs, inputFD, haveOldTIO, tty, files, worker, reader, chMain, case, keys, gotKey, known>>

(* The device is gone, or closed: the thread closes what is open now.      *)
Leaving == {i \in DOMAIN pads : pads[i].pc \in {"close", "clear"}}
Dropping == chMain.pc \in {"drop", "close"}
PadFail(i) ==
  /\ pads[i].pc = "read" /\ PadTo(i, "exit")
  /\ UNCHANGED <<chShared, worker, reader, chMain, case, keys, gotKey, known>>
PadExit(i) ==
  /\ pads[i].pc = "exit" /\ PadTo(i, IF inputFD >= 0 THEN "close" ELSE "clear")
  /\ known' = [known EXCEPT !.both = @ \/ Leaving # {} \/ Dropping]
  /\ UNCHANGED <<chShared, worker, reader, chMain, case, keys, gotKey>>

(* close: of a number that is open, or for the second time.                *)
Close(fd) ==
  /\ files' = files \ {fd}
  /\ known' = [known EXCEPT !.twice = @ \/ (fd >= 0 /\ fd \notin files)]
PadClose(i) ==
  /\ pads[i].pc = "close" /\ PadTo(i, "clear") /\ Close(inputFD)
  /\ UNCHANGED <<threadState, chGet, escMs, inputFD, haveOldTIO, tty, worker, reader, chMain, case, keys, gotKey>>
PadClear(i) ==
  /\ pads[i].pc = "clear" /\ PadTo(i, "ended") /\ inputFD' = -1
  /\ UNCHANGED <<threadState, chGet, escMs, haveOldTIO, tty, files, worker, reader, chMain, case, keys, gotKey, known>>

PadStep ==
  \E i \in DOMAIN pads :
    \/ PadLoop(i) \/ PadKey(i) \/ PadStore(i) \/ PadFail(i)
    \/ PadExit(i) \/ PadClose(i) \/ PadClear(i)

(* setInputDevice: opens a device when none is open (-2), with a thread;   *)
(* without a name it closes the one that is.                               *)
NewFd == CHOOSE fd \in 0 .. case.opens : fd \notin files /\ \A g \in 0 .. fd - 1 : g \in files
DeviceFree_Any == chMain.pc = "idle"                            \* mutant
DeviceFree == chMain.pc = "idle" /\ inputFD < 0
setInputDevice ==
  /\ DeviceFree /\ Len(pads) < case.opens
  /\ inputFD' = NewFd /\ files' = files \cup {NewFd}
  /\ pads' = Append(pads, [pc |-> "loop", fd |-> -1, code |-> << >>])
  /\ known' = [known EXCEPT !.both = @ \/ Leaving # {}]
  /\ UNCHANGED <<threadState, chGet, escMs, haveOldTIO, tty, worker, reader, chMain, case, keys, gotKey>>

Drop(then) ==
  /\ chMain.pc = "idle" /\ inputFD >= 0
  /\ chMain' = [pc |-> "drop", fd |-> inputFD, then |-> then]
  /\ known' = [known EXCEPT !.both = @ \/ Leaving # {}]
  /\ UNCHANGED <<chShared, worker, pads, reader, case, keys, gotKey>>
MainDrop ==
  /\ chMain.pc = "drop" /\ chMain' = [chMain EXCEPT !.pc = "close"] /\ inputFD' = -1
  /\ UNCHANGED <<threadState, chGet, escMs, haveOldTIO, tty, files, worker, pads, reader, case, keys, gotKey, known>>
MainClose ==
  /\ chMain.pc = "close" /\ chMain' = [chMain EXCEPT !.pc = chMain.then] /\ Close(chMain.fd)
  /\ UNCHANGED <<threadState, chGet, escMs, inputFD, haveOldTIO, tty, worker, pads, reader, case, keys, gotKey>>

(* The destructor: closes the device, lets the thread start, asks it to    *)
(* stop, gives it time to and sets the terminal as it was.  It waits 250 ms*)
(* at most, so that the thread need not have done anything.                *)
consoleEnd ==
  /\ reader = "idle"
  /\ \/ Drop("stop")
     \/ /\ chMain.pc = "idle" /\ inputFD < 0 /\ chMain' = [chMain EXCEPT !.pc = "stop"]
        /\ UNCHANGED <<chShared, worker, pads, reader, case, keys, gotKey, known>>
EndStop ==
  /\ chMain.pc = "stop" /\ chMain' = [chMain EXCEPT !.pc = "restore"] /\ threadState' = 3
  /\ UNCHANGED <<chGet, escMs, inputFD, haveOldTIO, tty, files, worker, pads, reader, case, keys, gotKey, known>>

ModeRestored_Raw == tty                                           \* mutant
ModeRestored == IF haveOldTIO THEN "cooked" ELSE tty
lxRestoreKeys ==
  /\ chMain.pc = "restore" /\ chMain' = [chMain EXCEPT !.pc = "gone"] /\ tty' = ModeRestored
  /\ UNCHANGED <<threadState, chGet, escMs, inputFD, haveOldTIO, files, worker, pads, reader, case, keys, gotKey, known>>

-----------------------------------------------------------------------------
CnInit ==
  /\ threadState = 1 /\ chGet = << >> /\ escMs = "none" /\ inputFD = -1 /\ haveOldTIO = FALSE
  /\ tty = "cooked" /\ files = {}
  /\ worker = [pc |-> "new", code |-> << >>, escPos |-> 0, escLen |-> 0, escVal |-> << >>]
  /\ pads = << >> /\ reader = "idle" /\ chMain = [pc |-> "idle", fd |-> -1, then |-> "idle"]
  /\ case \in Cases /\ keys = [kb |-> 0, pad |-> 0, sig |-> 0]
  /\ gotKey = << >>
  /\ known = [esc |-> << >>, calm |-> TRUE, raced |-> FALSE, rawLate |-> FALSE, both |-> FALSE,
              twice |-> FALSE]

CnNext ==
  \/ WorkStart \/ lxRawKeys \/ WorkStep \/ EscLate \/ handleCtrlC
  \/ ReaderStep \/ GetEsc \/ GetRead \/ GetClear
  \/ PadStep \/ setInputDevice \/ Drop("idle") \/ MainDrop \/ MainClose
  \/ consoleEnd \/ EndStop \/ lxRestoreKeys

CnSpec == CnInit /\ [][CnNext]_cnVars

-----------------------------------------------------------------------------
(* A key that is pressed is returned once; but when _getch takes an ESC for*)
(* late while the thread goes on with its sequence, or has ended it.  And  *)
(* those of one device in the order they were pressed in; but an ESC that  *)
(* is late overtakes the key in the slot.                                  *)
KeysOf(codes) == FlattenSeq([i \in DOMAIN codes |-> codes[i].code])
InOrder(where) ==
  LET mine == SelectSeq(KeysOf(SelectSeq(gotKey, LAMBDA g : ~g.late)), LAMBDA k : k[1] = where)
  IN \A i \in 1 .. Len(mine) - 1 : mine[i][2] < mine[i + 1][2]
EachKeyOnce ==
  known.raced \/ (IsInjective(KeysOf(gotKey)) /\ \A where \in {"kb", "pad", "sig"} : InOrder(where))

(* No key is lost when each is pressed after the one before it was taken.  *)
PressedKeys ==
  {<<"kb", n>> : n \in 1 .. keys.kb} \cup {<<"pad", n>> : n \in 1 .. keys.pad}
    \cup {<<"sig", n>> : n \in 1 .. keys.sig}
Waiting ==
  ToSet(chGet) \cup ToSet(worker.code) \cup UNION {ToSet(pads[i].code) : i \in DOMAIN pads}
    \cup (IF escMs # "none" THEN {known.esc} \cup ToSet(worker.escVal) ELSE {})
NoKeyLost == known.calm => PressedKeys \subseteq ToSet(KeysOf(gotKey)) \cup Waiting

(* A device is closed once and none stays open that nobody can close, but  *)
(* when two of them close at a time.                                       *)
DevicesClosed ==
  known.both \/ (~known.twice /\ files \subseteq {inputFD} \cup (IF Dropping THEN {chMain.fd} ELSE {}))

(* A program that has ended leaves the terminal as it was, but when the    *)
(* thread began later than that.                                           *)
TerminalRestored == chMain.pc = "gone" => tty = "cooked" \/ known.rawLate

ConsoleKept == EachKeyOnce /\ NoKeyLost /\ DevicesClosed /\ TerminalRestored
=============================================================================
