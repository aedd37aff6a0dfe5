------------------------------ MODULE MCDaemon ------------------------------
(* Instances for TLC of what the threads and processes of a program share: *)
(* the log file (LogFile), the pid lock (PidLock), the table of threads    *)
(* (ThreadTable), the table of events (EventTable), the serial ports       *)
(* (SerialPort), the ini file (IniFile), the console (Console), files and  *)
(* directories (FileTree) and strings (StringLocks).  These share no state *)
(* among each other: part is the one that moves, and the others stay as    *)
(* they begin (in one of their initial states, so that none is explored    *)
(* twice).                                                                 *)
EXTENDS LogFile, PidLock, ThreadTable, EventTable, SerialPort, IniFile, Console,
        FileTree, StringLocks

(* Two threads of one process and one of another.                          *)
ThreeThreads == {<<1, 1>>, <<1, 2>>, <<2, 1>>}

(* No file, or one with an item twice, in a section that is there twice.   *)
SomeFiles ==
  {<< >>, << <<Header("s"), Item("x", "0"), Header("s"), Item("x", "1"),
              Header("t"), Item("y", "0")>> >>}

(* Keys that follow an escape, with Ctrl-C, and of a device that is opened *)
(* once or twice.                                                          *)
Case(t, p, s, o) == [typed |-> t, pads |-> p, signals |-> s, opens |-> o]
SomeCases ==
  {Case(<<"ESC", "key", "digit", "digit", "key">>, 0, 0, 0), Case(<<"ESC", "key", "key">>, 0, 1, 0),
   Case(<<"ESC">>, 1, 0, 1), Case(<< >>, 0, 0, 2)}

(* A file f, in a directory a or in one below it, b.                       *)
OneName == {<<102>>}
TwoDirs == {<<<<97>>>>, <<<<97>>, <<98>>>>}
TwoPatterns == {<<STAR>>, <<102>>}

VARIABLE part

AllInit ==
  /\ part \in {"log file", "pid lock", "threads", "events", "ports", "ini", "console", "files", "strings"}
  /\ LfInit
  /\ part # "log file" => numbered
  /\ PlInit
  /\ part # "pid lock" => lockFile = Absent /\ strangers = {}
  /\ TtInit /\ EtInit /\ SpInit /\ IniInit
  /\ part # "ini" => iniDisk["ini"] = << >>
  /\ CnInit /\ FtInit /\ LkInit
  /\ part # "console" => case = Case(<< >>, 0, 0, 2)

logging == <<lfVars, plVars>>
tables == <<ttVars, etVars, spVars>>
rest == <<cnVars, ftVars, lkVars>>

AllNext ==
  \/ part = "log file" /\ LfNext /\ UNCHANGED <<part, plVars, tables, iniVars, rest>>
  \/ part = "pid lock" /\ PlNext /\ UNCHANGED <<part, lfVars, tables, iniVars, rest>>
  \/ part = "threads" /\ TtNext /\ UNCHANGED <<part, logging, etVars, spVars, iniVars, rest>>
  \/ part = "events" /\ EtNext /\ UNCHANGED <<part, logging, ttVars, spVars, iniVars, rest>>
  \/ part = "ports" /\ SpNext /\ UNCHANGED <<part, logging, ttVars, etVars, iniVars, rest>>
  \/ part = "ini" /\ IniNext /\ UNCHANGED <<part, logging, tables, rest>>
  \/ part = "console" /\ CnNext /\ UNCHANGED <<part, logging, tables, iniVars, ftVars, lkVars>>
  \/ part = "files" /\ FtNext /\ UNCHANGED <<part, logging, tables, iniVars, cnVars, lkVars>>
  \/ part = "strings" /\ LkNext /\ UNCHANGED <<part, logging, tables, iniVars, cnVars, ftVars>>

(* What the parts keep; only the one that moves can break it.              *)
(* Lines and files of a log are kept in order.                             *)
LogFilesKept == part = "log file" => LogKept

(* Values of an ini file survive faults and other writers.                 *)
IniFileKept == part = "ini" => IniKept

(* Keys reach one reader, and data files stay whole.                       *)
ConsoleAndFilesKept ==
  /\ part = "console" => ConsoleKept
  /\ part = "files" => DirectoriesKept

AllSpec == AllInit /\ [][AllNext]_<<part, logging, tables, iniVars, rest>>
=============================================================================
