\* Log file: two threads of one process and one of another, four lines.
\* Pid lock: two processes of a program, three numbers.
\* Threads: a table of two, three starts.  Events: two users, a vector of two
\* that grows to five.  Ports: the three threads, two ports.
\* Ini file: the three threads, two calls each or less, one fault.
\* Console: up to five keys, one device, one Ctrl-C.  Files: two users, two
\* calls each or less, one fault.  Strings: two threads, two strings, four calls.
CONSTANTS
  Procs = {1, 2}
  Writers <- ThreeThreads
  RotSize = 1
  CountModes = {TRUE, FALSE}
  MaxLines = 4
  Tries = 2
  MaxFaults = 1
  Apps = {1, 2}
  PidNumbers = {1, 2, 3}
  MaxAppStarts = 4
  MaxThread = 2
  Pids = {1, 2}
  MaxStarts = 3
  MaxNames = 1
  EtUsers = {a, b}
  FirstSize = 2
  MaxSize = 5
  MaxEtCalls = 3
  SpThreads <- ThreeThreads
  Ports = {"USB0", "S0"}
  UsbPorts = {"USB0"}
  MaxFd = 2
  MaxPortOpens = 3
  MaxDeaths = 1
  IniThreads <- ThreeThreads
  Sections = {"s", "t"}
  Items = {"x", "y"}
  IniValues = {"1"}
  FirstFiles <- SomeFiles
  MaxIniCalls = 2
  MaxIniFaults = 1
  Cases <- SomeCases
  FileUsers = {"u", "v"}
  Dirs <- TwoDirs
  FileNames <- OneName
  Patterns <- TwoPatterns
  MaxFileCalls = 2
  MaxFileFaults = 1
  MaxRemoves = 1
  StringUsers = {1, 2}
  StringNames = {"s", "t"}
  MaxStringCalls = 4
  MaxShared = 4
SPECIFICATION AllSpec
INVARIANTS
  
  
  ThreadsAreOwn
  HandlesAreOwn
  
  
  ConsoleAndFilesKept
  SharedStringsKept
CHECK_DEADLOCK FALSE
