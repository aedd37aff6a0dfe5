\* What is due is run and every call returns, when memory does not run out.
CONSTANTS
  Workers = {w1, w2}
  Users = {u1}
  None = None
  Events <- OneEvent
  Intervals = {1}
  MaxBehind = 2
  MaxElapsed = 2
  Ops = {"add", "del", "set"}
  MallocFails = FALSE
  MaxNodes = 1
  MaxClock = 2
  MaxCalls = 3
  f1 = f1
  f2 = f2
  d1 = d1
  d2 = d2
SPECIFICATION FairSpec
PROPERTIES
  DueIsRun
  
CHECK_DEADLOCK FALSE
