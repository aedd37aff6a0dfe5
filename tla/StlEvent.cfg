\* Three threads; a manual event set when it is down, an auto reset event,
\* and a manual event that one thread shoots.
CONSTANTS
  Threads = {t1, t2, t3}
  None = None
  Cases <- UsualCases
  Timeouts = {2}
  SecTicks = 3
  MaxClock = 2
  MaxCalls = 3
  t1 = t1
  t2 = t2
  t3 = t3
SPECIFICATION FairSpec
INVARIANTS
  EventKept
PROPERTIES
  WaitersReturn
  ControlReturns
CHECK_DEADLOCK FALSE
