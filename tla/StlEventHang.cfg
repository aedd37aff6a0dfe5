\* One thread sets, shoots and resets a manual event.
CONSTANTS
  Threads = {t1, t2, t3}
  None = None
  Cases <- OneThread
  Timeouts = {2}
  SecTicks = 3
  MaxClock = 0
  MaxCalls = 3
  t1 = t1
  t2 = t2
  t3 = t3
SPECIFICATION FairSpec
PROPERTIES
  ControlReturns
CHECK_DEADLOCK FALSE
