\* The interval is exact (it is not).
CONSTANTS
  Workers = {w1, w2}
  Users = {u1}
  None = None
  Events <- OneEvent
  Intervals = {1}
  MaxBehind = 7
  MaxElapsed = 100
  Ops = {"add"}
  MallocFails = FALSE
  MaxNodes = 1
  MaxClock = 3
  MaxCalls = 1
  f1 = f1
  f2 = f2
  d1 = d1
  d2 = d2
SPECIFICATION Spec
INVARIANT IntervalExact
CHECK_DEADLOCK FALSE
