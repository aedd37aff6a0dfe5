\* The data belongs to the function (it may not).
CONSTANTS
  Workers = {w1, w2}
  Users = {u1}
  None = None
  Events <- TwoEvents
  Intervals = {1}
  MaxBehind = 7
  MaxElapsed = 100
  Ops = {"add", "del"}
  MallocFails = FALSE
  MaxNodes = 1
  MaxClock = 2
  MaxCalls = 3
  f1 = f1
  f2 = f2
  d1 = d1
  d2 = d2
SPECIFICATION Spec
INVARIANT CalledWithOwnData
CHECK_DEADLOCK FALSE
