\* Two workers, one user, two events that stay.
CONSTANTS
  Workers = {w1, w2}
  Users = {u1}
  None = None
  Events <- TwoEvents
  Intervals = {1, 2}
  MaxBehind = 2
  MaxElapsed = 2
  Ops = {"add", "exit"}
  MallocFails = TRUE
  MaxNodes = 2
  MaxClock = 3
  MaxCalls = 2
  f1 = f1
  f2 = f2
  d1 = d1
  d2 = d2
SYMMETRY WorkerSymmetry
SPECIFICATION Spec
INVARIANTS
  OneRunAtATime
  RunCntNotNegative
  
CHECK_DEADLOCK FALSE
