SPECIFICATION FleetSpec
CONSTANTS
  Sessions = {s1, s2}
  CoreIds = {d1}
  Calls = {}
  Tokens = {}
  MaxReads = 1
  Pipelining = FALSE
  None = None
  Workers = {w1}
  MaxTasks = 6
  MaxCrashes = 0
SYMMETRY SessionSymmetry
INVARIANT LoadIsAwaited
CHECK_DEADLOCK FALSE
