SPECIFICATION FleetSpec
CONSTANTS
  Sessions = {s1}
  CoreIds = {d1}
  Calls = {}
  Tokens = {}
  MaxReads = 2
  Pipelining = FALSE
  None = None
  Workers = {w1}
  MaxTasks = 3
  MaxCrashes = 1
PROPERTIES PoolAnswers LostTasksFreed SessionEnds
CHECK_DEADLOCK FALSE
