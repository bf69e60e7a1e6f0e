SPECIFICATION Spec
CONSTANTS
  Sessions = {s1, s2}
  CoreIds = {d1}
  Calls = {}
  Tokens = {}
  MaxReads = 3
  Pipelining = FALSE
  None = None
INVARIANT OnlineIsRegistered
CHECK_DEADLOCK FALSE
