SPECIFICATION Spec
CONSTANTS
  Sessions = {s1}
  CoreIds = {d1}
  Calls = {}
  Tokens = {}
  MaxReads = 3
  Pipelining = FALSE
  None = None
INVARIANT EndsClassified
CHECK_DEADLOCK FALSE
