SPECIFICATION SessionSpec
CONSTANTS
  Sessions = {s1}
  CoreIds = {d1}
  Calls = {}
  Tokens = {}
  MaxReads = 3
  Pipelining = TRUE
  None = None
INVARIANT CloseOnce
CHECK_DEADLOCK FALSE
