SPECIFICATION SessionSpec
CONSTANTS
  Sessions = {s1}
  CoreIds = {d1}
  Calls = {c1, c2}
  Tokens = {t1}
  MaxReads = 4
  Pipelining = FALSE
  None = None
INVARIANT NotAnothersAnswer
CHECK_DEADLOCK FALSE
