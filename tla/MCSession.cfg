SPECIFICATION FairSessionSpec
CONSTANTS
  Sessions = {s1}
  CoreIds = {d1}
  Calls = {c1, c2}
  Tokens = {t1, t2}
  MaxReads = 5
  Pipelining = FALSE
  None = None
INVARIANTS SessionTypeOK CloseOnce CallsSound
PROPERTIES CallSettles SessionEnds RunReturns
CHECK_DEADLOCK FALSE
