SPECIFICATION Spec
CONSTANTS
  Sessions = {s1, s2}
  CoreIds = {d1, d2}
  Calls = {c1}
  Tokens = {t1}
  MaxReads = 3
  Pipelining = FALSE
  None = None
INVARIANTS TypeOK Tracked OneVerdict StoppedIsQuiet
PROPERTIES ImplementsLifecycle
SYMMETRY Symmetry
CHECK_DEADLOCK FALSE
