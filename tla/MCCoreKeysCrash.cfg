SPECIFICATION CoreKeysSpec
CONSTANTS
  Lookups = {l1, l2}
  Keys = {k1}
  MaxFaults = 1
  Blank = Blank
  Mixed = Mixed
  None = None
INVARIANT KeyQuarantined
CHECK_DEADLOCK FALSE
