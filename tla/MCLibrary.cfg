SPECIFICATION LibrarySpec
CONSTANTS
  Types <- MCTypes
  Ids <- MCIds
  Tokens <- MCTokens
  Options <- MCOptions
  Payloads <- MCPayloads
  Noise <- MCNoise
  Block = 3
  Plains <- MCPlains
  Pems = {p1, p2, p3, bad}
  BadPems = {bad}
  LRU_MAX = 2
  Base = 3
  Bodies <- MCBodies
  MaxFrames = 3
  IdSpace = 2
  MaxBlocks = 2
  MaxUp = 3
  MaxDown = 4
  Lookups = {l1, l2, l3}
  Keys = {k1, k2}
  MaxFaults = 1
  Blank = Blank
  Mixed = Mixed
  Null = Null
  Nothing = Nothing
  Unset = Unset
  Absent = Absent
  None = None
INVARIANTS
  RoundTrip DecodeExact Recovers KeepsMostRecent AnswersWithItsKey
  ReadersAgree ChainTypeOK InboundClean OutboundHeals IdsFresh
  CoreKeysTypeOK FailsClosed KeptKey LeavesEvidence OneKeyAccepted
PROPERTIES FramesArrive ImplementsStream
CHECK_DEADLOCK FALSE
