SPECIFICATION StreamsSpec
CONSTANTS
  Conns <- Two
  Rows <- Two
  Groups <- TwoGroups
  ThroughputCap = 2
  MaxSubscribers = 2
  StreamScopes <- SmallStreams
  Callers <- Two
  Tokens <- Two
  Readers <- Two
  None = None
  SearchScopes <- SmallSearches
INVARIANTS StreamIsSound SearchesAreSound
PROPERTIES PageFollows SearchesEndWell
CHECK_DEADLOCK FALSE
