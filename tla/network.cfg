SPECIFICATION NetworkSpec
CONSTANTS
  Users = {u}
  Messages = {m1, m2}
  Ports <- TwoPorts
  QueueSize = 1
  Focus <- Works
  MaxGen = 2
  MaxMoves = 1
  MaxScans = 2
  MaxAsks = 2
  Attempts <- Three
  Casts <- SmallCasts
  Slots = 1
  Parents = {p, q}
  Kids = {c, d}
  None = None
  Me = Me
  Far = Far
  MaxCapacity = 1
  Scopes <- SmallScopes
  p = p
  q = q
  c = c
  d = d
INVARIANTS LinkIsSound SessionsAreSound TreeIsSound
PROPERTIES LinkFollows StopEnds
CHECK_DEADLOCK FALSE
