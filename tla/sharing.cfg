SPECIFICATION SharingSpec
CONSTANTS
  Users = {u1, u2}
  Names = {f1}
  Slots = 1
  MaxWaiting = 2
  MaxPerUser = 1
  MaxSize = 1
  StrikeLimit = 2
  MaxJobs = 3
  MaxRuns = 2
  MaxScans = 1
  Files <- TwoFiles
  Audio <- OnlyM
  Odd <- OnlyN
  None = None
  ShareScopes <- SmallShares
  Gram = 2
  Lookups <- SmallLookups
  Requests <- FourRequests
  Deliveries <- SmallDeliveries
INVARIANTS UploadsAreSound SharesAreSound LookupsAreComplete
PROPERTIES RequestsAreServed SharesGoForward DeliveriesAreSound
CHECK_DEADLOCK FALSE
