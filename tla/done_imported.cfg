SPECIFICATION FilesSpec
CONSTANTS
  Keys = {k1}
  Tokens = {1, 2}
  Size = 2
  Scopes <- Orderly
  MaxTransfers = 2
  MaxConns = 2
  MaxOffers = 2
  Jobs = {own, manual}
  Manual = {manual}
  Leaves = {"L", ".failed"}
  FailedDir = ".failed"
  RefusedDir = "_import_rejected"
  None = None
  ImportScopes <- SmallImports
  own = own
  manual = manual
INVARIANT DoneIsImported
CHECK_DEADLOCK FALSE
