CONSTANTS
  Files <- OneFile
  None = None
  MaxTransferRetries = 1
  MaxInflightPerPeer = 1
  Native = FALSE
  Manual = TRUE
  MaxAttempts = 2
  MaxFaults = 1
SPECIFICATION FairSpec
PROPERTIES RowsEndRightly TransferSettles
