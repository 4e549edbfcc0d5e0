CONSTANTS
  Files <- TwoFiles
  None = None
  MaxTransferRetries = 1
  MaxInflightPerPeer = 1
  Native = TRUE
  Manual = FALSE
  MaxAttempts = 1
  MaxFaults = 1
SPECIFICATION Spec
INVARIANT BudgetsHold
PROPERTY DisownedWasAbsent
