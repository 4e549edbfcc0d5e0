CONSTANTS
  Jobs = {j1}
  ManualJobs = {}
  Unidentified = {}
  Candidates = {c1}
  Peers = {p1}
  Files = {f1, f2}
  MaxActive = 1
  MaxRetries = 1
  MaxCandidates = 1
  None = None
SPECIFICATION FairSpec
INVARIANT DownloadIsWhole
PROPERTIES CancellationBarrier FailedDownloadLeaves
