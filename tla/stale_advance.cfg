CONSTANTS
  Jobs = {j1}
  ManualJobs = {}
  Unidentified = {}
  Candidates = {c1, c2}
  Peers = {p1}
  Files = {f1}
  MaxActive = 1
  MaxRetries = 2
  MaxCandidates = 1
  None = None
SPECIFICATION Spec
INVARIANT ImportingIsComplete
