CONSTANTS
  Jobs = {m1, m2}
  ManualJobs = {m1, m2}
  Unidentified = {m2}
  Candidates = {c1, c2}
  Peers = {p1}
  Files = {f1}
  MaxActive = 2
  MaxRetries = 1
  MaxCandidates = 1
  None = None
SPECIFICATION Spec
SYMMETRY RowSymmetry
INVARIANT ManualKeepsItsPeer
