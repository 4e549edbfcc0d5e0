CONSTANTS
  Jobs = {j1}
  ManualJobs = {}
  Unidentified = {}
  Candidates = {c1, c2, c3}
  Peers = {p1, p2}
  Files = {f1}
  MaxActive = 1
  MaxRetries = 2
  MaxCandidates = 2
  None = None
SPECIFICATION Spec
SYMMETRY RowSymmetry
INVARIANTS TypeOK ActiveCandidate RefusedRevivable
PROPERTIES StoppedJobsStay RejectionsHonoured
