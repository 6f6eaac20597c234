SPECIFICATION Spec
CONSTANTS
  Jobs = {j1, j2}
  RetryLimits = {2}
  MetricsRequests = {r1}
  ScrapeRequests = {r2}
  ListRequests = {r2}
  Limits = {1}
  Offsets = {1}
SYMMETRY Symmetry
INVARIANTS TypeOK MetricsConsistent FinalGaugesLag PageNotEmpty
CHECK_DEADLOCK FALSE
