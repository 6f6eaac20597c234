SPECIFICATION Spec
CONSTANTS
  Workers = {w1, w2, w3}
  NoWorker = NoWorker
  Jobs = {j1}
  NoJob = NoJob
  RetryLimits = {4}
  Plans = {"index"}
  Faults = {"session", "stall"}
  MaxHold = 6
SYMMETRY Symmetry
INVARIANTS MutualExclusion SessionOverrun
CHECK_DEADLOCK FALSE
