SPECIFICATION Spec
CONSTANTS
  Workers = {w1, w2}
  NoWorker = NoWorker
  Jobs = {j1, j2}
  NoJob = NoJob
  RetryLimits = {2}
  Plans = {"index", "sort"}
  Faults = {}
  MaxHold = 2
SYMMETRY Symmetry
INVARIANTS TypeOK MutualExclusion RecordCurrent
PROPERTY ImplementsLifecycle
CHECK_DEADLOCK FALSE
