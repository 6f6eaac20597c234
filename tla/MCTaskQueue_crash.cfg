SPECIFICATION Spec
CONSTANTS
  Workers = {w1, w2}
  NoWorker = NoWorker
  Jobs = {j1}
  NoJob = NoJob
  RetryLimits = {0, 2}
  Plans = {"index", "sort"}
  Faults = {"kill", "stall", "hang", "spin", "db_error", "shutdown", "beat_loop"}
  MaxHold = 2
SYMMETRY Symmetry
INVARIANTS MutualExclusion DeadLettersAgree 
PROPERTIES TerminalIsFinal ImplementsLifecycle
CHECK_DEADLOCK FALSE
