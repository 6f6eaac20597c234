SPECIFICATION FairSpec
CONSTANTS
  Workers = {w1, w2}
  NoWorker = NoWorker
  Jobs = {j1}
  NoJob = NoJob
  RetryLimits = {2}
  Plans = {"index"}
  Faults = {"kill", "shutdown", "stall", "lost_reply"}
  MaxHold = 6
INVARIANT ReplyOverrun
PROPERTIES KilledRunRecovered ShutdownDrains
CHECK_DEADLOCK FALSE
