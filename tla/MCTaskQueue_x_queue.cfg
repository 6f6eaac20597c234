SPECIFICATION FairSpec
CONSTANTS
  Workers = {w1, w2}
  NoWorker = NoWorker
  Jobs = {j1, j2}
  NoJob = NoJob
  RetryLimits = {2}
  Plans = {"index"}
  Faults = {"hang"}
  MaxHold = 6
PROPERTY NoHeadOfLineBlocking
CHECK_DEADLOCK FALSE
