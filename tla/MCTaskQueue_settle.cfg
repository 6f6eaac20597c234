SPECIFICATION FairSpec
CONSTANTS
  Workers = {w1, w2}
  NoWorker = NoWorker
  Jobs = {j1}
  NoJob = NoJob
  RetryLimits = {0, 3}
  Plans = {"index"}
  Faults = {"stall"}
  MaxHold = 6
PROPERTY EveryJobSettles
