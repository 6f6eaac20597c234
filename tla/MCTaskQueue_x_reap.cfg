SPECIFICATION Spec
CONSTANTS
  Workers = {w1, w2}
  NoWorker = NoWorker
  Jobs = {j1}
  NoJob = NoJob
  RetryLimits = {3}
  Plans = {"index"}
  Faults = {}
  MaxHold = 6
PROPERTY ReapsOnlyAbandoned
