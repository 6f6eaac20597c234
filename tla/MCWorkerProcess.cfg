SPECIFICATION FairSpec
CONSTANTS
  Processes = {"api", "worker"}
  MaxTries = 6
  Etas = {0, 16, 30, 31, 32, 33}
  Recovery = 1
  Coroutines = {w1, w2}
  Jobs = {j1}
  NoJob = NoJob
  Faults = {"connect_error", "claim_error", "start_error", "listen_lost", "loop_error"}
INVARIANTS TypeOK NoLostWakeup NothingCutShort PatientStart
PROPERTIES DueJobTaken SigtermEndsProcess
CHECK_DEADLOCK FALSE
