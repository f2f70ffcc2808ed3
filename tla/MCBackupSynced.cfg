CONSTANTS
  Callers = {c1}
  MaxRuns = 2
  MaxBackups = 1
  MaxCrashes = 0
  UserDeletes = FALSE
  DiskFaults = FALSE
  SameSecond = FALSE
SPECIFICATION Spec
INVARIANTS
  SyncedMeansUploaded
CHECK_DEADLOCK FALSE
