CONSTANTS
  Callers = {c1, c2}
  MaxRuns = 2
  MaxBackups = 1
  MaxCrashes = 0
  UserDeletes = FALSE
  DiskFaults = FALSE
  SameSecond = FALSE
SPECIFICATION FairSpec
PROPERTIES
  CloseCompletes
  UploadsReported
CHECK_DEADLOCK FALSE
