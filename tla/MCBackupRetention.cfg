CONSTANTS
  Callers = {c1}
  MaxRuns = 3
  MaxBackups = 2
  MaxCrashes = 1
  UserDeletes = FALSE
  DiskFaults = FALSE
  SameSecond = TRUE
SPECIFICATION Spec
INVARIANTS
  OrphansExplained
  RemoteValidated
PROPERTIES
  ValidLostOnlyByDelete
  NeverLosesLastBackup
  RetentionBound
CHECK_DEADLOCK FALSE
