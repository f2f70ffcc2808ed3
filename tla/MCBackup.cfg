CONSTANTS
  Callers = {c1, c2}
  MaxRuns = 2
  MaxBackups = 1
  MaxCrashes = 0
  UserDeletes = TRUE
  DiskFaults = TRUE
  SameSecond = FALSE
SPECIFICATION Spec
SYMMETRY Symmetry
INVARIANTS
  SuccessIsValid
  SignalTracksRuns
  JoinedAtClose
CHECK_DEADLOCK FALSE
