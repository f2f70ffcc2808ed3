CONSTANTS
  Paths = {f1, f2}
  Triggers = {t1, t2}
  Readers = {r1}
  MaxRuns = 3
  MaxRestarts = 1
  Day = 12
  Default <- MCDefault
  Times = {"interval_seconds", "timeout_minutes"}
  Percentages = {}
  Unit <- MCUnit
  IntMax = 15
SPECIFICATION FairSpec
INVARIANTS
  DegradedMeansMailed
  GraceRunSilent
  SnapshotConsistent
PROPERTIES
  ImplementsPairing
  RunsComplete
CHECK_DEADLOCK FALSE
