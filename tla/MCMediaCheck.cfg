CONSTANTS
  i1 = i1
  i2 = i2
  k1 = k1
  Items = {i1, i2}
  Keys = {k1}
  Unsteady = {k1}
  Refs <- MCRefs
  Disks <- MCDisks
  MaxCopies = 2
  MaxRuns = 2
SPECIFICATION FairSpec
INVARIANTS
  HealthAgreesWithMail
PROPERTIES
  VerdictsMatchDisk
  CleanMeansChecked
  RunsComplete
CHECK_DEADLOCK FALSE
