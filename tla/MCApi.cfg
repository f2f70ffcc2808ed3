CONSTANTS
  Requests = {1, 2, 3, 4}
  Keys = {k1}
  Hosts = {h1}
  Limit = 1
  Window = 2
  Second = 1
  CleanupMin = 2
  MaxStall = 2
  MaxTime = 6
  Entities = {e1}
  WriteTimeout = 1
  UploadReadTimeout = 3
  MaxAeron = 2
  MaxFlips = 1
  MaxPublishes = 2
  MaxAges = 1
  Workloads <- AllWorkloads
SPECIFICATION FairSpec
INVARIANTS
  BudgetPerWindow
  RefusalsJustified
  AnswerTrue
  CountsAgree
  ImageKept
PROPERTIES
  StaleRefreshed
CHECK_DEADLOCK FALSE
