CONSTANTS
  Signals = {s1, s2}
  DbHealth = s2
  Reports <- MCReports
  Reporters = {r1, r2}
  MaxMails = 4
  BloatThreshold = 10
  DeadTupleThreshold = 5
  VacuumStalenessDays = 7
  MinRowsForRecommendation = 10
  ToastSizeWarning = 100
  StaleStatsThreshold = 10
  SeqScanRatioThreshold = 10
  ConnectionUsageThreshold = 80
  MinSeqScans = 10
SPECIFICATION FairSpec
INVARIANTS
  FlagMatchesMails
  MaintenanceMailed
PROPERTY
  MailsEnd
CHECK_DEADLOCK FALSE
