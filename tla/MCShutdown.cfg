CONSTANTS
  Requests = {q1}
  MaxStarts = 1
SPECIFICATION FairSpec
INVARIANTS
  JoinedBeforeDbClose
  LateWorkExplained
  RunMailsKept
PROPERTIES
  TimeoutsEarned
  Stops
CHECK_DEADLOCK FALSE
