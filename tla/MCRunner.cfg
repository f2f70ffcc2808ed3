CONSTANTS
  Procs = {p1, p2, p3}
  Closers = {k1, k2}
SPECIFICATION FairSpec
INVARIANTS
  SingleFlight
  CloseJoins
PROPERTIES
  NoAddFromZeroAfterClose
  ImplementsGate
  CloseReturns
CHECK_DEADLOCK FALSE
