CONSTANTS
  Keys = {k1}
  Callers = {c1, c2}
  Timeout = 2
  MaxFlights = 3
  MaxTime = 5
SPECIFICATION Spec
SYMMETRY Symmetry
INVARIANTS
  OneStatPerKey
  HungStatBurnsOneTimeout
CHECK_DEADLOCK FALSE
