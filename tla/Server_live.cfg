SPECIFICATION Spec
CONSTANTS
  Workers = {w1, w2}
  MaxFd = 4
  Arrivals = 2
  Files = {f1, f2}
  Vanish = FALSE
  Late = FALSE
INVARIANTS
  NobodyStranded
  SoftQuitWaits
PROPERTIES
  EveryRequestIsAnswered
  ServerStops
CHECK_DEADLOCK FALSE
