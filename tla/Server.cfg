SPECIFICATION Spec
CONSTANTS
  Workers = {w1, w2}
  MaxFd = 5
  Arrivals = 3
  Files = {f1}
  Vanish = TRUE
  Late = TRUE
SYMMETRY Symmetry
INVARIANTS
  OnePlaceAtATime
  ClosedIsForgotten
  AnswersAreAwaited
  CountIsRight
  EverybodyIsHeard
PROPERTIES
  LocksAreQueues
CHECK_DEADLOCK FALSE
