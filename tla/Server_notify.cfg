SPECIFICATION Spec
CONSTANTS
  Workers = {w1, w2}
  MaxFd = 5
  Arrivals = 3
  Files = {f1}
  Vanish = TRUE
  Late = FALSE
SYMMETRY Symmetry
INVARIANT NobodyStranded
CHECK_DEADLOCK FALSE
