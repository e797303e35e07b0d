SPECIFICATION Spec
CONSTANTS
  Workers = {w1, w2}
  MaxFd = 5
  Arrivals = 3
  Files = {f1}
  Vanish = FALSE
  Late = TRUE
INVARIANT SoftQuitWaits
CHECK_DEADLOCK FALSE
