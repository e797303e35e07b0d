SPECIFICATION Spec
CONSTANTS
  INITIAL_LOG_SIZE = 60
  MEDIUM_LOG_SIZE = 100
  MAX_LOG_SIZE = 300
  Grown <- MCGrown
  Workers = {w1, w2}
  Main = main
  Handler = handler
  Lengths = {1, 40, 400}
  Messages = 1
SYMMETRY Symmetry
INVARIANTS BufferFits LoggerIsThere LoggedIsOnFile
