SPECIFICATION Spec
CONSTANTS
  Plans <- AllPlans
  MaxFiles = 2
  Capacity = 2
INVARIANTS
  TypeOK
  InStep
  AnswerBelieved
  OnlyWritersAreLeft
PROPERTIES
  WriteFollowsOpen
  CallsReturn
  ShutdownCompletes
CHECK_DEADLOCK FALSE
