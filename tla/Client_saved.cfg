SPECIFICATION Spec
CONSTANTS
  Plans <- ReadPlans
  MaxFiles = 2
  Capacity = 2
INVARIANT SavedWasRead
CHECK_DEADLOCK FALSE
