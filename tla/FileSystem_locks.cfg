SPECIFICATION ASpec
CONSTANTS
  Owners = {o1, o2, o3}
  Paths = {p1, p2, p3}
  NoOwner = NoOwner
  MaxFiles = 2
  MaxStorage = 3
  Sizes = {1}
  Policies = {"LRU", "FIFO"}
SYMMETRY Symmetry
INVARIANTS
  TypeOK
  LocksInLine
  WritableIsUntouched
  NobodyForgotten
  LocksAreKnown
PROPERTIES
  LocksAreQueues
  WriteComesFirst
