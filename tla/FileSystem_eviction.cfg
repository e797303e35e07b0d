SPECIFICATION Spec
CONSTANTS
  Owners = {o1, o2}
  Paths = {p1, p2, p3, p4}
  NoOwner = NoOwner
  MaxFiles = 3
  MaxStorage = 3
  Sizes = {1, 2}
  Policies = {"LRU", "FIFO"}
SYMMETRY Symmetry
INVARIANT BooksBalance
PROPERTY EvictsLastAndFew
