SPECIFICATION Spec
CONSTANTS
  Threads = {t1, t2, t3}
  Files = {f1, f2, f3}
  MaxFiles = 2
  Ops <- AllOps
  NoThread = NoThread
  NoFile = NoFile
SYMMETRY Symmetry
INVARIANTS
  TypeOK
  WritersAreAlone
  NoUseAfterFree
  NobodySleepsInVain
  FilesWithinLimit
