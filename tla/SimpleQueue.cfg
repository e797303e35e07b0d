SPECIFICATION Spec
CONSTANTS
  Threads = {t1, t2, t3}
  Elements = {e1, e2}
  Ops <- AllOps
  NoThread = NoThread
  NoElement = NoElement
INVARIANTS
  NoUseAfterFree
  NobodySleepsInVain
PROPERTIES
  ImplementsMailbox
  EverybodyLeaves
