SPECIFICATION Spec
CONSTANTS
  Threads = {t1, t2, t3}
  Files = {f1, f2}
  MaxFiles = 2
  Ops = {"open", "read", "append", "remove", "evictClient"}
  NoThread = NoThread
  NoFile = NoFile
PROPERTIES
  ImplementsFileAccess
  EveryCallReturns
