\* Every thread may have ended.
SPECIFICATION Spec
CONSTANTS
  Threads = {main, t1}
  Main = main
  EarlyInit = TRUE
  FirstCapacity = 1
  MaxKeys = 2
  Dtors = {d}
  Values = {v}
INVARIANTS KeysUnique IndexesInBounds GetReturnsSet DtorRegistered DtorsRun
PROPERTY UsesLazyMutex
CHECK_DEADLOCK FALSE
