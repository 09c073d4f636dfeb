\* Every thread may have ended.
SPECIFICATION Spec
CONSTANTS
  Threads = {main, t1}
  Main = main
  EarlyInit = FALSE
  FirstCapacity = 1
  MaxKeys = 2
  Dtors = {d}
  Values = {v}
INVARIANT KeysUnique
CHECK_DEADLOCK FALSE
