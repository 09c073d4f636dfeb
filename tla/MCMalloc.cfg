SPECIFICATION Spec
CONSTANTS
  Threads = {main, t1}
  Main = main
  M = 16
  H = 1
  Start = 1
  Limit = 9
  Sizes = {1, 2}
INVARIANTS BlocksDisjoint MetaIntact CallocZeroed ReallocKeeps
PROPERTIES NothingUnmapped UsesLazyMutex
