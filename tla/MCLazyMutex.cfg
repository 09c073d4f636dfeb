SPECIFICATION FairSpec
CONSTANTS
  Threads = {main, t1, t2, t3}
  Main = main
INVARIANTS MutualExclusion NotOrphaned
PROPERTIES Progress Implements
