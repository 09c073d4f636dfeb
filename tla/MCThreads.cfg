\* The process ends: exit, abort, or no thread left.
SPECIFICATION FairSpec
CONSTANTS
  Threads = {main, t1, t2}
  Main = main
  Results = {r}
  None = None
INVARIANTS HandleValid JoinGivesResult CanaryAgrees ObjectReclaimed
PROPERTIES JoinReturns
CHECK_DEADLOCK FALSE
