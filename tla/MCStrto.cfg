\* Every call ends.
SPECIFICATION Spec
CONSTANTS
  Max = 31
  Strings <- StringsDef
  Bases <- BasesDef
INVARIANTS TypeOK ReturnsValue ReadsWhole
CHECK_DEADLOCK FALSE
