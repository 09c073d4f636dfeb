\* Every call ends.
SPECIFICATION Spec
CONSTANTS
  Alphabet <- AlphabetDef
  Word <- WordDef
  IntMax = 127
  Chunk = 2
  Calls <- CallsDef
INVARIANTS StringResult FileResult
CHECK_DEADLOCK FALSE
