SPECIFICATION LibrarySpec
CONSTANTS
  Items <- MCItems
  Rank <- MCRank
  MaxCount = 5
  Size = 5
  Letters <- MCLetters
  NoText = NoText
  ModeLetters <- MCModeLetters
  MaxMode = 4
  e1 = e1
  e2 = e2
  e3 = e3
  e4 = e4
  Elements = {e1, e2, e3, e4}
  NoElement = NoElement
  Junk = Junk
SYMMETRY Symmetry
INVARIANTS
  QsortSorts
  SearchFinds
  StringsRight
  ModeMeans
  Linked
PROPERTIES
  KeepsChain
  CutsTokens
CHECK_DEADLOCK FALSE
