SPECIFICATION SearchSpec
CONSTANTS
  k1 = k1
  k2 = k2
  k3 = k3
  d1 = d1
  d2 = d2
  n1 = n1
  n2 = n2
  n3 = n3
  n4 = n4
  n5 = n5
  NULL = NULL
  None = None
  Names <- NamesDef
  Datas <- DatasDef
  Hashes <- HashesDef
  BitAnd <- MCBitAnd
  Nels <- OddNels
  Nodes <- NodesDef
  Keys <- KeysDef
PROPERTY KeepsEntries
