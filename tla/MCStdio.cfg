SPECIFICATION Spec
CONSTANTS
  Threads = {t1, t2}
  Names = {n1}
  Streams = {f1, f2}
  Standard <- MCStandard
  Fds <- MCFds
  a = a
  b = b
  nl = nl
  Bytes = {a, b, nl}
  Newline = nl
  Zero = zero
  MaxLen = 3
  ModeStrings <- MCModes
  Texts <- MCTexts
  Counts = {1, 2, 3}
INVARIANTS
  ReadsInOrder
  WritesInOrder
  StreamsOwnFds
SYMMETRY Sym
