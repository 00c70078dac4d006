SPECIFICATION Spec
CONSTANTS
  Names = {n1, n2}
  NoName = NoName
  NULL = NULL
  NumFiles = 2
  NumFds = 2
  NumBlocks = 4
  BlockSize = 2
  OffsetMod = 4
  MaxSize = 5
  MaxCount = 3
CONSTRAINT OneSession
SYMMETRY NameSymmetry
INVARIANTS
  ChainsIntact
  NoLossWhileReserved
  ShortWriteOnlyWhenFull
PROPERTIES
  ChainsStable
  ImplementsNamespace
