SPECIFICATION Spec
CONSTANTS
  Names = {n1, n2}
  NoName = NoName
  NULL = NULL
  NumFiles = 2
  NumFds = 1
  NumBlocks = 4
  BlockSize = 1
  OffsetMod = 4
  MaxSize = 3
  MaxCount = 3
CONSTRAINT OneSession
SYMMETRY NameSymmetry
INVARIANTS
  NoBlockLost
