SPECIFICATION Spec
CONSTANTS
  Names = {n1, n2}
  NoName = NoName
  NULL = NULL
  NumFiles = 2
  NumFds = 2
  NumBlocks = 3
  BlockSize = 1
  OffsetMod = 2
  MaxSize = 1
  MaxCount = 1
SYMMETRY NameSymmetry
INVARIANTS
  RoomToOpen
