SPECIFICATION Spec
CONSTANTS
  Names = {n1, n2}
  NoName = NoName
  NULL = NULL
  NumFiles = 2
  NumFds = 1
  NumBlocks = 2
  BlockSize = 1
  OffsetMod = 2
  MaxSize = 2
  MaxCount = 1
SYMMETRY NameSymmetry
PROPERTIES
  SeekGoesToOffset
