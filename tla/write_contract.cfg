SPECIFICATION DataSpec
CONSTANTS
  Names = {n1, n2}
  NoName = NoName
  NULL = NULL
  NumFiles = 2
  NumFds = 1
  NumBlocks = 2
  BlockSize = 2
  OffsetMod = 4
  MaxSize = 3
  MaxCount = 3
  Bytes = {x, y, z}
  Mark = y
  Zero = x
CONSTRAINT DataBounds
SYMMETRY NameSymmetry
PROPERTIES
  WriteFollowsHeader
