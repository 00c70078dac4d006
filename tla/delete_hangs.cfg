SPECIFICATION FairSpec
CONSTANTS
  Names = {n1, n2}
  NoName = NoName
  NULL = NULL
  NumFiles = 2
  NumFds = 1
  NumBlocks = 5
  BlockSize = 1
  OffsetMod = 4
  MaxSize = 2
  MaxCount = 2
CONSTRAINT OneSession
PROPERTIES
  DeleteReturns
