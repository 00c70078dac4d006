SPECIFICATION ToolSpec
CONSTANTS
  Names = {n1, n2}
  NoName = NoName
  NULL = NULL
  NoTool = NoTool
  NumFiles = 2
  NumFds = 1
  NumBlocks = 3
  BlockSize = 1
  OffsetMod = 2
  MaxSize = 2
  MaxCount = 2
CONSTRAINTS ScriptsOnSoundDisks ScriptsClose
INVARIANTS
  TypeOK
  OpenFilesExist
PROPERTIES
  ImplementsNamespace
  NothingUnsaved
  CommandsEnd
