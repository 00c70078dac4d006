SPECIFICATION MountSpec
CONSTANTS
  Hosts = {h1, h2}
  INVALID_FD = INVALID_FD
  MaxHostFds = 2
  EntriesPerBlock = 5
  NumFiles = 1
  NameEntries = 1
  PadEntries = 1
  NoName = "none"
  Signature = "ECS150FS"
  FatName = "fat"
  Junk = 777
  HostFiles <- MCHostFiles
  Samples <- MCSamples
CONSTRAINTS OneLargeDisk FewEntries DataBlocksKept
SYMMETRY HostSymmetry
INVARIANTS
  MountTypeOK
  FlagFollowsDevice
  DiskHoldsSaved
  MountLoadsSaved
PROPERTIES
  WritesStayInVolume
