SPECIFICATION ConfigSpec
CONSTANTS
  Letters = {C, D}
  FsTypes = {ext2}
  Parts = {0, 1, 2, 3}
  Lbas = {2048}
INVARIANTS
  ConfigTypeOK
  OneEntryPerPartition
  MemoryMatchesDisk
PROPERTY
  AddKeepsOthers
