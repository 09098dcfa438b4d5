SPECIFICATION MbrSpec
CONSTANTS
  DiskSectors = 16384
  Word = 131072
  SizesMb <- MCSizes
INVARIANTS
  MbrTypeOK
  PartitionsOnDisk
