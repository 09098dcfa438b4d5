SPECIFICATION MountsSpec
CONSTANTS
  DiskSectors = 18432
  Word = 131072
  SizesMb = {4}
  Letters = {"C", "D"}
  FsTypes = {"ext2", "fat32"}
  Parts = {0, 1, 2, 3}
  Lbas = {2048, 10240}
  UserSlots = {0, 1}
  Overrides = {0, 1}
  Outcomes = {TRUE, FALSE}
  SaveOutcomes = {TRUE}
INVARIANTS
  MountsTypeOK
  AtMostOneMounted
PROPERTIES
  SwitchKeepsEntries
  LawfulConfig
