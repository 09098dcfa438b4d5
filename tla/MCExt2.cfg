SPECIFICATION TreeSpec
CONSTANTS
  A = A
  B = B
  FirstDataBlock = 1
  BlocksPerGroup = 8
  InodesPerGroup = 3
  InodeTableBlocks = 1
  DescsPerBlock = 2
  ReservedInodes = 2
  DirectBlocks = 1
  PtrsPerBlock = 2
  DirUnits = 3
  Totals = {14, 17}
  Names <- MCNames
  Texts = {"t", "u"}
  Sizes = {0, 1, 2, 4}
  Careless = {}
SYMMETRY Symmetry
VIEW View
CONSTRAINTS
  OneNameOnLarge
  SecondTextShort
INVARIANTS
 Ext2TypeOK
 OneOwner
 CountersExact
 PathLeadsHere
PROPERTIES
 ImplementsFileTree
