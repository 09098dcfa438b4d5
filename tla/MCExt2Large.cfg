SPECIFICATION TreeSpec
CONSTANTS
  A = A
  B = B
  FirstDataBlock = 1
  BlocksPerGroup = 8
  InodesPerGroup = 3
  InodeTableBlocks = 1
  DescsPerBlock = 2
  ReservedInodes = 2
  DirectBlocks = 1
  PtrsPerBlock = 2
  DirUnits = 3
  Totals = {14}
  Names <- MCNames
  Texts = {"t"}
  Sizes = {1, 2, 4}
  Careless = {"large"}
SYMMETRY Symmetry
VIEW View
INVARIANTS
  OneOwner
