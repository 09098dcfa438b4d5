SPECIFICATION CarefulSpec
CONSTANTS
  A = A
  B = B
  TotalClusters = 4
  SlotsPerCluster = 2
  Names <- MCNames
  Texts = {"t"}
  Sizes = {0, 1}
SYMMETRY Symmetry
INVARIANTS
  Fat32TypeOK
  NoCrossLinks
  PathLeadsHere
PROPERTIES
  OthersSurvive
  WrittenReadsBack
