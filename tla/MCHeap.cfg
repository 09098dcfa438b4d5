SPECIFICATION HeapSpec
CONSTANTS
  MemMaps <- MCMemMaps
  LowReserved = 4096
  Requests <- MCRequests
  MinRegionPages = 2
  MaxU32 = 65535
  WordSize = 262144
  HeapSizes <- MCHeapSizes
  CallocCounts = {5}
  DmaSizes = {0, 4097}
INVARIANTS
  HeapTypeOK
  BlocksWellLaidOut
  PagesAccounted
  HintValid
  StatisticsExact
PROPERTIES
  ImplementsLiveBlocks
  LawfulClient
