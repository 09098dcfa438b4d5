SPECIFICATION PhysSpec
CONSTANTS
  MemMaps <- MCMemMaps
  LowReserved = 8192
  Requests <- MCRequests
INVARIANTS
  PhysTypeOK
  NoDoubleGrant
  BitmapExact
  CountersExact
PROPERTY
  ImplementsPool
