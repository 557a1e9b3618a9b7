SPECIFICATION Spec
CONSTANTS
  k1 = k1
  k2 = k2
  k3 = k3
  r1 = r1
  r2 = r2
  r3 = r3
  a = a
  b = b
  Keys <- MCKeys
  Requests <- MCRequests
  Items <- MCItems
  MaxLength = 2
  Capacity = 2
  EvictBatch = 2
  MaxRevision = 5
SYMMETRY Symmetry
INVARIANTS
  LedgerSound
PROPERTIES
  DeletedNotRestored
  NoTurnLost
CHECK_DEADLOCK FALSE
