SPECIFICATION Spec
CONSTANTS
  t1 = t1
  t2 = t2
  Threads <- Two
  Ops <- AllOps
  Keys = {4, 8}
  KEY_BUCKT = 2
  NumBuckets = 1
  MaxPuts = 3
SYMMETRY Symmetry
INVARIANTS
  TypeOK
  ReservationsOwned
  UniqueKeys
PROPERTIES
  ValidSlotsStand
  VersionTellsPuts
  Linearizable
