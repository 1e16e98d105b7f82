SPECIFICATION Spec
CONSTANTS
  t1 = t1
  t2 = t2
  t3 = t3
  Threads <- Two
  Ops <- ReadAndRemove
  Keys = {2, 3, 4}
  Entries = 2
  InitBuckets = 1
  MaxPuts = 3
  MaxTables = 3
  MaxBuckets = 4
INVARIANTS
  MapInv
PROPERTIES
  Linearizable
