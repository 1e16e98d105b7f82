SPECIFICATION Spec
CONSTANTS
  t1 = t1
  t2 = t2
  t3 = t3
  Threads <- Two
  Ops <- AllOps
  Keys = {4, 8}
  Entries = 1
  InitBuckets = 1
  MaxPuts = 3
  MaxTables = 3
  MaxBuckets = 2
SYMMETRY Symmetry
INVARIANTS
  TypeOK
  UpdateExclusion
  UniqueKeys
  UpdatesHitCurrentTable
PROPERTIES
  MarksStay
  Linearizable
