SPECIFICATION Spec
CONSTANTS
  t1 = t1
  t2 = t2
  Threads <- Two
  Ops <- AllOps
  Keys = {4, 8}
  Variants = {"lb", "packed", "lock_ins"}
  ENTRIES_PER_BUCKET = 1
  MaxBuckets = 3
  MaxPuts = 3
SYMMETRY Symmetry
INVARIANTS
  TypeOK
  UniqueKeys
  Packed
PROPERTIES
  UpdatesLinearizable
