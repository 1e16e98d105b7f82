SPECIFICATION Spec
CONSTANTS
  t1 = t1
  t2 = t2
  Threads <- Two
  Ops <- AllOps
  Keys = {1, 2}
  KEY_BUCKT = 1
  InitBuckets = 1
  Retries = 0
  PercHalve = 2
  MaxPuts = 3
  MaxTables = 2
INVARIANTS
  MaxMeansNoUpdate
