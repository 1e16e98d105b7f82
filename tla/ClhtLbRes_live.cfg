SPECIFICATION FairSpec
CONSTANTS
  t1 = t1
  t2 = t2
  t3 = t3
  Threads <- Three
  Ops <- OpsOfThree
  Keys = {4, 8}
  Entries = 1
  InitBuckets = 1
  MaxPuts = 2
  MaxTables = 3
  MaxBuckets = 2
PROPERTIES
  CallsReturn
  Linearizable
