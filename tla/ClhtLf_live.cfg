SPECIFICATION FairSpec
CONSTANTS
  t1 = t1
  t2 = t2
  Threads <- Two
  Ops <- PutsAndRemoves
  Keys = {4, 8}
  KEY_BUCKT = 2
  NumBuckets = 1
  MaxPuts = 3
INVARIANTS
  IndInv
PROPERTIES
  CallsReturn
