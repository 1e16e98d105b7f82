SPECIFICATION FairSpec
CONSTANTS
  t1 = t1
  t2 = t2
  Threads <- Two
  Workloads <- All
  Keys = {1, 2, 3, 4}
  Hash <- HashOf
  Tag <- TagOf
  LockBits = 2
  SLOT_PER_BUCKET = 1
  MAX_BFS_PATH_LEN = 5
  MAX_CUCKOO_COUNT = 512
  MinHashpower = 1
  MaxHashpower = 2
  MaxPuts = 4
INVARIANTS
  TypeOK
  UniqueKeys
  SoundWithoutRehash
PROPERTIES
  LinearizableOrThrows
  SomeCallReturns
