SPECIFICATION Spec
CONSTANTS
  t1 = t1
  t2 = t2
  Threads <- Two
  Workloads <- Overtaken
  Keys = {1, 2, 3, 4}
  Hash <- HashOf
  Tag <- TagOf
  LockBits = 2
  SLOT_PER_BUCKET = 1
  MAX_BFS_PATH_LEN = 5
  MAX_CUCKOO_COUNT = 512
  MinHashpower = 1
  MaxHashpower = 3
  MaxPuts = 3
INVARIANTS
  InPlace
