SPECIFICATION FairSpec
CONSTANTS
  t1 = t1
  t2 = t2
  Threads <- Two
  Ops <- Shared
  Keys = {1, 2}
  KEY_BUCKT = 1
  InitBuckets = 1
  Retries = 1
  PercHalve = 2
  MaxPuts = 3
  MaxTables = 3
INVARIANTS
  TypeOK
  GraceForVisible
  ResizeKeepsContents
PROPERTIES
  LinearizableUntilOvertaken
  ResizeEnds
