SPECIFICATION Spec
CONSTANTS
  t1 = t1
  t2 = t2
  Threads <- Two
  Ops <- Shared
  Keys = {1, 2, 3}
  Home <- HomeOf
  NumBuckets = 6
  Line = 2
  Alignments = {TRUE, FALSE}
INVARIANTS
  TypeOK
  ListsSound
PROPERTIES
  LinearizableOrEarly
CHECK_DEADLOCK FALSE
