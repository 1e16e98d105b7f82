SPECIFICATION Spec
CONSTANTS
  t1 = t1
  t2 = t2
  t3 = t3
  Threads <- Two
  Ops <- PutsOnly
  Keys = {4, 8, 12}
  Entries = 1
  InitBuckets = 1
  MaxPuts = 3
  MaxTables = 4
  MaxBuckets = 4
SYMMETRY Symmetry
INVARIANTS
  ResizesCurrentTable
  ResizeKeepsContents
  IndInv
PROPERTIES
  Linearizable
CHECK_DEADLOCK FALSE
