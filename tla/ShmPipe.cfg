SPECIFICATION FairSpec
CONSTANTS
  r1 = r1
  r2 = r2
  Readers = {r1, r2}
  Blocks = 2
  MaxCrashes = 2
INVARIANTS BufferExclusive OutputInOrder
PROPERTIES AllArrives BothEnd
CHECK_DEADLOCK FALSE
