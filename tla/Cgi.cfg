SPECIFICATION CgiFairSpec
CONSTANTS
  w1 = w1
  w2 = w2
  r1 = r1
  r2 = r2
  r3 = r3
  CgiWorkers = {w1, w2}
  Requests = {r1, r2, r3}
  Capacity = 1
  Output <- Outputs
  Parent = Parent
  NoReq = NoReq
INVARIANTS OneChildPerWait StatusesConserved NothingTruncated
PROPERTIES CgiServed
CHECK_DEADLOCK FALSE
