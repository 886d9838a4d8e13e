SPECIFICATION Spec
CONSTANTS
  p1 = p1
  p2 = p2
  Clients = {p1, p2}
  Rough = {p1}
  Dynamic = {p1}
  Cons = {c1, c2}
  Scripts <- MCScripts
  MaxConns = 2
  MaxFds = 4
  BaseFds = 1
  FdReserve = 1
  ConnTenths = 9
  LowTenths = 8
  HighTenths = 9
  MaxKeepAlive = 1
  Idle = 0
  MaxRetries = 1
  MaxFcntlFailures = 0
CHECK_DEADLOCK FALSE
INVARIANTS
  DescriptorsAccounted
  NobodyForgotten
  AnsweredInOrder
  WriteTimerFresh
