SPECIFICATION Spec
CONSTANTS
  p1 = p1
  p2 = p2
  Clients = {p1, p2}
  Rough = {p1}
  Dynamic = {p1}
  Cons = {c1, c2}
  Scripts <- MCLiveScripts
  MaxConns = 2
  MaxFds = 5
  BaseFds = 1
  FdReserve = 1
  ConnTenths = 4
  LowTenths = 4
  HighTenths = 5
  MaxKeepAlive = 1
  Idle = 0
  MaxRetries = 1
  MaxFcntlFailures = 1
CHECK_DEADLOCK FALSE
PROPERTIES
  ConnectionsEnd
  SocketsComeBack
  GracefulEnds
