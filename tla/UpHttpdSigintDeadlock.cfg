SPECIFICATION FairSpec
CONSTANTS
  PoolSize = 1
  Main = Main
  Handler = Handler
  c1 = c1
  c2 = c2
  c3 = c3
  Conns = {c1}
  Slow = {}
  SignalAt <- InPool
  NoJob = NoJob
  NoOne = NoOne
PROPERTIES HandlerDestroyReturns
CHECK_DEADLOCK FALSE
