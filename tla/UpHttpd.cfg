SPECIFICATION FairSpec
CONSTANTS
  PoolSize = 2
  Main = Main
  Handler = Handler
  c1 = c1
  c2 = c2
  c3 = c3
  Conns = {c1, c2}
  Slow = {c1}
  SignalAt <- Anywhere
  NoJob = NoJob
  NoOne = NoOne
INVARIANTS HeldDescriptorsOpen LeaksExplained NoFault
PROPERTIES PoolPromise RequestsServed SigintEnds
CHECK_DEADLOCK FALSE
