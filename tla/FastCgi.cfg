SPECIFICATION Spec
CONSTANTS
  h1 = h1
  h2 = h2
  q1 = q1
  q2 = q2
  None = None
  Reqs = {r1, r2}
  Procs = {q1, q2}
  Hosts <- MCHosts
  HostProcs <- MCHostProcs
  Spawning = {h1}
  Tcp = {h2}
  DisableTime <- MCDisableTime
  BackendFds = 1
  MaxReconnects = 2
  MaxRequests = 2
  MaxDeaths = 1
CHECK_DEADLOCK FALSE
INVARIANTS
  LoadsAgree
  ActiveProcsExplained
PROPERTIES
  RequestsAnswered
