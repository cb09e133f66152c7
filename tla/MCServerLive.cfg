CONSTANTS
  Conns = {c1}
  VINs = {v1}
  Apps = {}
  MaxConns = 1
  IdleTimeout = TRUE
  MaxLogins = 2
  MaxBatch = 2
  NoConn = NoConn
  NoVIN = NoVIN
  Rejected = Rejected
  Stopper = Stopper
  Idler = Idler
SPECIFICATION FairSpec
CHECK_DEADLOCK FALSE
INVARIANTS
  RegistryClean
PROPERTIES
  ClosedRunEnds
  StopReturns
