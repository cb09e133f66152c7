CONSTANTS
  Conns = {c1, c2}
  VINs = {v1}
  Apps = {a1}
  MaxConns = 1
  IdleTimeout = FALSE
  MaxLogins = 0
  MaxBatch = 0
  NoConn = NoConn
  NoVIN = NoVIN
  Rejected = Rejected
  Stopper = Stopper
  Idler = Idler
SPECIFICATION FairSpec
CHECK_DEADLOCK FALSE
INVARIANTS
  CountWithinLimit
  NoSlotLost
  NothingLeftOpen
PROPERTIES
  ImplementsTable
  StopReturns
