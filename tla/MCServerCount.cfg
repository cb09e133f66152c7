CONSTANTS
  Conns = {c1}
  VINs = {v1}
  Apps = {a1}
  MaxConns = 1
  IdleTimeout = FALSE
  MaxLogins = 0
  MaxBatch = 0
  NoConn = NoConn
  NoVIN = NoVIN
  Rejected = Rejected
  Stopper = Stopper
  Idler = Idler
SPECIFICATION Spec
CHECK_DEADLOCK FALSE
INVARIANTS
  CountReturnsToZero
