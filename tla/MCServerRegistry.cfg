CONSTANTS
  Conns = {c1, c2}
  VINs = {v1}
  Apps = {}
  MaxConns = 2
  IdleTimeout = FALSE
  MaxLogins = 1
  MaxBatch = 1
  NoConn = NoConn
  NoVIN = NoVIN
  Rejected = Rejected
  Stopper = Stopper
  Idler = Idler
SYMMETRY Symmetry
SPECIFICATION Spec
CHECK_DEADLOCK FALSE
INVARIANTS
  TypeOK
  FoundByVIN
  StopJoins
  NothingLeftOpen
