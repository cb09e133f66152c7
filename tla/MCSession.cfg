CONSTANTS
  Run = Run
  Others = {a1}
  Tokens = {k1, k2}
  NoKey = NoKey
  WriteTimeout = TRUE
  NetBuf = 1
  MaxPackets = 3
  MaxSends = 1
SPECIFICATION FairSpec
CHECK_DEADLOCK FALSE
INVARIANTS
  TypeOK
  KeyNeverAhead
  NothingGarbled
  KeysAgree
  OneWriter
  CrashOnlyAtEdges
PROPERTIES
  SendReturns
