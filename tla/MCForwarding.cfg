CONSTANTS
  f1 = f1
  f2 = f2
  f3 = f3
  Conns = {c1, c2}
  Stopper = Stopper
  Forwarders <- MCForwarders
  Initial <- MCInitial
  Added = f3
  MaxMsgs = 1
SPECIFICATION FairSpec
CHECK_DEADLOCK FALSE
INVARIANTS
  TypeOK
  EveryForwarderOnce
PROPERTIES
  StartedBeforeClose
  ForwardReturns
  StopClosesForwarders
  StopReturns
