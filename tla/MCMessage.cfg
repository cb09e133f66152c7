CONSTANTS
  Messages <- WholeMessages
  TimeCodec = "BCD"
SPECIFICATION Spec
CHECK_DEADLOCK FALSE
INVARIANTS
  TypeOK
  AllButTemperatures
  NothingMadeUp
  BodiesReceived
  WholeIsDecoded
  BodyNotMadeUp
