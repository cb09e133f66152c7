CONSTANTS
  Messages <- NineFieldsMessages
  TimeCodec = "BCD"
SPECIFICATION Spec
CHECK_DEADLOCK FALSE
INVARIANTS
  NineFieldsReceived
