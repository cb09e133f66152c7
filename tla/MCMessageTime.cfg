CONSTANTS
  Messages <- BinaryMessages
  TimeCodec = "Binary"
SPECIFICATION Spec
CHECK_DEADLOCK FALSE
INVARIANTS
  TimesReceived
