CONSTANTS
  Inputs <- MCInputs
  bccIncludeStart = TRUE
SPECIFICATION Spec
CHECK_DEADLOCK FALSE
INVARIANTS
  TypeOK
  PacketsAreFrames
  WaitsForBytes
  DeliversInOrder
  RoundsConsume
