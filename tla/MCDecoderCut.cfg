CONSTANTS
  Inputs <- MCInputs
  bccIncludeStart = TRUE
SPECIFICATION Spec
CHECK_DEADLOCK FALSE
INVARIANTS
  DeliversAll
