CONSTANTS
  W <- MCW
  Inputs <- MCInputs
SPECIFICATION Spec
INVARIANT ColumnParityMatchesReference
CHECK_DEADLOCK FALSE
