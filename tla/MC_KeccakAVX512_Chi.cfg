CONSTANTS
  W <- MCW
  Inputs <- MCInputs
SPECIFICATION Spec
PROPERTY ChiMatchesReference
CHECK_DEADLOCK FALSE
