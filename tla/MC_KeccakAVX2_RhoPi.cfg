CONSTANTS
  W <- MCW
  Inputs <- MCInputs
SPECIFICATION Spec
PROPERTY RhoPiMatchesReference
CHECK_DEADLOCK FALSE
