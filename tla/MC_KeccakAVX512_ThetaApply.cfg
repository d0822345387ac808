CONSTANTS
  W <- MCW
  Inputs <- MCInputs
SPECIFICATION Spec
PROPERTY ThetaApplyMatchesReference
CHECK_DEADLOCK FALSE
