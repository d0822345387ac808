CONSTANTS
  W <- MCW
  Inputs <- MCInputs
SPECIFICATION Spec
INVARIANT KnownAnswer
PROPERTIES ThetaApplyMatchesReference ChiMatchesReference RotationsTakeSwitchCase
CHECK_DEADLOCK FALSE
