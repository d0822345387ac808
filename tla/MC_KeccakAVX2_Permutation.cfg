CONSTANTS
  W <- MCW
  Inputs <- MCInputs
SPECIFICATION Spec
INVARIANT PermutationMatchesReference
CHECK_DEADLOCK FALSE
