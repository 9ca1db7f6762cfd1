SPECIFICATION Spec
CONSTANTS
  N = 2
  PipeSiz = 1
  Inputs <- MCInputs
INVARIANTS FilterEnds
PROPERTIES CallsReturn
CHECK_DEADLOCK FALSE
