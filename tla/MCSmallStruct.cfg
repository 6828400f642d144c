CONSTANTS
  ArgTypes <- MCSmall
  MaxArgs = 6
  GP_MAX = 6
  FP_MAX = 8
SPECIFICATION CallSpec
INVARIANTS ArgumentsArrive
CHECK_DEADLOCK FALSE
