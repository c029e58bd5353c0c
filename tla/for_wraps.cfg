CONSTANTS
  MaxInt = 3
  Overflows = TRUE
SPECIFICATION Spec
INVARIANT CountsTheRange
CHECK_DEADLOCK FALSE
