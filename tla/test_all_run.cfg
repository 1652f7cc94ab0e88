SPECIFICATION Spec
CONSTANTS
  Cases = {a, b, c, d, e}
  NULL = NULL
INVARIANTS AllRun
CHECK_DEADLOCK FALSE
