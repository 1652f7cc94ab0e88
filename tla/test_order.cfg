SPECIFICATION Spec
CONSTANTS
  Cases = {a, b, c, d, e}
  NULL = NULL
INVARIANTS TailReachesAll LinksEnd
CHECK_DEADLOCK FALSE
