SPECIFICATION Spec
CONSTANTS
  Values = {7, 8}
  Capacities = {0, 1, 3}
  CountLimit = 4
INVARIANTS FitsBlock
PROPERTIES IsStack
