SPECIFICATION Spec
CONSTANTS
  Keys = {0, 1, 2, 3, 4}
  Values = {7}
  HashCount = 2
  Uses <- MCHang
  CountLimit = 5
INVARIANTS LookupsEnd
