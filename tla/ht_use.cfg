SPECIFICATION Spec
CONSTANTS
  Keys = {0, 1, 2, 3}
  Values = {7, 8}
  HashCount = 2
  Uses <- MCUses
  CountLimit = 4
INVARIANTS TypeOK LookupsEnd
PROPERTIES IsMap
