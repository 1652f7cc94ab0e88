SPECIFICATION Spec
CONSTANTS
  Slots = {"s1", "s2"}
  Lengths = {0, 1, 3}
  Sizes = {0, 1, 2, 4, 5, 6, 7}
  HEADER = 2
  SIZE_RANGE = 16
INVARIANTS ReadsInside LengthHonest
