SPECIFICATION Spec
CONSTANTS
  Refs = {r1, r2, r3, r4, r5}
  Branches = {"gcc", "win32"}
SYMMETRY Symmetry
INVARIANTS CountExact NoUseAfterFree FreedOnce NoLeak
CHECK_DEADLOCK FALSE
