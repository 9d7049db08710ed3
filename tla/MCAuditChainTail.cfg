SPECIFICATION Spec
CONSTANTS
  Reports = {r1, r2, r3, r4}
  Bodies = {b1, b2}
  MaxRows = 4
  MaxDamage = 2
  TailMayGo = TRUE
SYMMETRY Symmetry
CHECK_DEADLOCK FALSE
INVARIANT ShorteningIsNoticed
