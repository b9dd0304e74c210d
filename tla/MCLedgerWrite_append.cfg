SPECIFICATION Spec
CONSTANTS
  Request = {r1, r2}
  MaxPosts = 2
  MaxRetained = 2
  StaleReads = FALSE
  MaxDamages = 0
  Null = Null
SYMMETRY RequestSymmetry
INVARIANTS
  AckedStays
CHECK_DEADLOCK FALSE
