SPECIFICATION Spec
CONSTANTS
  Request = {r1, r2}
  MaxPosts = 3
  MaxRetained = 2
  StaleReads = TRUE
  MaxDamages = 1
  Null = Null
SYMMETRY RequestSymmetry
INVARIANTS
  TypeOK
  LedgerNumbered
  NeverCollides
  AuditTruthful
  OnlyOvertakingLoses
CHECK_DEADLOCK FALSE
