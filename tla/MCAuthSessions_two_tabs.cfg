SPECIFICATION Spec
CONSTANTS
  Token = {t1, t2, t3}
  User = {u1}
  Ttl = 2
  MaxNow = 3
  Null = Null
  Browser = {b1}
  Request = {r1, r2}
  MaxLogins = 1
  Lossy = TRUE
SYMMETRY TokenAndRequestSymmetry
INVARIANTS
  TypeOK
  NeverForks
  RefusedOnlyWhenEnded
PROPERTIES
  RevokeAllReaches
  LogoutEndsToken
  KeepsLifecycle
CHECK_DEADLOCK FALSE
