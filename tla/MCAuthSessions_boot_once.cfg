SPECIFICATION Spec
CONSTANTS
  Token = {t1, t2}
  User = {u1}
  Ttl = 1
  MaxNow = 2
  Null = Null
  Browser = {b1}
  Request = {r1, r2}
  MaxLogins = 1
  Lossy = FALSE
INVARIANTS
  BootstrapOneTime
CHECK_DEADLOCK FALSE
