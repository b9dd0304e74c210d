SPECIFICATION SmallSpec
CONSTANTS
  t1 = t1
  t2 = t2
  k1 = k1
  k2 = k2
  p1 = p1
  p2 = p2
  a1 = a1
  Tenant <- BothTenants
  Key <- Keys
  Place <- Places
  Input <- Inputs
  MaxRestarts = 1
  MaxIssued = 3
  Client = {c1, c2}
  Tenants <- BothTenants
  Item <- Items
  Stocked <- Items
  PageEvent <- PageEvents
  PageSize = 1
  Time <- Times
  ReportEvent <- ReportEvents
  Reading <- ReadPaths
  Token <- SentTokens
  Config <- Deployments
  Limit <- Limits
  Blank = Blank
  MaxEvents = 2
  Request = {r1, r2, r3}
  ClientDraft = {d1}
  Content = {x1}
  Alert = {l1}
  Document = {e1}
  Complete = {e1}
  Ruleset = {u1}
  Isolate = {i1, i2}
  Ip = {ip1}
  MaxCorruptions = 1
  MaxLoads = 3
  MaxMounts = 2
  MaxVendors = 2
  MaxRequests = 3
  MaxWindow = 1
  Null = Null
INVARIANTS
  TenantFromSession
CHECK_DEADLOCK FALSE
