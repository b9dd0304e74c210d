\* One requisition of up to two lines, two orders, two receipts, two keys.
CONSTANTS
  Reqs = {q1}
  Pos = {p1, p2}
  Receipts = {r1, r2}
  Keys = {k1, k2}
  Vendors = {v1}
  LineIds = {a, b}
  MaxLines = 2
  MaxQty = 2
  MaxUnits = 2
  MaxEvents = 2
  Null = Null
SPECIFICATION Spec
SYMMETRY Symmetry
CHECK_DEADLOCK FALSE
INVARIANTS
  TypeOK
  WithinOrdered
  LedgerTellsReceived
  PostedOnce
  StatusTellsReceived
  OrderedOnceAsRequested
