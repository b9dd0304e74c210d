\* One requisition of up to two lines, an order, a receipt and a key.
CONSTANTS
  Reqs = {q1}
  Pos = {p1}
  Receipts = {r1}
  Keys = {k1}
  Vendors = {v1}
  LineIds = {a, b}
  MaxLines = 2
  MaxQty = 2
  MaxUnits = 2
  MaxEvents = 2
  Null = Null
SPECIFICATION Spec
CHECK_DEADLOCK FALSE
INVARIANTS
  NoPartialReceipt
