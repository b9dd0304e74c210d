SPECIFICATION Spec
CONSTANTS
  Count = {c1}
  Key = {1}
  LineId = {l1}
  Request = {r1}
  Qty = {1}
  OtherDelta = {1}
  MaxLedger = 1
  Null = Null
PROPERTY CursorNeverMissing
CHECK_DEADLOCK FALSE
