SPECIFICATION Spec
CONSTANTS
  Rfqs = {f1, f2}
  Quotes = {q1, q2}
  Orders = {o1, o2}
  Vendors = {v1, v2}
  Uoms = {ea, kg}
  MaxLines = 2
  MaxQuoteLines = 2
  Null = Null
SYMMETRY IdSymmetry
INVARIANTS
  TypeOK
  SubmittedCovers
  OrderAsQuoted
  OneLinkedOrder
CHECK_DEADLOCK FALSE
