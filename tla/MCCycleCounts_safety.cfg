SPECIFICATION SmallSpec
CONSTANTS
  Count = {c1}
  Key = {1, 2}
  LineId = {1, 2, 3}
  Request = {1, 2}
  Qty = {0, 1}
  OtherDelta = {1}
  MaxLedger = 2
  Null = Null
INVARIANTS
  TypeOK
  AdjustedAtMostOnce
  WrittenUnderClaim
  SnapshotReproducible
  PostedReconciles
PROPERTIES
  FrozenOnceSubmitted
  KeepsPromise
  SubmitAnswered
CHECK_DEADLOCK FALSE
