----------------------------- MODULE MCPurchasing -----------------------------
(* Purchasing on small sets. *)
EXTENDS Purchasing, TLC

Symmetry ==
  Permutations(Pos) \cup Permutations(Receipts) \cup Permutations(Keys)
    \cup Permutations(LineIds)
=============================================================================
