----------------------------- MODULE MCSourcing ------------------------------
(* A small instance of Sourcing.                                            *)
EXTENDS Sourcing, TLC

IdSymmetry ==
  Permutations(Rfqs) \cup Permutations(Quotes) \cup Permutations(Orders)
    \cup Permutations(Vendors) \cup Permutations(Uoms)
=============================================================================
