---------------------------- MODULE MCLedgerWrite -----------------------------
(* Small instances of LedgerWrite.                                          *)
EXTENDS LedgerWrite, TLC

RequestSymmetry == Permutations(Request)
=============================================================================
