--------------------------- MODULE MCAuthSessions ----------------------------
(* Small instances of AuthSessions.                                         *)
EXTENDS AuthSessions, TLC

\* Tokens are random, and request slots carry no order.
TokenAndRequestSymmetry == Permutations(Token) \cup Permutations(Request)
=============================================================================
