-------------------------- MODULE SessionLifecycle ---------------------------
(***************************************************************************)
(* What the session registry promises about refresh tokens, without        *)
(* storage, clocks, cookies or browsers: a token is born once, lives, and  *)
(* dies for good.  A session moves from one token to the next only in the  *)
(* step in which the old token dies, so it never forks.                    *)
(***************************************************************************)
CONSTANTS Token, Null

VARIABLES
  life,   \* Token -> "unborn", "live" or "dead"
  parent  \* Token -> the token it was handed the session by, or Null

vars == <<life, parent>>

Init ==
  /\ life = [t \in Token |-> "unborn"]
  /\ parent = [t \in Token |-> Null]

Start(t) ==
  /\ life[t] = "unborn"
  /\ life' = [life EXCEPT ![t] = "live"]
  /\ UNCHANGED parent

HandOver(t, s) ==
  /\ life[t] = "live"
  /\ life[s] = "unborn"
  /\ life' = [life EXCEPT ![t] = "dead", ![s] = "live"]
  /\ parent' = [parent EXCEPT ![s] = t]

\* Revocation, expiry, or a session that broke off in a rotation.
End(S) ==
  /\ \A t \in S : life[t] = "live"
  /\ life' = [t \in Token |-> IF t \in S THEN "dead" ELSE life[t]]
  /\ UNCHANGED parent

Next ==
  \/ \E t \in Token : Start(t)
  \/ \E t, s \in Token : HandOver(t, s)
  \/ \E S \in SUBSET Token : End(S)

Spec == Init /\ [][Next]_vars
=============================================================================
