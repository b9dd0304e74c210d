------------------------ MODULE CountReconciliation --------------------------
(***************************************************************************)
(* What cycle counting promises to the ledger, without lines, handlers or  *)
(* locks: a count is edited freely, its plan of adjustments is fixed once, *)
(* and the plan is then carried out in one attempt.  A completed attempt   *)
(* wrote every planned adjustment exactly once; an attempt that broke off  *)
(* wrote some of them once, and there is no second one.                    *)
(***************************************************************************)
EXTENDS Integers

CONSTANTS Count, Key

VARIABLES
  stage,    \* Count -> where the count is in its life
  plan,     \* Count -> the adjustments <<key, delta>> it will make
  written   \* Count -> the adjustments it has made, by their places

vars == <<stage, plan, written>>

Init ==
  /\ stage = [c \in Count |-> "editing"]
  /\ plan = [c \in Count |-> {}]
  /\ written = [c \in Count |-> [i \in {} |-> {}]]

\* s has members of S, each at most once.
ListsSome(s, S) ==
  /\ \A i \in DOMAIN s : s[i] \in S
  /\ \A i, j \in DOMAIN s : s[i] = s[j] => i = j

Move(c, from, to) ==
  /\ stage[c] = from
  /\ stage' = [stage EXCEPT ![c] = to]

\* One adjustment per key, fixed for good.
Freeze(c) ==
  /\ Move(c, "editing", "planned")
  /\ \A d \in Count \ {c} : plan'[d] = plan[d]
  /\ plan'[c] \subseteq Key \X (Int \ {0})
  /\ \A p, q \in plan'[c] : p[1] = q[1] => p = q
  /\ UNCHANGED written

Accept(c) == Move(c, "planned", "accepted") /\ UNCHANGED <<plan, written>>

Drop(c) == Move(c, "planned", "dropped") /\ UNCHANGED <<plan, written>>

Write(c) ==
  /\ \A d \in Count \ {c} : written'[d] = written[d]
  /\ ListsSome(written'[c], plan[c])
  /\ UNCHANGED plan

BreakOff(c) == Move(c, "accepted", "broken") /\ Write(c)

Complete(c) ==
  /\ Move(c, "accepted", "complete")
  /\ Write(c)
  /\ \A p \in plan[c] : \E i \in DOMAIN written'[c] : written'[c][i] = p

Next ==
  \E c \in Count :
    Freeze(c) \/ Accept(c) \/ Drop(c) \/ BreakOff(c) \/ Complete(c)

Spec == Init /\ [][Next]_vars
=============================================================================
