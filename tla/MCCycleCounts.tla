---------------------------- MODULE MCCycleCounts ----------------------------
(***************************************************************************)
(* CycleCounts on small sets.  Line ids and request slots have no order and *)
(* no meaning of their own, so here they are numbers and are used in their  *)
(* order, which leaves out behaviours that differ in the names alone.  (As  *)
(* a symmetry set would, but liveness may not be checked under symmetry.)   *)
(* The other writers and the recounts stay with one of the two keys.        *)
(*                                                                          *)
(* No step that is left out is one that fairness asks for: a user adds or   *)
(* changes a line or begins a submit, or another writer appends.            *)
(***************************************************************************)
EXTENDS CycleCounts

LinesInOrder == \A l \in issued', m \in LineId \ issued' : l < m

Begins(r) == ~submit[r].running /\ submit'[r].running

RequestsInOrder ==
  \A q, r \in Request : q < r /\ Begins(r) => submit[q].running

\* Other writers change the stock of key 1, and only its lines are recounted.
OnlyKeyOneVaries ==
  /\ \A i \in DOMAIN ledger' : ledger'[i].count = Null => ledger'[i].key = 1
  /\ \A l \in LineId :
       line'[l] # Null => line'[l].key = 1 \/ line'[l].countedQty = 1

SmallNext == Next /\ LinesInOrder /\ RequestsInOrder /\ OnlyKeyOneVaries

SmallSpec == Init /\ [][SmallNext]_vars /\ Fairness
=============================================================================
