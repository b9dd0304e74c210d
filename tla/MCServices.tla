----------------------------- MODULE MCServices -----------------------------
(***************************************************************************)
(* Small instances of the components that share no state with each other:  *)
(* a behaviour runs one of them, "service", and the others stay at their   *)
(* first initial state.                                                    *)
(***************************************************************************)
EXTENDS Services, TLC

CONSTANTS
  t1, t2,        \* tenants
  k1, k2,        \* idempotency keys
  p1, p2,        \* places
  a1             \* an item

VARIABLE service

-----------------------------------------------------------------------------
BothTenants == {t1, t2}
Places  == {p1, p2}
Keys    == {k1, k2}

\* A receipt, the same with another nested value, and the same naming a tenant
\* and an id; a move, and the same from a place to itself.
ABody(key, type, quantity) ==
  [idempotencyKey |-> key, eventType |-> type, sku |-> TRUE,
   quantity |-> quantity, reasonCode |-> TRUE, bin |-> TRUE,
   from |-> p1, to |-> p2, extra |-> 0, tenantId |-> Null, eventId |-> Null]

Inputs ==
  {ABody(k1, "RECEIPT", 1),
   [ABody(k1, "RECEIPT", 1) EXCEPT !.extra = 1],
   [ABody(k1, "RECEIPT", 1) EXCEPT !.tenantId = t2, !.eventId = 1],
   ABody(k2, "MOVE", 1), [ABody(k2, "MOVE", 1) EXCEPT !.to = p1]}

PageEvents ==
  {[itemId |-> a1, qtyDelta |-> -1], [itemId |-> Blank, qtyDelta |-> 1],
   [itemId |-> Null, qtyDelta |-> Null]}

ALine(item, place, qty, cost) ==
  [item |-> item, place |-> place, qtyDelta |-> qty, unitCost |-> cost]

AnEvent(at, kinds, lines) == [at |-> at, kinds |-> kinds, lines |-> lines]

\* Goods received with costs in one place and in two, moved between places,
\* lost and found in one, and received at no time.
ReportEvents ==
  {AnEvent(1, {"receiving"}, <<ALine(a1, p1, 2, 3), ALine(Null, p1, 1, 2)>>),
   AnEvent(2, {"receiving"}, <<ALine(a1, p1, 1, 5), ALine(a1, p2, 1, 1)>>),
   AnEvent(2, {}, <<ALine(a1, p1, -1, Null), ALine(a1, p2, 1, Null)>>),
   AnEvent(3, {"adjustment"}, <<ALine(a1, p2, -1, Null), ALine(a1, p2, 2, Null)>>),
   AnEvent(Null, {"receiving"}, <<ALine(a1, p1, 1, 1)>>)}

AToken(kind, tenant, live, query) ==
  [kind |-> kind, tenant |-> tenant, live |-> live, level |-> "user", query |-> query]

SentTokens ==
  {AToken("none", t1, FALSE, Null), AToken("none", t1, FALSE, t2),
   [AToken("v1", t1, TRUE, Null) EXCEPT !.level = "dev"], AToken("v1", t2, TRUE, t1),
   AToken("v1", t1, FALSE, t2), AToken("v2", t1, TRUE, t2),
   AToken("dev", t1, TRUE, t2)}

Deployments ==
  {[kv |-> TRUE, secret |-> TRUE, dev |-> FALSE],
   [kv |-> TRUE, secret |-> FALSE, dev |-> TRUE],
   [kv |-> FALSE, secret |-> TRUE, dev |-> TRUE]}

Items     == {a1}
Times     == 1..3
ReadPaths == {"items"}
Limits    == [infra |-> 2, read |-> 1, write |-> 1]

-----------------------------------------------------------------------------
Service == {"keyed_ledger", "pages", "reports", "documents", "vendors", "gateway"}

\* What a component that does not run is like; one that does starts with all
\* documents or with none.
Starts ==
  /\ service # "keyed_ledger" =>
       /\ form = "http"
       /\ \A c \in Client : /\ client[c].input = ABody(k1, "RECEIPT", 1)
                            /\ client[c].tenant = t1
  /\ service # "documents" => \A c \in DOMAIN docs : docs[c] = TD!NoDoc
  /\ docs["offline_drafts"].array = docs["alerts"].array
  /\ service # "gateway" => config = [kv |-> TRUE, secret |-> TRUE, dev |-> FALSE]

SmallInit == service \in Service /\ ServicesInit /\ Starts

SmallNext ==
  /\ service' = service
  /\ \/ service = "keyed_ledger" /\ KeyedLedgerStep
     \/ service = "pages"        /\ PagesStep
     \/ service = "reports"      /\ ReportsStep
     \/ service = "documents"    /\ DocumentsStep
     \/ service = "vendors"      /\ VendorsStep
     \/ service = "gateway"      /\ GatewayStep

SmallSpec ==
  /\ SmallInit /\ [][SmallNext]_<<service, allVars>>
  /\ WF_pageVars(service = "pages" /\ LP!Answer)

\* No page says forever that it is loading (the pages' load()).
LoadingEnds == service = "pages" => LP!LoadingEnds
=============================================================================
