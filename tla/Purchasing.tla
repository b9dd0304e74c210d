------------------------------ MODULE Purchasing ------------------------------
(***************************************************************************)
(* From a requisition to received stock: api/requisitions.js,              *)
(* api/purchaseOrders.js, api/receipts.js and ledger/append.js.            *)
(*                                                                         *)
(* A handler never waits, so requests are served one after the other; it   *)
(* saves several records one by one, and a crash may come between two      *)
(* saves.  n counts the saves that were made.  A replayed request is       *)
(* answered from its idempotency record and changes nothing, so only the   *)
(* records of the ledger's append are kept.                                *)
(***************************************************************************)
EXTENDS Integers, Sequences, Functions

CONSTANTS
  Reqs, Pos, Receipts,   \* the ids that randomUUID may hand out
  Keys,                  \* idempotency keys
  Vendors,
  LineIds,               \* the line ids clients choose
  MaxLines,              \* bound on the lines of a requisition
  MaxQty,                \* bound on a quantity
  MaxUnits,              \* bound on a requisition's quantities together
  MaxEvents,             \* bound on the ledger's length
  Null

ASSUME PurchasingAssumption ==
  /\ MaxLines \in Nat
  /\ MaxQty \in Nat \ {0}
  /\ MaxEvents \in Nat
  /\ Null \notin Pos

VARIABLES
  reqs,      \* requisitions
  pos,       \* purchase_orders
  receipts,
  ledger,    \* ledger_events
  idem,      \* the receipts and keys whose append has an idempotency record
  eligible   \* the vendors vendorEligibilityGate lets pass

vars == <<reqs, pos, receipts, ledger, idem, eligible>>

\* Lines are told apart by their places: an id may occur twice.
ReqLines == UNION {[1..n -> [id : LineIds, qty : 1..MaxQty]] : n \in 0..MaxLines}

Units(lines) == FoldFunction(LAMBDA line, sum : line.qty + sum, 0, lines)

\* What clients send.
SentLines == {lines \in ReqLines : Units(lines) <= MaxUnits}

Requisition == [status : {"DRAFT", "SUBMITTED", "APPROVED", "REJECTED",
                          "CANCELLED", "CONVERTED"},
                lines  : ReqLines,
                po     : Pos \cup {Null}]

PoLine == [id : LineIds, ordered : 1..MaxQty, received : 0..MaxQty]

\* cut is history: the process died before the requisition was marked.
PurchaseOrder ==
  [status : {"DRAFT", "ISSUED", "PARTIALLY_RECEIVED", "CLOSED", "CANCELLED"},
   req    : Reqs,
   vendor : Vendors,
   lines  : UNION {[1..n -> PoLine] : n \in 1..MaxLines},
   cut    : BOOLEAN]

\* A receipt has the quantities; the rest of its lines is copied from the
\* order.  event is the place of its ledger event, 0 for none.
Receipt == [status : {"DRAFT", "POSTED"},
            po     : Pos,
            qty    : UNION {[1..n -> 0..MaxQty] : n \in 1..MaxLines},
            event  : 0..MaxEvents]

\* The places received and how much of each; saves is history.
Event == [receipt : Receipts,
          key     : Keys,
          lines   : UNION {[S -> 1..MaxQty] : S \in SUBSET (1..MaxLines)},
          saves   : 1..4]

Collection(c, Ids, Records) == DOMAIN c \subseteq Ids /\ c \in [DOMAIN c -> Records]

TypeOK ==
  /\ Collection(reqs, Reqs, Requisition)
  /\ Collection(pos, Pos, PurchaseOrder)
  /\ Collection(receipts, Receipts, Receipt)
  /\ ledger \in Seq(Event) /\ Len(ledger) <= MaxEvents
  /\ idem \subseteq Receipts \X Keys
  /\ eligible \subseteq Vendors

Empty == [x \in {} |-> Null]

Init ==
  /\ reqs = Empty
  /\ pos = Empty
  /\ receipts = Empty
  /\ ledger = << >>
  /\ idem = {}
  /\ eligible \in SUBSET Vendors

\* upsertById
With(collection, id, record) ==
  [x \in DOMAIN collection \cup {id} |->
     IF x = id THEN record ELSE collection[x]]

-----------------------------------------------------------------------------
(* Requisitions                                                             *)

CreateReq(q, lines) ==
  /\ q \notin DOMAIN reqs
  /\ reqs' = With(reqs, q, [status |-> "DRAFT", lines |-> lines, po |-> Null])
  /\ UNCHANGED <<pos, receipts, ledger, idem, eligible>>

UpdateReq(q, lines) ==
  /\ reqs[q].status = "DRAFT"
  /\ reqs' = [reqs EXCEPT ![q].lines = lines]
  /\ UNCHANGED <<pos, receipts, ledger, idem, eligible>>

MoveReq(q, from, to) ==
  /\ reqs[q].status \in from
  /\ reqs' = [reqs EXCEPT ![q].status = to]
  /\ UNCHANGED <<pos, receipts, ledger, idem, eligible>>

SubmitReq(q) == reqs[q].lines # << >> /\ MoveReq(q, {"DRAFT"}, "SUBMITTED")

ApproveReq(q) == MoveReq(q, {"SUBMITTED"}, "APPROVED")

RejectReq(q) == MoveReq(q, {"SUBMITTED"}, "REJECTED")

CancelReq(q) == MoveReq(q, {"DRAFT", "SUBMITTED", "APPROVED"}, "CANCELLED")

-----------------------------------------------------------------------------
(* Purchase orders                                                          *)

\* Mutant: a requisition may be converted again.
ConvertibleTwice(q) == reqs[q].status \in {"APPROVED", "CONVERTED"}

Convertible(q) == reqs[q].status = "APPROVED"

\* Two saves, the order and the requisition.
PoFromReq(q, p, v, n) ==
  LET lines == reqs[q].lines IN
  /\ p \notin DOMAIN pos
  /\ Convertible(q)
  /\ v \in eligible
  /\ lines # << >>
  /\ pos' = With(pos, p,
       [status |-> "DRAFT", req |-> q, vendor |-> v, cut |-> n < 2,
        lines |-> [i \in DOMAIN lines |->
          [id |-> lines[i].id, ordered |-> lines[i].qty, received |-> 0]]])
  /\ reqs' = IF n < 2 THEN reqs
             ELSE [reqs EXCEPT ![q].status = "CONVERTED", ![q].po = p]
  /\ UNCHANGED <<receipts, ledger, idem, eligible>>

MovePo(p, from, to) ==
  /\ pos[p].status \in from
  /\ pos' = [pos EXCEPT ![p].status = to]
  /\ UNCHANGED <<reqs, receipts, ledger, idem, eligible>>

IssuePo(p) == pos[p].vendor \in eligible /\ MovePo(p, {"DRAFT"}, "ISSUED")

CancelPo(p) == MovePo(p, {"DRAFT", "ISSUED", "PARTIALLY_RECEIVED"}, "CANCELLED")

ClosePo(p) == MovePo(p, {"ISSUED", "PARTIALLY_RECEIVED"}, "CLOSED")

-----------------------------------------------------------------------------
(* Receipts                                                                 *)

Open(p) == pos[p].status \notin {"CANCELLED", "CLOSED"} /\ pos[p].vendor \in eligible

CreateReceipt(r, p) ==
  /\ r \notin DOMAIN receipts
  /\ Open(p)
  /\ receipts' = With(receipts, r,
       [status |-> "DRAFT", po |-> p, event |-> 0,
        qty |-> [i \in DOMAIN pos[p].lines |-> 0]])
  /\ UNCHANGED <<reqs, pos, ledger, idem, eligible>>

\* The places of p's lines that have the id of line i.
SameId(p, i) == {j \in DOMAIN pos[p].lines : pos[p].lines[j].id = pos[p].lines[i].id}

\* Mutant: what is left is what was ordered.
RemainingAsOrdered(p, i) == pos[p].lines[i].ordered

\* What is left of line i.  A Map from ids to lines holds an id's last line.
Remaining(p, i) ==
  LET last == CHOOSE j \in SameId(p, i) : \A k \in SameId(p, i) : k <= j
      left == pos[p].lines[last].ordered - pos[p].lines[last].received
  IN  IF left < 0 THEN 0 ELSE left

\* Mutant: a posted receipt may be edited.
EditableAlways(r) == TRUE

Editable(r) == receipts[r].status = "DRAFT"

\* take: what is received by id.  The order may be closed or cancelled.
UpdateReceipt(r, take) ==
  LET p == receipts[r].po IN
  /\ Editable(r)
  /\ pos[p].vendor \in eligible
  /\ \A i \in DOMAIN pos[p].lines : take[pos[p].lines[i].id] <= Remaining(p, i)
  /\ receipts' = [receipts EXCEPT ![r].qty =
                    [i \in DOMAIN pos[p].lines |-> take[pos[p].lines[i].id]]]
  /\ UNCHANGED <<reqs, pos, ledger, idem, eligible>>

Postable(r) == {i \in DOMAIN receipts[r].qty : receipts[r].qty[i] > 0}

\* The event's time is part of its fingerprint, so an append that is retried
\* under its key is refused (IDEMPOTENCY_REPLAY_MISMATCH).
CanPost(r, k) ==
  LET p == receipts[r].po IN
  /\ receipts[r].status = "DRAFT"
  /\ Open(p)
  /\ \A i \in DOMAIN receipts[r].qty : receipts[r].qty[i] <= Remaining(p, i)
  /\ Postable(r) # {}
  /\ <<r, k>> \notin idem

\* Mutant: the receipt's quantity takes the place of what was received.
ReceivedOverwritten(r) ==
  LET p == receipts[r].po IN
  [i \in DOMAIN pos[p].lines |->
     IF i \in Postable(r)
     THEN [pos[p].lines[i] EXCEPT !.received = receipts[r].qty[i]]
     ELSE pos[p].lines[i]]

\* find takes an id's first postable line.
ReceivedLines(r) ==
  LET p == receipts[r].po IN
  [i \in DOMAIN pos[p].lines |->
     LET hits == SameId(p, i) \cap Postable(r) IN
     IF hits = {} THEN pos[p].lines[i]
     ELSE LET hit == CHOOSE j \in hits : \A k \in hits : j <= k
          IN  [pos[p].lines[i] EXCEPT !.received = @ + receipts[r].qty[hit]]]

\* Mutant: an order is full only beyond what was ordered.
PoStatusBeyondOrdered(old, lines) ==
  IF \A i \in DOMAIN lines : lines[i].received > lines[i].ordered THEN "CLOSED"
  ELSE IF \E i \in DOMAIN lines : lines[i].received > 0 THEN "PARTIALLY_RECEIVED"
  ELSE old

PoStatus(old, lines) ==
  IF \A i \in DOMAIN lines : lines[i].received >= lines[i].ordered THEN "CLOSED"
  ELSE IF \E i \in DOMAIN lines : lines[i].received > 0 THEN "PARTIALLY_RECEIVED"
  ELSE old

\* Four saves: the ledger event, the append's idempotency record, the order,
\* the receipt.
PostReceipt(r, k, n) ==
  LET p == receipts[r].po IN
  /\ CanPost(r, k)
  /\ Len(ledger) < MaxEvents
  /\ ledger' = Append(ledger, [receipt |-> r, key |-> k, saves |-> n,
                               lines |-> [i \in Postable(r) |-> receipts[r].qty[i]]])
  /\ idem' = IF n < 2 THEN idem ELSE idem \cup {<<r, k>>}
  /\ pos' = IF n < 3 THEN pos
            ELSE [pos EXCEPT ![p].lines = ReceivedLines(r),
                             ![p].status = PoStatus(@, ReceivedLines(r))]
  /\ receipts' = IF n < 4 THEN receipts
                 ELSE [receipts EXCEPT ![r].status = "POSTED",
                                       ![r].event = Len(ledger) + 1]
  /\ UNCHANGED <<reqs, eligible>>

\* Vendor records are changed by others.
VendorChanges(v) ==
  /\ eligible' = IF v \in eligible THEN eligible \ {v} ELSE eligible \cup {v}
  /\ UNCHANGED <<reqs, pos, receipts, ledger, idem>>

ReqNext(q) ==
  \/ \E lines \in SentLines : UpdateReq(q, lines)
  \/ SubmitReq(q)
  \/ ApproveReq(q)
  \/ RejectReq(q)
  \/ CancelReq(q)
  \/ \E p \in Pos, v \in Vendors, n \in 1..2 : PoFromReq(q, p, v, n)

PoNext(p) ==
  \/ IssuePo(p)
  \/ CancelPo(p)
  \/ ClosePo(p)
  \/ \E r \in Receipts : CreateReceipt(r, p)

ReceiptNext(r) ==
  \/ \E take \in [LineIds -> 0..MaxQty] : UpdateReceipt(r, take)
  \/ \E k \in Keys, n \in 1..4 : PostReceipt(r, k, n)

Next ==
  \/ \E q \in Reqs, lines \in SentLines : CreateReq(q, lines)
  \/ \E q \in DOMAIN reqs : ReqNext(q)
  \/ \E p \in DOMAIN pos : PoNext(p)
  \/ \E r \in DOMAIN receipts : ReceiptNext(r)
  \/ \E v \in Vendors : VendorChanges(v)

Spec == Init /\ [][Next]_vars

-----------------------------------------------------------------------------
(* What is checked                                                          *)

DistinctIds(p) == \A i \in DOMAIN pos[p].lines : SameId(p, i) = {i}

\* However many receipts of an order are drafted side by side, and wherever a
\* post broke off before it was retried, no line is ever received beyond what
\* was ordered, if the order's line ids differ (receipts.js, post).
WithinOrdered ==
  \A p \in DOMAIN pos :
    DistinctIds(p) =>
      \A i \in DOMAIN pos[p].lines : pos[p].lines[i].received <= pos[p].lines[i].ordered

\* The events that say how much line i of p received: those of p's receipts,
\* apart from the ones whose post died before it saved the order.
Counted(p, i) == {e \in DOMAIN ledger : /\ receipts[ledger[e].receipt].po = p
                                        /\ ledger[e].saves >= 3
                                        /\ i \in DOMAIN ledger[e].lines}

\* The ledger and the order agree: what a line has received is what the
\* events say, those apart whose post died before it saved the order; also
\* when line ids repeat (receipts.js, post).
LedgerTellsReceived ==
  \A p \in DOMAIN pos : \A i \in DOMAIN pos[p].lines :
    pos[p].lines[i].received
      = FoldFunction(+, 0, [e \in Counted(p, i) |-> ledger[e].lines[i]])

\* "Failed receiving creates no partial state" (docs/runbook/operations.md:127):
\* what the ledger says was received is of receipts that are posted.
NoPartialReceipt ==
  \A e \in DOMAIN ledger : receipts[ledger[e].receipt].status = "POSTED"

\* A receipt is posted once: only posts cut by a crash leave other events of
\* it, none follows the one it names, that one says what the receipt says
\* now, and one key appends twice only if the crash came before the append's
\* idempotency record (receipts.js, post; ledger/append.js).
PostedOnce ==
  /\ \A e \in DOMAIN ledger :
       LET r == ledger[e].receipt IN
       /\ r \in DOMAIN receipts
       /\ (ledger[e].saves = 4) <=> (receipts[r].event = e)
       /\ receipts[r].status = "POSTED" => e <= receipts[r].event
       /\ \A f \in DOMAIN ledger :
            /\ f < e
            /\ ledger[f].receipt = r /\ ledger[f].key = ledger[e].key
            => ledger[f].saves = 1
  /\ \A r \in DOMAIN receipts :
       receipts[r].status = "POSTED" =>
         /\ receipts[r].event \in DOMAIN ledger
         /\ ledger[receipts[r].event].receipt = r
         /\ ledger[receipts[r].event].lines
              = [i \in Postable(r) |-> receipts[r].qty[i]]

\* An order's status tells what was received: a draft or issued order has
\* received nothing, a partly received one something but not all, and an
\* order that is full is closed (receipts.js, computePoStatus).
StatusTellsReceived ==
  \A p \in DOMAIN pos :
    LET lines == pos[p].lines
        some == \E i \in DOMAIN lines : lines[i].received > 0
        full == \A i \in DOMAIN lines : lines[i].received >= lines[i].ordered
    IN  /\ pos[p].status \in {"DRAFT", "ISSUED"} => ~some
        /\ pos[p].status = "PARTIALLY_RECEIVED" => some /\ ~full
        /\ full => pos[p].status = "CLOSED"

\* A requisition becomes one order, a crash between the two saves apart, and
\* the order's lines are for ever those of the requisition
\* (purchaseOrders.js, "deterministic one-way conversion").
OrderedOnceAsRequested ==
  /\ \A p \in DOMAIN pos :
       LET q == pos[p].req IN
       /\ q \in DOMAIN reqs
       /\ DOMAIN pos[p].lines = DOMAIN reqs[q].lines
       /\ \A i \in DOMAIN pos[p].lines :
            /\ pos[p].lines[i].id = reqs[q].lines[i].id
            /\ pos[p].lines[i].ordered = reqs[q].lines[i].qty
       /\ ~pos[p].cut => reqs[q].po = p
  /\ \A q \in DOMAIN reqs :
       reqs[q].status = "CONVERTED" =>
         /\ reqs[q].po \in DOMAIN pos
         /\ pos[reqs[q].po].req = q

\* Why the orders keep consistent: lines with the same id are received alike,
\* and no further than one of them was ordered.
SameIdsAlike ==
  \A p \in DOMAIN pos : \A i \in DOMAIN pos[p].lines :
    LET lines == pos[p].lines IN
    /\ \A j \in SameId(p, i) : lines[j].received = lines[i].received
    /\ \E j \in SameId(p, i) : lines[i].received <= lines[j].ordered

\* Records that others rely on are there and do not go back: a converted
\* requisition is no draft, a receipt has its order's lines and a draft
\* receipt no event, and an event whose second save was made is recorded.
References ==
  /\ \A p \in DOMAIN pos :
       LET q == pos[p].req IN
       /\ q \in DOMAIN reqs
       /\ reqs[q].status # "DRAFT"
       /\ ~pos[p].cut => reqs[q].status = "CONVERTED"
  /\ \A r \in DOMAIN receipts :
       /\ receipts[r].po \in DOMAIN pos
       /\ DOMAIN receipts[r].qty = DOMAIN pos[receipts[r].po].lines
       /\ receipts[r].status = "DRAFT" => receipts[r].event = 0
  /\ \A e \in DOMAIN ledger :
       ledger[e].saves >= 2 => <<ledger[e].receipt, ledger[e].key>> \in idem

\* The inductive invariant.
IInv ==
  /\ TypeOK
  /\ References
  /\ SameIdsAlike
  /\ PostedOnce
  /\ StatusTellsReceived
  /\ OrderedOnceAsRequested

\* Lines with one id are received alike because a receipt has one quantity for
\* all of them; so "the first postable line of the id" is as good as any.
QtysAlike ==
  \A r \in DOMAIN receipts :
    LET p == receipts[r].po IN
    \A i \in DOMAIN pos[p].lines : \A j \in SameId(p, i) :
      receipts[r].qty[j] = receipts[r].qty[i]

\* What the agreement of ledger and orders rests on.
LedgerIInv == IInv /\ QtysAlike /\ LedgerTellsReceived
=============================================================================
