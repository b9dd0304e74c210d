------------------------------- MODULE Sourcing -------------------------------
(***************************************************************************)
(* From a request for quotation to a purchase order: api/rfqs.js,          *)
(* api/quotes.js, the selection of a quote and the order made from it.     *)
(*                                                                         *)
(* Three collections of one tenant refer to each other.  A handler loads   *)
(* a collection, changes one record and saves the collection; it never     *)
(* waits in between, so requests are served one after the other, and only  *)
(* a crash between the two saves of an order is seen from outside.  The    *)
(* store is the synchronous one the handlers are written for.              *)
(***************************************************************************)
EXTENDS Integers, Sequences, FiniteSets

CONSTANTS
  Rfqs, Quotes, Orders,  \* the ids that randomUUID may hand out
  Vendors,
  Uoms,                  \* units of measure
  MaxLines,              \* bound on the line ids of all RFQs together
  MaxQuoteLines,         \* bound on the lines of a quote
  Null

ASSUME SourcingAssumption ==
  /\ MaxLines \in Nat
  /\ MaxQuoteLines \in Nat
  /\ Null \notin Quotes
  /\ Null \notin Orders

VARIABLES
  rfqs,      \* rfqs.json
  quotes,    \* vendor_quotes.json
  orders,    \* purchase_orders.json
  eligible,  \* the vendors isVendorEligible holds of
  lastLine,  \* how many RFQ line ids have been handed out
  cut        \* the orders whose handler died before it linked them

vars == <<rfqs, quotes, orders, eligible, lastLine, cut>>

LineIds == 1..MaxLines

QuoteLine == [line : LineIds, uom : Uoms]

QuoteLines == UNION {[1..n -> QuoteLine] : n \in 0..MaxQuoteLines}

\* An RFQ's lines are a map from line ids to units; item and quantity follow
\* the line id.
Rfq == [status   : {"DRAFT", "ISSUED", "CANCELLED", "CLOSED"},
        lines    : UNION {[S -> Uoms] : S \in SUBSET LineIds},
        invited  : SUBSET Vendors,
        selected : Quotes \cup {Null},
        po       : Orders \cup {Null}]

Quote == [rfq    : Rfqs,
          vendor : Vendors,
          status : {"DRAFT", "SUBMITTED", "WITHDRAWN"},
          lines  : QuoteLines]

\* A line of an order has the unit of the RFQ's line and the price of a line
\* of the quote, named here by its index.
OrderLine == [uom : Uoms, pricedBy : 1..MaxQuoteLines]

Order == [rfq    : Rfqs,
          quote  : Quotes,
          vendor : Vendors,
          lines  : UNION {[S -> OrderLine] : S \in SUBSET LineIds}]

\* A collection is a map from the ids that are taken.
Collection(c, Ids, Records) == DOMAIN c \subseteq Ids /\ c \in [DOMAIN c -> Records]

TypeOK ==
  /\ Collection(rfqs, Rfqs, Rfq)
  /\ Collection(quotes, Quotes, Quote)
  /\ Collection(orders, Orders, Order)
  /\ eligible \subseteq Vendors
  /\ lastLine \in 0..MaxLines
  /\ cut \subseteq Orders

Empty == [x \in {} |-> Null]

Init ==
  /\ rfqs = Empty
  /\ quotes = Empty
  /\ orders = Empty
  /\ eligible \in SUBSET Vendors
  /\ lastLine = 0
  /\ cut = {}

\* A record pushed to a collection, or put in the place of the one there.
With(collection, id, record) ==
  [x \in DOMAIN collection \cup {id} |->
     IF x = id THEN record ELSE collection[x]]

-----------------------------------------------------------------------------
(* RFQs                                                                     *)

\* Mutant: the numbering starts one too low.
NewLinesFromZero(uoms) ==
  [l \in lastLine .. lastLine + Len(uoms) - 1 |-> uoms[l - lastLine + 1]]

\* Every line that is stored gets an id of its own.
NewLines(uoms) == [l \in lastLine + 1 .. lastLine + Len(uoms) |-> uoms[l - lastLine]]

LinesLeft == UNION {[1..n -> Uoms] : n \in 1..(MaxLines - lastLine)}

CreateRfq(r, uoms) ==
  /\ r \notin DOMAIN rfqs
  /\ rfqs' = With(rfqs, r, [status |-> "DRAFT", lines |-> NewLines(uoms),
                            invited |-> {}, selected |-> Null, po |-> Null])
  /\ lastLine' = lastLine + Len(uoms)
  /\ UNCHANGED <<quotes, orders, eligible, cut>>

\* Mutant: an issued RFQ may still be edited.
EditableUntilClosed(r) == rfqs[r].status \in {"DRAFT", "ISSUED"}

Editable(r) == rfqs[r].status = "DRAFT"

\* PUT: the lines are stored anew, with new ids, also when the body has none.
UpdateRfq(r, uoms) ==
  /\ Editable(r)
  /\ rfqs' = [rfqs EXCEPT ![r].lines = NewLines(uoms)]
  /\ lastLine' = lastLine + Len(uoms)
  /\ UNCHANGED <<quotes, orders, eligible, cut>>

Move(r, from, to) ==
  /\ rfqs[r].status \in from
  /\ rfqs' = [rfqs EXCEPT ![r].status = to]
  /\ UNCHANGED <<quotes, orders, eligible, lastLine, cut>>

IssueRfq(r) == Move(r, {"DRAFT"}, "ISSUED")

CancelRfq(r) == Move(r, {"DRAFT", "ISSUED"}, "CANCELLED")

CloseRfq(r) == Move(r, {"ISSUED"}, "CLOSED")

\* The list is replaced.
InviteVendors(r, vendors) ==
  /\ rfqs[r].status \in {"DRAFT", "ISSUED"}
  /\ vendors \subseteq eligible
  /\ rfqs' = [rfqs EXCEPT ![r].invited = vendors]
  /\ UNCHANGED <<quotes, orders, eligible, lastLine, cut>>

-----------------------------------------------------------------------------
(* Quotes                                                                   *)

\* ensureUomMatches: lines the RFQ has, in its units.  It allows repetition.
UomMatches(r, lines) ==
  \A i \in DOMAIN lines :
    /\ lines[i].line \in DOMAIN rfqs[r].lines
    /\ lines[i].uom = rfqs[r].lines[lines[i].line]

\* The sorted ids are compared, and an RFQ's ids are distinct.
CoversAllLines(r, lines) ==
  /\ Len(lines) = Cardinality(DOMAIN rfqs[r].lines)
  /\ {lines[i].line : i \in DOMAIN lines} = DOMAIN rfqs[r].lines

\* The RFQ's status does not matter here.
CreateQuote(q, r, v, lines) ==
  /\ q \notin DOMAIN quotes
  /\ v \in eligible
  /\ rfqs[r].invited # {} => v \in rfqs[r].invited
  /\ UomMatches(r, lines)
  /\ quotes' = With(quotes, q, [rfq |-> r, vendor |-> v, status |-> "DRAFT",
                                lines |-> lines])
  /\ UNCHANGED <<rfqs, orders, eligible, lastLine, cut>>

UpdateQuote(q, lines) ==
  /\ quotes[q].status = "DRAFT"
  /\ quotes[q].vendor \in eligible
  /\ lines # << >>
  /\ UomMatches(quotes[q].rfq, lines)
  /\ quotes' = [quotes EXCEPT ![q].lines = lines]
  /\ UNCHANGED <<rfqs, orders, eligible, lastLine, cut>>

SubmitQuote(q) ==
  LET r == quotes[q].rfq IN
  /\ quotes[q].status = "DRAFT"
  /\ quotes[q].vendor \in eligible
  /\ rfqs[r].status = "ISSUED"
  /\ quotes[q].lines # << >>
  /\ CoversAllLines(r, quotes[q].lines)
  /\ UomMatches(r, quotes[q].lines)
  /\ quotes' = [quotes EXCEPT ![q].status = "SUBMITTED"]
  /\ UNCHANGED <<rfqs, orders, eligible, lastLine, cut>>

\* Also when the quote is selected or ordered.
WithdrawQuote(q) ==
  /\ quotes[q].status \in {"DRAFT", "SUBMITTED"}
  /\ quotes[q].vendor \in eligible
  /\ quotes' = [quotes EXCEPT ![q].status = "WITHDRAWN"]
  /\ UNCHANGED <<rfqs, orders, eligible, lastLine, cut>>

-----------------------------------------------------------------------------
(* Selection and order                                                      *)

SelectQuote(r, q) ==
  /\ rfqs[r].status = "ISSUED"
  /\ quotes[q].rfq = r
  /\ quotes[q].status = "SUBMITTED"
  /\ quotes[q].vendor \in eligible
  /\ rfqs[r].selected = Null
  /\ rfqs' = [rfqs EXCEPT ![r].selected = q]
  /\ UNCHANGED <<quotes, orders, eligible, lastLine, cut>>

\* Mutant: the RFQ is not asked whether it has an order.
MayOrderAgain(r) ==
  /\ rfqs[r].selected \in DOMAIN quotes
  /\ LET q == rfqs[r].selected IN
     /\ quotes[q].rfq = r
     /\ quotes[q].status = "SUBMITTED"
     /\ quotes[q].vendor \in eligible
     /\ UomMatches(r, quotes[q].lines)

\* The checks of poFromSelectedQuoteRouter; the RFQ's status is not one.
MayOrder(r) ==
  /\ rfqs[r].selected \in DOMAIN quotes
  /\ rfqs[r].po = Null
  /\ LET q == rfqs[r].selected IN
     /\ quotes[q].rfq = r
     /\ quotes[q].status = "SUBMITTED"
     /\ quotes[q].vendor \in eligible
     /\ UomMatches(r, quotes[q].lines)

\* Mutant: a line is priced by the quote's line in the same place.
PricedByPlace(q, l) ==
  Cardinality({k \in DOMAIN rfqs[quotes[q].rfq].lines : k <= l})

\* The first of the quote's lines for l.
PricedBy(q, l) ==
  CHOOSE i \in DOMAIN quotes[q].lines :
    /\ quotes[q].lines[i].line = l
    /\ \A j \in DOMAIN quotes[q].lines :
         quotes[q].lines[j].line = l => i <= j

\* A line without a quoted price throws before anything is saved.
Priced(q, r) ==
  \A l \in DOMAIN rfqs[r].lines :
    \E i \in DOMAIN quotes[q].lines : quotes[q].lines[i].line = l

OrderFrom(r) ==
  LET q == rfqs[r].selected IN
  [rfq |-> r, quote |-> q, vendor |-> quotes[q].vendor,
   lines |-> [l \in DOMAIN rfqs[r].lines |->
                [uom |-> rfqs[r].lines[l], pricedBy |-> PricedBy(q, l)]]]

\* Two saves: the order, then the RFQ that names it.
PoFromSelectedQuote(r, o) ==
  /\ o \notin DOMAIN orders
  /\ MayOrder(r)
  /\ Priced(rfqs[r].selected, r)
  /\ orders' = With(orders, o, OrderFrom(r))
  /\ rfqs' = [rfqs EXCEPT ![r].po = o]
  /\ UNCHANGED <<quotes, eligible, lastLine, cut>>

\* The process dies after the first.
PoCut(r, o) ==
  /\ o \notin DOMAIN orders
  /\ MayOrder(r)
  /\ Priced(rfqs[r].selected, r)
  /\ orders' = With(orders, o, OrderFrom(r))
  /\ cut' = cut \cup {o}
  /\ UNCHANGED <<rfqs, quotes, eligible, lastLine>>

\* Vendors and their compliance records are changed by others.
VendorChanges(v) ==
  /\ eligible' = IF v \in eligible THEN eligible \ {v} ELSE eligible \cup {v}
  /\ UNCHANGED <<rfqs, quotes, orders, lastLine, cut>>

RfqNext(r) ==
  \/ \E uoms \in LinesLeft : UpdateRfq(r, uoms)
  \/ IssueRfq(r)
  \/ CancelRfq(r)
  \/ CloseRfq(r)
  \/ \E vendors \in SUBSET Vendors : InviteVendors(r, vendors)
  \/ \E q \in Quotes, v \in Vendors, lines \in QuoteLines :
       CreateQuote(q, r, v, lines)
  \/ \E q \in DOMAIN quotes : SelectQuote(r, q)
  \/ \E o \in Orders : PoFromSelectedQuote(r, o) \/ PoCut(r, o)

QuoteNext(q) ==
  \/ \E lines \in QuoteLines : UpdateQuote(q, lines)
  \/ SubmitQuote(q)
  \/ WithdrawQuote(q)

Next ==
  \/ \E r \in Rfqs, uoms \in LinesLeft : CreateRfq(r, uoms)
  \/ \E r \in DOMAIN rfqs : RfqNext(r)
  \/ \E q \in DOMAIN quotes : QuoteNext(q)
  \/ \E v \in Vendors : VendorChanges(v)

Spec == Init /\ [][Next]_vars

-----------------------------------------------------------------------------
(* What is checked                                                          *)

\* Comparison, selection and ordering take for granted what only submission
\* checks: every submitted quote covers exactly the lines its RFQ has now, in
\* their units (quotes.js, submit).
SubmittedCovers ==
  \A q \in DOMAIN quotes :
    quotes[q].status = "SUBMITTED" =>
      LET r == quotes[q].rfq IN
      /\ r \in DOMAIN rfqs
      /\ CoversAllLines(r, quotes[q].lines)
      /\ UomMatches(r, quotes[q].lines)

\* An order says for ever what its RFQ, the selected quote and the vendor's
\* prices say: lines, units, prices and vendor agree with both records as
\* they are now (purchaseOrdersFromSelectedQuote.js).
OrderAsQuoted ==
  \A o \in DOMAIN orders :
    LET r == orders[o].rfq
        q == orders[o].quote
    IN  /\ r \in DOMAIN rfqs /\ q \in DOMAIN quotes
        /\ rfqs[r].selected = q
        /\ quotes[q].rfq = r
        /\ orders[o].vendor = quotes[q].vendor
        /\ DOMAIN orders[o].lines = DOMAIN rfqs[r].lines
        /\ \A l \in DOMAIN orders[o].lines :
             LET ln == orders[o].lines[l] IN
             /\ ln.uom = rfqs[r].lines[l]
             /\ ln.pricedBy \in DOMAIN quotes[q].lines
             /\ quotes[q].lines[ln.pricedBy] = [line |-> l, uom |-> ln.uom]

\* An RFQ never names an order that is missing or of another RFQ, so
\* RFQ_PO_REFERENCE_BROKEN is never answered; and an RFQ has one order, a
\* crash between the two saves apart (the "idempotency anchor").
OneLinkedOrder ==
  /\ \A r \in DOMAIN rfqs :
       rfqs[r].po # Null => /\ rfqs[r].po \in DOMAIN orders \ cut
                            /\ orders[rfqs[r].po].rfq = r
  /\ \A o \in DOMAIN orders \ cut :
       LET r == orders[o].rfq IN r \in DOMAIN rfqs /\ rfqs[r].po = o

\* What keeps the three collections consistent: a quote is submitted, and
\* selected, only once its RFQ has left DRAFT, after which neither's lines
\* change.
References ==
  /\ \A q \in DOMAIN quotes :
       /\ quotes[q].rfq \in DOMAIN rfqs
       /\ quotes[q].status = "SUBMITTED" =>
            rfqs[quotes[q].rfq].status # "DRAFT"
  /\ \A r \in DOMAIN rfqs :
       LET q == rfqs[r].selected IN
       q # Null => /\ q \in DOMAIN quotes
                   /\ quotes[q].rfq = r
                   /\ quotes[q].status # "DRAFT"
                   /\ rfqs[r].status # "DRAFT"
  /\ cut \subseteq DOMAIN orders

\* The inductive invariant.
IInv ==
  /\ TypeOK
  /\ References
  /\ SubmittedCovers
  /\ OrderAsQuoted
  /\ OneLinkedOrder
=============================================================================
