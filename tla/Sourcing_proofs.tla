---------------------------- MODULE Sourcing_proofs ----------------------------
(***************************************************************************)
(* Theorems about sourcing, for any ids, vendors, units and bounds.  The   *)
(* argument: records only move forward (Forward).  What a submitted quote  *)
(* covers and what an order says was true when it was written, and nothing *)
(* it depends on changes after that.                                       *)
(***************************************************************************)
EXTENDS Sourcing, WellFoundedInduction, TLAPS

\* What every step leaves alone: an RFQ that has left DRAFT keeps its lines,
\* a selection and a link to an order stay, a quote that has left DRAFT keeps
\* its lines, and a quote its RFQ and vendor.
Forward ==
  /\ \A r \in DOMAIN rfqs :
       /\ r \in DOMAIN rfqs'
       /\ rfqs[r].status # "DRAFT" => /\ rfqs'[r].status # "DRAFT"
                                      /\ rfqs'[r].lines = rfqs[r].lines
       /\ rfqs[r].selected # Null => rfqs'[r].selected = rfqs[r].selected
       /\ rfqs[r].po # Null => rfqs'[r].po = rfqs[r].po
  /\ \A q \in DOMAIN quotes :
       /\ q \in DOMAIN quotes'
       /\ quotes'[q].rfq = quotes[q].rfq
       /\ quotes'[q].vendor = quotes[q].vendor
       /\ quotes[q].status # "DRAFT" => /\ quotes'[q].status # "DRAFT"
                                        /\ quotes'[q].lines = quotes[q].lines

(* Facts about the operators                                                *)

\* Storing a record keeps the collection's shape.
LEMMA WithCollection ==
  ASSUME NEW c, NEW id, NEW rec, NEW Ids, NEW Records,
         Collection(c, Ids, Records), id \in Ids, rec \in Records
  PROVE  Collection(With(c, id, rec), Ids, Records)
BY DEF With, Collection

\* Every nonempty set of numbers has a least one.
LEMMA LeastNumber ==
  ASSUME NEW T, T \subseteq Nat, T # {}
  PROVE  \E x \in T : \A y \in T : x <= y
<1> DEFINE R == {p \in Nat \X Nat : p[1] < p[2]}
<1>1. IsWellFoundedOn(R, Nat)
  BY NatLessThanWellFounded DEF OpToRel
<1>2. \E x \in T : \A y \in T : ~(<<y, x>> \in R)
  <2> HIDE DEF R
  <2> QED BY <1>1, WFMin
<1>3. PICK x \in T : \A y \in T : ~(<<y, x>> \in R)
  BY <1>2
<1>4. ASSUME NEW y \in T PROVE x <= y
  <2>1. x \in Nat /\ y \in Nat
    OBVIOUS
  <2>2. ~(y < x)
    BY <1>3, <2>1
  <2> QED BY <2>1, <2>2
<1> QED BY <1>4

\* The line an order is priced by is one of the quote's lines for l.
LEMMA PricedByFacts ==
  ASSUME NEW q, NEW l, quotes[q].lines \in QuoteLines, MaxQuoteLines \in Nat,
         \E i \in DOMAIN quotes[q].lines : quotes[q].lines[i].line = l
  PROVE  /\ PricedBy(q, l) \in DOMAIN quotes[q].lines
         /\ PricedBy(q, l) \in 1..MaxQuoteLines
         /\ quotes[q].lines[PricedBy(q, l)].line = l
<1> DEFINE T == {i \in DOMAIN quotes[q].lines : quotes[q].lines[i].line = l}
<1>1. PICK n \in 0..MaxQuoteLines : quotes[q].lines \in [1..n -> QuoteLine]
  BY DEF QuoteLines
<1>2. DOMAIN quotes[q].lines = 1..n /\ 1..n \subseteq 1..MaxQuoteLines
  BY <1>1
<1>3. T \subseteq Nat /\ T # {}
  BY <1>2
<1>4. PICK x \in T : \A y \in T : x <= y
  <2> HIDE DEF T
  <2> QED BY <1>3, LeastNumber
<1>5. \E i \in DOMAIN quotes[q].lines :
        /\ quotes[q].lines[i].line = l
        /\ \A j \in DOMAIN quotes[q].lines :
             quotes[q].lines[j].line = l => i <= j
  BY <1>4
<1>6. /\ PricedBy(q, l) \in DOMAIN quotes[q].lines
      /\ quotes[q].lines[PricedBy(q, l)].line = l
  BY <1>5 DEF PricedBy
<1> QED BY <1>2, <1>6

-----------------------------------------------------------------------------
(* Every step moves forward                                                 *)

\* No step undoes what later records rely on.
LEMMA StepForward ==
  ASSUME IInv, [Next]_vars
  PROVE  Forward
<1> USE DEF IInv, TypeOK, Collection, References
<1>1. CASE UNCHANGED vars
  BY <1>1 DEF vars, Forward
<1>2. ASSUME NEW r \in Rfqs, NEW uoms \in LinesLeft, CreateRfq(r, uoms)
      PROVE  Forward
  BY <1>2 DEF CreateRfq, With, Forward
<1>3. ASSUME NEW r \in DOMAIN rfqs, RfqNext(r) PROVE Forward
  <2>1. ASSUME NEW uoms \in LinesLeft, UpdateRfq(r, uoms) PROVE Forward
    BY <1>3, <2>1 DEF UpdateRfq, Editable, Rfq, Forward
  <2>2. CASE IssueRfq(r)
    BY <1>3, <2>2 DEF IssueRfq, Move, Rfq, Forward
  <2>3. CASE CancelRfq(r)
    BY <1>3, <2>3 DEF CancelRfq, Move, Rfq, Forward
  <2>4. CASE CloseRfq(r)
    BY <1>3, <2>4 DEF CloseRfq, Move, Rfq, Forward
  <2>5. ASSUME NEW vendors \in SUBSET Vendors, InviteVendors(r, vendors)
        PROVE  Forward
    BY <1>3, <2>5 DEF InviteVendors, Rfq, Forward
  <2>6. ASSUME NEW q \in Quotes, NEW v \in Vendors, NEW lines \in QuoteLines,
               CreateQuote(q, r, v, lines)
        PROVE  Forward
    BY <2>6 DEF CreateQuote, With, Forward
  <2>7. ASSUME NEW q \in DOMAIN quotes, SelectQuote(r, q) PROVE Forward
    BY <1>3, <2>7 DEF SelectQuote, Rfq, Forward
  <2>8. ASSUME NEW o \in Orders, PoFromSelectedQuote(r, o) PROVE Forward
    BY <1>3, <2>8 DEF PoFromSelectedQuote, MayOrder, Rfq, Forward
  <2>9. ASSUME NEW o \in Orders, PoCut(r, o) PROVE Forward
    BY <2>9 DEF PoCut, Forward
  <2> QED BY <1>3, <2>1, <2>2, <2>3, <2>4, <2>5, <2>6, <2>7, <2>8, <2>9
        DEF RfqNext
<1>4. ASSUME NEW q \in DOMAIN quotes, QuoteNext(q) PROVE Forward
  <2>1. ASSUME NEW lines \in QuoteLines, UpdateQuote(q, lines) PROVE Forward
    BY <1>4, <2>1 DEF UpdateQuote, Quote, Forward
  <2>2. CASE SubmitQuote(q)
    BY <1>4, <2>2 DEF SubmitQuote, Quote, Forward
  <2>3. CASE WithdrawQuote(q)
    BY <1>4, <2>3 DEF WithdrawQuote, Quote, Forward
  <2> QED BY <1>4, <2>1, <2>2, <2>3 DEF QuoteNext
<1>5. ASSUME NEW v \in Vendors, VendorChanges(v) PROVE Forward
  BY <1>5 DEF VendorChanges, Forward
<1> QED BY <1>1, <1>2, <1>3, <1>4, <1>5 DEF Next

-----------------------------------------------------------------------------
(* Types                                                                    *)

\* A map from line ids to units.
LEMMA NewLinesType ==
  ASSUME NEW uoms \in LinesLeft, lastLine \in 0..MaxLines, MaxLines \in Nat
  PROVE  /\ NewLines(uoms) \in UNION {[S -> Uoms] : S \in SUBSET LineIds}
         /\ lastLine + Len(uoms) \in 0..MaxLines
<1>1. PICK n \in 1..(MaxLines - lastLine) : uoms \in [1..n -> Uoms]
  BY DEF LinesLeft
<1>2. uoms \in Seq(Uoms) /\ Len(uoms) = n
  BY <1>1
<1> DEFINE S == lastLine + 1 .. lastLine + n
<1>3. S \in SUBSET LineIds
  BY <1>1 DEF LineIds
<1>4. NewLines(uoms) = [l \in S |-> uoms[l - lastLine]]
  BY <1>2 DEF NewLines
<1>5. ASSUME NEW l \in S PROVE uoms[l - lastLine] \in Uoms
  <2>1. l - lastLine \in 1..n
    BY <1>1
  <2> QED BY <1>1, <2>1
<1>6. NewLines(uoms) \in [S -> Uoms]
  BY <1>4, <1>5
<1> QED BY <1>1, <1>2, <1>3, <1>6

\* What MayOrder and Priced leave to know about an order that is written.
LEMMA OrderFromFacts ==
  ASSUME IInv, NEW r \in DOMAIN rfqs, MayOrder(r), Priced(rfqs[r].selected, r)
  PROVE  /\ OrderFrom(r) \in Order
         /\ rfqs[r].selected \in DOMAIN quotes
         /\ OrderFrom(r).rfq = r
         /\ OrderFrom(r).quote = rfqs[r].selected
         /\ OrderFrom(r).vendor = quotes[rfqs[r].selected].vendor
         /\ DOMAIN OrderFrom(r).lines = DOMAIN rfqs[r].lines
         /\ \A l \in DOMAIN rfqs[r].lines :
              LET ln == OrderFrom(r).lines[l]
                  ls == quotes[rfqs[r].selected].lines
              IN  /\ ln.uom = rfqs[r].lines[l]
                  /\ ln.pricedBy \in DOMAIN ls
                  /\ ls[ln.pricedBy] = [line |-> l, uom |-> ln.uom]
<1> DEFINE q == rfqs[r].selected
           ls == quotes[q].lines
           L == DOMAIN rfqs[r].lines
<1>1. q \in DOMAIN quotes /\ UomMatches(r, ls)
  BY DEF MayOrder
<1>2. /\ r \in Rfqs /\ q \in Quotes
      /\ quotes[q].vendor \in Vendors
      /\ ls \in QuoteLines
      /\ L \in SUBSET LineIds
      /\ rfqs[r].lines \in [L -> Uoms]
  BY <1>1 DEF IInv, TypeOK, Collection, Rfq, Quote
<1>3. ASSUME NEW l \in L
      PROVE  /\ PricedBy(q, l) \in DOMAIN ls
             /\ PricedBy(q, l) \in 1..MaxQuoteLines
             /\ ls[PricedBy(q, l)] = [line |-> l, uom |-> rfqs[r].lines[l]]
  <2>1. /\ PricedBy(q, l) \in DOMAIN ls
        /\ PricedBy(q, l) \in 1..MaxQuoteLines
        /\ ls[PricedBy(q, l)].line = l
    BY <1>2, PricedByFacts, SourcingAssumption DEF Priced
  <2>2. ls[PricedBy(q, l)].uom = rfqs[r].lines[l]
    BY <1>1, <2>1 DEF UomMatches
  <2>3. ls[PricedBy(q, l)] \in QuoteLine
    BY <1>2, <2>1 DEF QuoteLines
  <2> QED BY <2>1, <2>2, <2>3 DEF QuoteLine
<1>4. OrderFrom(r) =
        [rfq |-> r, quote |-> q, vendor |-> quotes[q].vendor,
         lines |-> [l \in L |-> [uom |-> rfqs[r].lines[l],
                                 pricedBy |-> PricedBy(q, l)]]]
  BY DEF OrderFrom
<1>5. [l \in L |-> [uom |-> rfqs[r].lines[l], pricedBy |-> PricedBy(q, l)]]
        \in [L -> OrderLine]
  BY <1>2, <1>3 DEF OrderLine
<1>6. OrderFrom(r) \in Order
  BY <1>2, <1>4, <1>5 DEF Order
<1> QED BY <1>1, <1>3, <1>4, <1>6

LEMMA StepType ==
  ASSUME IInv, [Next]_vars
  PROVE  TypeOK'
<1> USE DEF Collection
<1>0. TypeOK
  BY DEF IInv
<1>1. CASE UNCHANGED vars
  BY <1>0, <1>1 DEF vars, TypeOK
<1>2. ASSUME NEW r \in Rfqs, NEW uoms \in LinesLeft, CreateRfq(r, uoms)
      PROVE  TypeOK'
  <2>1. [status |-> "DRAFT", lines |-> NewLines(uoms), invited |-> {},
         selected |-> Null, po |-> Null] \in Rfq
    BY <1>0, NewLinesType, SourcingAssumption DEF TypeOK, Rfq
  <2>2. Collection(rfqs', Rfqs, Rfq)
    BY <1>0, <1>2, <2>1, WithCollection DEF CreateRfq, TypeOK
  <2> QED BY <1>0, <1>2, <2>2, NewLinesType, SourcingAssumption
          DEF CreateRfq, TypeOK
<1>3. ASSUME NEW r \in DOMAIN rfqs, RfqNext(r) PROVE TypeOK'
  <2>0. r \in Rfqs /\ rfqs[r] \in Rfq
    BY <1>0, <1>3 DEF TypeOK
  <2>1. ASSUME NEW uoms \in LinesLeft, UpdateRfq(r, uoms) PROVE TypeOK'
    <3>1. rfqs' \in [DOMAIN rfqs -> Rfq]
      BY <1>0, <2>0, <2>1, NewLinesType, SourcingAssumption
      DEF UpdateRfq, TypeOK, Rfq
    <3> QED BY <1>0, <2>1, <3>1, NewLinesType, SourcingAssumption
            DEF UpdateRfq, TypeOK
  <2>2. CASE IssueRfq(r)
    BY <1>0, <2>0, <2>2 DEF IssueRfq, Move, TypeOK, Rfq
  <2>3. CASE CancelRfq(r)
    BY <1>0, <2>0, <2>3 DEF CancelRfq, Move, TypeOK, Rfq
  <2>4. CASE CloseRfq(r)
    BY <1>0, <2>0, <2>4 DEF CloseRfq, Move, TypeOK, Rfq
  <2>5. ASSUME NEW vendors \in SUBSET Vendors, InviteVendors(r, vendors)
        PROVE  TypeOK'
    BY <1>0, <2>0, <2>5 DEF InviteVendors, TypeOK, Rfq
  <2>6. ASSUME NEW q \in Quotes, NEW v \in Vendors, NEW lines \in QuoteLines,
               CreateQuote(q, r, v, lines)
        PROVE  TypeOK'
    <3>1. [rfq |-> r, vendor |-> v, status |-> "DRAFT", lines |-> lines] \in Quote
      BY <2>0 DEF Quote
    <3>2. Collection(quotes', Quotes, Quote)
      BY <1>0, <2>6, <3>1, WithCollection DEF CreateQuote, TypeOK
    <3> QED BY <1>0, <2>6, <3>2 DEF CreateQuote, TypeOK
  <2>7. ASSUME NEW q \in DOMAIN quotes, SelectQuote(r, q) PROVE TypeOK'
    BY <1>0, <2>0, <2>7 DEF SelectQuote, TypeOK, Rfq
  <2>8. ASSUME NEW o \in Orders, PoFromSelectedQuote(r, o) PROVE TypeOK'
    <3>1. Collection(orders', Orders, Order)
      BY <1>0, <2>8, OrderFromFacts, WithCollection
      DEF PoFromSelectedQuote, TypeOK
    <3>2. rfqs' \in [DOMAIN rfqs -> Rfq]
      BY <1>0, <2>0, <2>8 DEF PoFromSelectedQuote, TypeOK, Rfq
    <3> QED BY <1>0, <2>8, <3>1, <3>2 DEF PoFromSelectedQuote, TypeOK
  <2>9. ASSUME NEW o \in Orders, PoCut(r, o) PROVE TypeOK'
    <3>1. Collection(orders', Orders, Order)
      BY <1>0, <2>9, OrderFromFacts, WithCollection DEF PoCut, TypeOK
    <3> QED BY <1>0, <2>9, <3>1 DEF PoCut, TypeOK
  <2> QED BY <1>3, <2>1, <2>2, <2>3, <2>4, <2>5, <2>6, <2>7, <2>8, <2>9
        DEF RfqNext
<1>4. ASSUME NEW q \in DOMAIN quotes, QuoteNext(q) PROVE TypeOK'
  <2>1. ASSUME NEW lines \in QuoteLines, UpdateQuote(q, lines) PROVE TypeOK'
    BY <1>0, <1>4, <2>1 DEF UpdateQuote, TypeOK, Quote
  <2>2. CASE SubmitQuote(q)
    BY <1>0, <1>4, <2>2 DEF SubmitQuote, TypeOK, Quote
  <2>3. CASE WithdrawQuote(q)
    BY <1>0, <1>4, <2>3 DEF WithdrawQuote, TypeOK, Quote
  <2> QED BY <1>4, <2>1, <2>2, <2>3 DEF QuoteNext
<1>5. ASSUME NEW v \in Vendors, VendorChanges(v) PROVE TypeOK'
  BY <1>0, <1>5 DEF VendorChanges, TypeOK
<1> QED BY <1>1, <1>2, <1>3, <1>4, <1>5 DEF Next

-----------------------------------------------------------------------------
(* References                                                               *)

LEMMA StepReferences ==
  ASSUME IInv, [Next]_vars
  PROVE  References'
<1> USE DEF Collection
<1>0. TypeOK /\ References
  BY DEF IInv
<1>1. CASE UNCHANGED vars
  BY <1>0, <1>1 DEF vars, References
<1>2. ASSUME NEW r \in Rfqs, NEW uoms \in LinesLeft, CreateRfq(r, uoms)
      PROVE  References'
  BY <1>0, <1>2 DEF CreateRfq, With, References, TypeOK
<1>3. ASSUME NEW r \in DOMAIN rfqs, RfqNext(r) PROVE References'
  <2>0. r \in Rfqs /\ rfqs[r] \in Rfq
    BY <1>0, <1>3 DEF TypeOK
  <2>1. ASSUME NEW uoms \in LinesLeft, UpdateRfq(r, uoms) PROVE References'
    BY <1>0, <2>0, <2>1 DEF UpdateRfq, References, TypeOK, Rfq
  <2>2. CASE IssueRfq(r)
    BY <1>0, <2>0, <2>2 DEF IssueRfq, Move, References, TypeOK, Rfq
  <2>3. CASE CancelRfq(r)
    BY <1>0, <2>0, <2>3 DEF CancelRfq, Move, References, TypeOK, Rfq
  <2>4. CASE CloseRfq(r)
    BY <1>0, <2>0, <2>4 DEF CloseRfq, Move, References, TypeOK, Rfq
  <2>5. ASSUME NEW vendors \in SUBSET Vendors, InviteVendors(r, vendors)
        PROVE  References'
    BY <1>0, <2>0, <2>5 DEF InviteVendors, References, TypeOK, Rfq
  <2>6. ASSUME NEW q \in Quotes, NEW v \in Vendors, NEW lines \in QuoteLines,
               CreateQuote(q, r, v, lines)
        PROVE  References'
    BY <1>0, <1>3, <2>0, <2>6 DEF CreateQuote, With, References, TypeOK
  <2>7. ASSUME NEW q \in DOMAIN quotes, SelectQuote(r, q) PROVE References'
    BY <1>0, <2>0, <2>7 DEF SelectQuote, References, TypeOK, Rfq
  <2>8. ASSUME NEW o \in Orders, PoFromSelectedQuote(r, o) PROVE References'
    BY <1>0, <2>0, <2>8 DEF PoFromSelectedQuote, With, References, TypeOK, Rfq
  <2>9. ASSUME NEW o \in Orders, PoCut(r, o) PROVE References'
    BY <1>0, <2>9 DEF PoCut, With, References
  <2> QED BY <1>3, <2>1, <2>2, <2>3, <2>4, <2>5, <2>6, <2>7, <2>8, <2>9
        DEF RfqNext
<1>4. ASSUME NEW q \in DOMAIN quotes, QuoteNext(q) PROVE References'
  <2>1. ASSUME NEW lines \in QuoteLines, UpdateQuote(q, lines) PROVE References'
    BY <1>0, <1>4, <2>1 DEF UpdateQuote, References, TypeOK, Quote
  <2>2. CASE SubmitQuote(q)
    BY <1>0, <1>4, <2>2 DEF SubmitQuote, References, TypeOK, Quote
  <2>3. CASE WithdrawQuote(q)
    BY <1>0, <1>4, <2>3 DEF WithdrawQuote, References, TypeOK, Quote
  <2> QED BY <1>4, <2>1, <2>2, <2>3 DEF QuoteNext
<1>5. ASSUME NEW v \in Vendors, VendorChanges(v) PROVE References'
  BY <1>0, <1>5 DEF VendorChanges, References
<1> QED BY <1>1, <1>2, <1>3, <1>4, <1>5 DEF Next

-----------------------------------------------------------------------------
(* What a submitted quote covers                                            *)

\* A quote that is submitted after a step either was, or is being submitted
\* and passed the checks.
LEMMA SubmittedOnlyBySubmit ==
  ASSUME IInv, [Next]_vars, NEW q \in DOMAIN quotes',
         quotes'[q].status = "SUBMITTED"
  PROVE  \/ q \in DOMAIN quotes /\ quotes[q].status = "SUBMITTED"
         \/ q \in DOMAIN quotes /\ SubmitQuote(q)
<1> DEFINE Goal == \/ q \in DOMAIN quotes /\ quotes[q].status = "SUBMITTED"
                   \/ q \in DOMAIN quotes /\ SubmitQuote(q)
<1>0. quotes \in [DOMAIN quotes -> Quote]
  BY DEF IInv, TypeOK, Collection
<1>1. CASE UNCHANGED quotes
  BY <1>1
<1>2. ASSUME NEW r \in DOMAIN rfqs, NEW p \in Quotes, NEW v \in Vendors,
             NEW lines \in QuoteLines, CreateQuote(p, r, v, lines)
      PROVE  Goal
  BY <1>2 DEF CreateQuote, With
<1>3. ASSUME NEW p \in DOMAIN quotes, QuoteNext(p) PROVE Goal
  <2>1. ASSUME NEW lines \in QuoteLines, UpdateQuote(p, lines) PROVE Goal
    BY <1>0, <2>1 DEF UpdateQuote, Quote
  <2>2. CASE SubmitQuote(p)
    <3>1. CASE p = q
      BY <1>3, <2>2, <3>1
    <3>2. CASE p # q
      BY <1>0, <2>2, <3>2 DEF SubmitQuote
    <3> QED BY <3>1, <3>2
  <2>3. CASE WithdrawQuote(p)
    BY <1>0, <2>3 DEF WithdrawQuote, Quote
  <2> QED BY <1>3, <2>1, <2>2, <2>3 DEF QuoteNext
<1>4. \/ UNCHANGED quotes
      \/ \E r \in DOMAIN rfqs, p \in Quotes, v \in Vendors,
             lines \in QuoteLines : CreateQuote(p, r, v, lines)
      \/ \E p \in DOMAIN quotes : QuoteNext(p)
  BY DEF Next, RfqNext, vars, CreateRfq, UpdateRfq, IssueRfq, CancelRfq,
         CloseRfq, Move, InviteVendors, SelectQuote, PoFromSelectedQuote,
         PoCut, VendorChanges
<1> QED BY <1>1, <1>2, <1>3, <1>4

LEMMA StepCovers ==
  ASSUME IInv, [Next]_vars
  PROVE  SubmittedCovers'
<1>1. SUFFICES ASSUME NEW q \in DOMAIN quotes', quotes'[q].status = "SUBMITTED"
               PROVE  /\ quotes'[q].rfq \in DOMAIN rfqs'
                      /\ CoversAllLines(quotes[q].rfq, quotes[q].lines)'
                      /\ UomMatches(quotes[q].rfq, quotes[q].lines)'
  BY DEF SubmittedCovers, CoversAllLines, UomMatches
<1> DEFINE r == quotes[q].rfq
<1>2. Forward /\ References
  BY StepForward DEF IInv
<1>3. q \in DOMAIN quotes /\ (quotes[q].status = "SUBMITTED" \/ SubmitQuote(q))
  BY <1>1, SubmittedOnlyBySubmit
<1>4. /\ r \in DOMAIN rfqs
      /\ rfqs[r].status # "DRAFT"
      /\ CoversAllLines(r, quotes[q].lines)
      /\ UomMatches(r, quotes[q].lines)
  BY <1>2, <1>3 DEF References, SubmitQuote, IInv, SubmittedCovers
<1>5. /\ quotes'[q].rfq = r
      /\ r \in DOMAIN rfqs'
      /\ rfqs'[r].lines = rfqs[r].lines
  BY <1>2, <1>3, <1>4 DEF Forward
<1>6. quotes'[q].lines = quotes[q].lines
  <2>1. CASE quotes[q].status = "SUBMITTED"
    BY <1>2, <1>3, <2>1 DEF Forward
  <2>2. CASE SubmitQuote(q)
    <3>1. quotes[q] \in Quote
      BY <1>3 DEF IInv, TypeOK, Collection
    <3> QED BY <1>3, <2>2, <3>1 DEF SubmitQuote, Quote
  <2> QED BY <1>3, <2>1, <2>2
<1> QED BY <1>4, <1>5, <1>6 DEF CoversAllLines, UomMatches

-----------------------------------------------------------------------------
(* What an order says                                                       *)

\* What OrderAsQuoted says of one order.
SaysWhatWasQuoted(order) ==
  LET r == order.rfq
      q == order.quote
  IN  /\ r \in DOMAIN rfqs /\ q \in DOMAIN quotes
      /\ rfqs[r].selected = q
      /\ quotes[q].rfq = r
      /\ order.vendor = quotes[q].vendor
      /\ DOMAIN order.lines = DOMAIN rfqs[r].lines
      /\ \A l \in DOMAIN order.lines :
           LET ln == order.lines[l] IN
           /\ ln.uom = rfqs[r].lines[l]
           /\ ln.pricedBy \in DOMAIN quotes[q].lines
           /\ quotes[q].lines[ln.pricedBy] = [line |-> l, uom |-> ln.uom]

\* It goes on being true: its RFQ has a selection, so neither the RFQ nor
\* the quote is a draft.
LEMMA SaidForEver ==
  ASSUME IInv, [Next]_vars, NEW order, SaysWhatWasQuoted(order)
  PROVE  /\ order.rfq \in DOMAIN rfqs' /\ order.quote \in DOMAIN quotes'
         /\ rfqs'[order.rfq].selected = order.quote
         /\ quotes'[order.quote].rfq = order.rfq
         /\ quotes'[order.quote].vendor = quotes[order.quote].vendor
         /\ rfqs'[order.rfq].lines = rfqs[order.rfq].lines
         /\ quotes'[order.quote].lines = quotes[order.quote].lines
<1> DEFINE r == order.rfq
           q == order.quote
<1>1. Forward
  BY StepForward
<1>2. r \in DOMAIN rfqs /\ q \in DOMAIN quotes /\ rfqs[r].selected = q
  BY DEF SaysWhatWasQuoted
<1>3. q # Null
  BY <1>2, SourcingAssumption DEF IInv, TypeOK, Collection
<1>4. rfqs[r].status # "DRAFT" /\ quotes[q].status # "DRAFT"
  BY <1>2, <1>3 DEF IInv, References
<1> QED BY <1>1, <1>2, <1>3, <1>4 DEF Forward, SaysWhatWasQuoted

\* An order is one there was, or is being written for an RFQ without order.
LEMMA OrdersOnlyByOrder ==
  ASSUME [Next]_vars
  PROVE  \/ orders' = orders /\ cut' = cut
         \/ \E r \in DOMAIN rfqs, o \in Orders :
              /\ o \notin DOMAIN orders
              /\ MayOrder(r)
              /\ Priced(rfqs[r].selected, r)
              /\ orders' = With(orders, o, OrderFrom(r))
              /\ PoFromSelectedQuote(r, o) \/ PoCut(r, o)
BY DEF Next, RfqNext, QuoteNext, vars, CreateRfq, UpdateRfq, IssueRfq,
       CancelRfq, CloseRfq, Move, InviteVendors, CreateQuote, UpdateQuote,
       SubmitQuote, WithdrawQuote, SelectQuote, PoFromSelectedQuote, PoCut,
       VendorChanges

LEMMA StepOrders ==
  ASSUME IInv, [Next]_vars
  PROVE  OrderAsQuoted'
<1>1. SUFFICES ASSUME NEW o \in DOMAIN orders'
               PROVE  SaysWhatWasQuoted(orders[o])'
  BY DEF OrderAsQuoted, SaysWhatWasQuoted
<1>2. SaysWhatWasQuoted(orders'[o])
  <2>1. CASE o \in DOMAIN orders /\ orders'[o] = orders[o]
    BY <2>1 DEF IInv, OrderAsQuoted, SaysWhatWasQuoted
  <2>2. ASSUME NEW r \in DOMAIN rfqs, NEW p \in Orders,
               p \notin DOMAIN orders, MayOrder(r),
               Priced(rfqs[r].selected, r),
               orders' = With(orders, p, OrderFrom(r))
        PROVE  SaysWhatWasQuoted(orders'[o])
    <3>1. CASE o = p
      <4>1. orders'[o] = OrderFrom(r)
        BY <2>2, <3>1 DEF With
      <4>2. quotes[rfqs[r].selected].rfq = r
        BY <2>2 DEF MayOrder
      <4>3. SaysWhatWasQuoted(OrderFrom(r))
        BY <2>2, <4>2, OrderFromFacts DEF SaysWhatWasQuoted
      <4> QED BY <4>1, <4>3
    <3>2. CASE o # p
      BY <2>1, <2>2, <3>2 DEF With
    <3> QED BY <3>1, <3>2
  <2> QED BY <2>1, <2>2, OrdersOnlyByOrder
<1> DEFINE w == orders'[o]
<1>3. /\ w.rfq \in DOMAIN rfqs' /\ w.quote \in DOMAIN quotes'
      /\ rfqs'[w.rfq].selected = w.quote
      /\ quotes'[w.quote].rfq = w.rfq
      /\ quotes'[w.quote].vendor = quotes[w.quote].vendor
      /\ rfqs'[w.rfq].lines = rfqs[w.rfq].lines
      /\ quotes'[w.quote].lines = quotes[w.quote].lines
  BY <1>2, SaidForEver
<1> QED BY <1>2, <1>3 DEF SaysWhatWasQuoted

LEMMA StepOneOrder ==
  ASSUME IInv, [Next]_vars
  PROVE  OneLinkedOrder'
<1> USE DEF Collection
<1>0. TypeOK /\ References /\ OrderAsQuoted /\ OneLinkedOrder
  BY DEF IInv
<1>1. ASSUME NEW r \in DOMAIN rfqs, NEW o \in Orders, PoFromSelectedQuote(r, o)
      PROVE  OneLinkedOrder'
  <2>1. /\ o \notin DOMAIN orders /\ o \notin cut /\ o # Null
        /\ rfqs[r].po = Null
        /\ orders' = With(orders, o, OrderFrom(r)) /\ cut' = cut
        /\ rfqs' = [rfqs EXCEPT ![r].po = o]
    BY <1>0, <1>1, SourcingAssumption DEF PoFromSelectedQuote, MayOrder, References
  <2>2. /\ DOMAIN orders' = DOMAIN orders \cup {o}
        /\ orders'[o].rfq = r
        /\ \A p \in DOMAIN orders : orders'[p] = orders[p]
    <3>1. OrderFrom(r).rfq = r
      BY DEF OrderFrom
    <3> QED BY <2>1, <3>1 DEF With
  <2>3. /\ DOMAIN rfqs' = DOMAIN rfqs
        /\ rfqs'[r].po = o
        /\ \A s \in DOMAIN rfqs : s # r => rfqs'[s].po = rfqs[s].po
    <3>1. rfqs[r] \in Rfq
      BY <1>0 DEF TypeOK
    <3> QED BY <2>1, <3>1 DEF Rfq
  <2>4. ASSUME NEW s \in DOMAIN rfqs', rfqs'[s].po # Null
        PROVE  rfqs'[s].po \in DOMAIN orders' \ cut' /\ orders'[rfqs'[s].po].rfq = s
    BY <1>0, <2>1, <2>2, <2>3, <2>4 DEF OneLinkedOrder
  <2>5. ASSUME NEW p \in DOMAIN orders' \ cut'
        PROVE  orders'[p].rfq \in DOMAIN rfqs' /\ rfqs'[orders'[p].rfq].po = p
    <3>1. CASE p = o
      BY <2>2, <2>3, <3>1
    <3>2. CASE p # o
      <4>1. p \in DOMAIN orders \ cut /\ p \in Orders
        BY <1>0, <2>1, <2>2, <3>2 DEF TypeOK
      <4>2. orders[p].rfq \in DOMAIN rfqs /\ rfqs[orders[p].rfq].po = p
        BY <1>0, <4>1 DEF OneLinkedOrder
      <4>3. p # Null
        BY <4>1, SourcingAssumption
      <4> QED BY <2>1, <2>2, <2>3, <4>1, <4>2, <4>3
    <3> QED BY <3>1, <3>2
  <2> QED BY <2>4, <2>5 DEF OneLinkedOrder
<1>2. ASSUME NEW r \in DOMAIN rfqs, NEW o \in Orders, PoCut(r, o)
      PROVE  OneLinkedOrder'
  <2>1. /\ o \notin DOMAIN orders
        /\ orders' = With(orders, o, OrderFrom(r)) /\ cut' = cut \cup {o}
        /\ rfqs' = rfqs
    BY <1>2 DEF PoCut
  <2>2. /\ DOMAIN orders' = DOMAIN orders \cup {o}
        /\ \A p \in DOMAIN orders : orders'[p] = orders[p]
    BY <2>1 DEF With
  <2> QED BY <1>0, <2>1, <2>2 DEF OneLinkedOrder
<1>3. ASSUME orders' = orders, cut' = cut
      PROVE  OneLinkedOrder'
  <2> DEFINE PoKept == \A s \in DOMAIN rfqs' :
                         IF s \in DOMAIN rfqs THEN rfqs'[s].po = rfqs[s].po
                                             ELSE rfqs'[s].po = Null
  <2>1. PoKept
    <3>0. rfqs \in [DOMAIN rfqs -> Rfq]
      BY <1>0 DEF TypeOK
    <3>1. CASE UNCHANGED rfqs
      BY <3>1
    <3>2. ASSUME NEW r \in Rfqs, NEW uoms \in LinesLeft, CreateRfq(r, uoms)
          PROVE  PoKept
      BY <3>2 DEF CreateRfq, With
    <3>3. ASSUME NEW r \in DOMAIN rfqs, RfqNext(r) PROVE PoKept
      <4>1. rfqs[r] \in Rfq
        BY <3>0
      <4>2. \A o \in Orders : ~(PoFromSelectedQuote(r, o) \/ PoCut(r, o))
        BY <1>0, <1>3 DEF PoFromSelectedQuote, PoCut, With
      <4>3. CASE UNCHANGED rfqs
        BY <4>3
      <4>4. CASE \E uoms \in LinesLeft : UpdateRfq(r, uoms)
        BY <4>1, <4>4 DEF UpdateRfq, Rfq
      <4>5. CASE IssueRfq(r) \/ CancelRfq(r) \/ CloseRfq(r)
        BY <4>1, <4>5 DEF IssueRfq, CancelRfq, CloseRfq, Move, Rfq
      <4>6. CASE \E vendors \in SUBSET Vendors : InviteVendors(r, vendors)
        BY <4>1, <4>6 DEF InviteVendors, Rfq
      <4>7. CASE \E q \in DOMAIN quotes : SelectQuote(r, q)
        BY <4>1, <4>7 DEF SelectQuote, Rfq
      <4> QED BY <3>3, <4>2, <4>3, <4>4, <4>5, <4>6, <4>7
          DEF RfqNext, CreateQuote
    <3> QED BY <3>1, <3>2, <3>3
        DEF Next, vars, QuoteNext, UpdateQuote, SubmitQuote, WithdrawQuote,
            VendorChanges
  <2>2. DOMAIN rfqs \subseteq DOMAIN rfqs'
    BY StepForward DEF Forward
  <2> QED BY <1>0, <1>3, <2>1, <2>2 DEF OneLinkedOrder
<1> QED BY <1>1, <1>2, <1>3, OrdersOnlyByOrder

-----------------------------------------------------------------------------
(* The theorems                                                             *)

LEMMA Initially == Init => IInv
BY SourcingAssumption
DEF Init, Empty, IInv, TypeOK, Collection, References, SubmittedCovers,
    OrderAsQuoted, OneLinkedOrder

\* The inductive invariant holds of every reachable state.
THEOREM InductiveInvariant == Spec => []IInv
<1>1. IInv /\ [Next]_vars => IInv'
  BY StepType, StepReferences, StepCovers, StepOrders, StepOneOrder DEF IInv
<1> QED BY Initially, <1>1, PTL DEF Spec

\* The three collections have the shape their handlers write.
THEOREM TypeCorrect == Spec => []TypeOK
<1>1. IInv => TypeOK
  BY DEF IInv
<1> QED BY InductiveInvariant, <1>1, PTL

\* A submitted quote covers exactly the lines its RFQ has now, in their units
\* (quotes.js, submit), so a comparison never meets a line without a price.
THEOREM QuotesStayCovering == Spec => []SubmittedCovers
<1>1. IInv => SubmittedCovers
  BY DEF IInv
<1> QED BY InductiveInvariant, <1>1, PTL

\* An order agrees with its RFQ and with the selected quote for ever
\* (purchaseOrdersFromSelectedQuote.js).
THEOREM OrdersStayAsQuoted == Spec => []OrderAsQuoted
<1>1. IInv => OrderAsQuoted
  BY DEF IInv
<1> QED BY InductiveInvariant, <1>1, PTL

\* An RFQ has one order, which it names, unless a crash came between the two
\* saves (purchaseOrdersFromSelectedQuote.js).
THEOREM OneOrderPerRfq == Spec => []OneLinkedOrder
<1>1. IInv => OneLinkedOrder
  BY DEF IInv
<1> QED BY InductiveInvariant, <1>1, PTL

=============================================================================
