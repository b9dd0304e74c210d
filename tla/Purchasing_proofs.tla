--------------------------- MODULE Purchasing_proofs ---------------------------
(***************************************************************************)
(* Theorems about purchasing, for any ids, keys, vendors and bounds.  What *)
(* the orders say (IInv) does not depend on the ledger's sums; that the    *)
(* ledger says the same (LedgerIInv) does, by the facts of FoldSums.       *)
(***************************************************************************)
EXTENDS Purchasing, FoldSums

(* Facts about the operators                                                *)

\* Storing a record keeps the collection's shape.
LEMMA WithCollection ==
  ASSUME NEW c, NEW id, NEW rec, NEW Ids, NEW Records,
         Collection(c, Ids, Records), id \in Ids, rec \in Records
  PROVE  Collection(With(c, id, rec), Ids, Records)
BY DEF With, Collection

\* Every nonempty set of numbers has a least one, and a bounded one a greatest.
LEMMA LeastNumber ==
  ASSUME NEW T, T \subseteq Nat, T # {}
  PROVE  \E x \in T : \A y \in T : x <= y
<1> DEFINE R == {p \in Nat \X Nat : p[1] < p[2]}
<1>1. IsWellFoundedOn(R, Nat)
  BY NatLessThanWellFounded DEF OpToRel
<1>2. PICK x \in T : \A y \in T : ~(<<y, x>> \in R)
  <2> HIDE DEF R
  <2> QED BY <1>1, WFMin
<1>3. ASSUME NEW y \in T PROVE x <= y
  <2>1. x \in Nat /\ y \in Nat
    OBVIOUS
  <2>2. ~(y < x)
    BY <1>2, <2>1
  <2> QED BY <2>1, <2>2
<1> QED BY <1>3

LEMMA GreatestNumber ==
  ASSUME NEW T, NEW n \in Nat, T \subseteq 0..n, T # {}
  PROVE  \E x \in T : \A y \in T : y <= x
<1> DEFINE U == {n - y : y \in T}
<1>1. U \subseteq Nat /\ U # {}
  OBVIOUS
<1>2. PICK u \in U : \A w \in U : u <= w
  <2> HIDE DEF U
  <2> QED BY <1>1, LeastNumber
<1>3. PICK x \in T : u = n - x
  OBVIOUS
<1>4. ASSUME NEW y \in T PROVE y <= x
  <2>1. n - x <= n - y
    BY <1>2, <1>3
  <2> QED BY <2>1
<1> QED BY <1>4

\* An order's lines.
LEMMA OrderShape ==
  ASSUME TypeOK, NEW p \in DOMAIN pos
  PROVE  \E n \in 1..MaxLines : pos[p].lines \in [1..n -> PoLine]
BY DEF TypeOK, Collection, PurchaseOrder

\* What is left is the same for all lines with an id, and it is what the last
\* of them was ordered less what each of them has received.
LEMMA RemainingFacts ==
  ASSUME TypeOK, SameIdsAlike, NEW p \in DOMAIN pos,
         NEW i \in DOMAIN pos[p].lines
  PROVE  \E last \in SameId(p, i) : \A j \in SameId(p, i) :
           LET left == pos[p].lines[last].ordered - pos[p].lines[i].received
           IN  Remaining(p, j) = IF left < 0 THEN 0 ELSE left
<1>1. PICK n \in 1..MaxLines : pos[p].lines \in [1..n -> PoLine]
  BY OrderShape
<1>2. n \in Nat /\ SameId(p, i) \subseteq 0..n /\ i \in SameId(p, i)
  BY <1>1, PurchasingAssumption DEF SameId
<1> DEFINE IsLast(x) == \A y \in SameId(p, i) : y <= x
           last == CHOOSE x \in SameId(p, i) : IsLast(x)
<1>3. \E x \in SameId(p, i) : IsLast(x)
  BY <1>2, GreatestNumber
<1>4. last \in SameId(p, i)
  BY <1>3
<1>5. ASSUME NEW j \in SameId(p, i)
      PROVE  LET left == pos[p].lines[last].ordered - pos[p].lines[i].received
             IN  Remaining(p, j) = IF left < 0 THEN 0 ELSE left
  <2>1. SameId(p, j) = SameId(p, i)
    BY DEF SameId
  <2>2. pos[p].lines[last].received = pos[p].lines[i].received
    BY <1>4 DEF SameIdsAlike
  <2> QED BY <2>1, <2>2 DEF Remaining
<1> QED BY <1>4, <1>5

-----------------------------------------------------------------------------
(* What a post makes of the order's lines                                   *)

\* One line: it is as it was, or one of the receipt's quantities for its id
\* is added, and that was left.
LEMMA ReceivedLine ==
  ASSUME IInv, NEW r \in DOMAIN receipts, NEW k, CanPost(r, k),
         NEW i \in DOMAIN pos[receipts[r].po].lines
  PROVE  LET p == receipts[r].po
             old == pos[p].lines[i]
             new == ReceivedLines(r)[i]
         IN  /\ new.id = old.id /\ new.ordered = old.ordered
             /\ new \in PoLine
             /\ SameId(p, i) \cap Postable(r) = {} => new = old
             /\ SameId(p, i) \cap Postable(r) # {} =>
                  \E last \in SameId(p, i) :
                    /\ new.received <= pos[p].lines[last].ordered
                    /\ new.received > 0
             /\ \A j \in SameId(p, i) :
                  ReceivedLines(r)[j].received = new.received
<1> DEFINE p == receipts[r].po
           hits == SameId(p, i) \cap Postable(r)
           IsFirst(x) == \A y \in hits : x <= y
           hit == CHOOSE x \in hits : IsFirst(x)
           old == pos[p].lines[i]
           new == ReceivedLines(r)[i]
<1>1. TypeOK /\ SameIdsAlike /\ p \in DOMAIN pos
      /\ DOMAIN receipts[r].qty = DOMAIN pos[p].lines
  BY DEF IInv, References
<1>2. PICK n \in 1..MaxLines : pos[p].lines \in [1..n -> PoLine]
  BY <1>1, OrderShape
<1>3. old \in PoLine /\ i \in SameId(p, i)
  BY <1>2 DEF SameId
<1>4. \A j \in SameId(p, i) : SameId(p, j) = SameId(p, i)
  BY DEF SameId
<1>5. new = IF hits = {} THEN old
            ELSE [old EXCEPT !.received = @ + receipts[r].qty[hit]]
  BY DEF ReceivedLines
<1>6. \A j \in SameId(p, i) : ReceivedLines(r)[j].received = new.received
  <2> SUFFICES ASSUME NEW j \in SameId(p, i)
               PROVE  ReceivedLines(r)[j].received = new.received
    OBVIOUS
  <2>1. j \in DOMAIN pos[p].lines /\ pos[p].lines[j] \in PoLine
    BY <1>2 DEF SameId
  <2>2. pos[p].lines[j].received = old.received
    BY <1>1 DEF SameIdsAlike
  <2>3. ReceivedLines(r)[j] =
          IF hits = {} THEN pos[p].lines[j]
          ELSE [pos[p].lines[j] EXCEPT !.received = @ + receipts[r].qty[hit]]
    <3>1. SameId(p, j) \cap Postable(r) = hits
      BY <1>4
    <3>2. ReceivedLines(r)[j] =
            LET h == SameId(p, j) \cap Postable(r) IN
            IF h = {} THEN pos[p].lines[j]
            ELSE LET first == CHOOSE x \in h : \A y \in h : x <= y
                 IN  [pos[p].lines[j] EXCEPT !.received = @ + receipts[r].qty[first]]
      BY <2>1 DEF ReceivedLines
    <3> QED BY <3>1, <3>2
  <2> HIDE DEF hits, hit
  <2>4. CASE hits = {}
    BY <1>5, <2>2, <2>3, <2>4
  <2>5. CASE hits # {}
    BY <1>3, <1>5, <2>1, <2>2, <2>3, <2>5 DEF PoLine
  <2> QED BY <2>4, <2>5
<1>7. CASE hits = {}
  BY <1>3, <1>5, <1>6, <1>7
<1>8. CASE hits # {}
  <2>1. hits \subseteq Nat
    BY <1>2 DEF SameId
  <2>2. \E x \in hits : IsFirst(x)
    BY <1>8, <2>1, LeastNumber
  <2>3. hit \in hits
    BY <2>2
  <2>4. PICK last \in SameId(p, i) : \A j \in SameId(p, i) :
          LET left == pos[p].lines[last].ordered - old.received
          IN  Remaining(p, j) = IF left < 0 THEN 0 ELSE left
    BY <1>1, RemainingFacts
  <2>5. pos[p].lines[last] \in PoLine
    BY <1>2 DEF SameId
  <2>6. /\ receipts[r].qty[hit] \in 0..MaxQty /\ receipts[r].qty[hit] > 0
        /\ receipts[r].qty[hit] <= Remaining(p, hit)
    <3>1. hit \in DOMAIN receipts[r].qty /\ receipts[r].qty[hit] > 0
      BY <2>3 DEF Postable
    <3>2. receipts[r] \in Receipt
      BY <1>1 DEF TypeOK, Collection
    <3> HIDE DEF hit
    <3>3. receipts[r].qty[hit] \in 0..MaxQty
      BY <3>1, <3>2 DEF Receipt
    <3> QED BY <3>1, <3>3 DEF CanPost
  <2>7. receipts[r].qty[hit] + old.received <= pos[p].lines[last].ordered
    BY <1>3, <2>3, <2>4, <2>5, <2>6, PurchasingAssumption DEF PoLine
  <2> HIDE DEF hits, hit
  <2>8. /\ new.id = old.id /\ new.ordered = old.ordered
        /\ new.received = old.received + receipts[r].qty[hit]
        /\ new \in PoLine
    BY <1>3, <1>5, <1>8, <2>5, <2>6, <2>7, PurchasingAssumption DEF PoLine
  <2>9. new.received > 0 /\ new.received <= pos[p].lines[last].ordered
    BY <1>3, <2>6, <2>7, <2>8, PurchasingAssumption DEF PoLine
  <2> QED BY <1>6, <1>8, <2>8, <2>9 DEF hits
<1> QED BY <1>7, <1>8

\* All lines together.
LEMMA ReceivedFacts ==
  ASSUME IInv, NEW r \in DOMAIN receipts, NEW k, CanPost(r, k)
  PROVE  LET p == receipts[r].po
             new == ReceivedLines(r)
         IN  /\ p \in DOMAIN pos
             /\ DOMAIN new = DOMAIN pos[p].lines
             /\ new \in UNION {[1..n -> PoLine] : n \in 1..MaxLines}
             /\ \A i \in DOMAIN new :
                  /\ new[i].id = pos[p].lines[i].id
                  /\ new[i].ordered = pos[p].lines[i].ordered
                  /\ \A j \in SameId(p, i) : new[j].received = new[i].received
                  /\ \E j \in SameId(p, i) : new[i].received <= new[j].ordered
             /\ \E i \in DOMAIN new : new[i].received > 0
<1> DEFINE p == receipts[r].po
           new == ReceivedLines(r)
<1>1. TypeOK /\ SameIdsAlike /\ p \in DOMAIN pos
      /\ DOMAIN receipts[r].qty = DOMAIN pos[p].lines
  BY DEF IInv, References
<1>2. PICK n \in 1..MaxLines : pos[p].lines \in [1..n -> PoLine]
  BY <1>1, OrderShape
<1>3. DOMAIN new = 1..n /\ new = [i \in 1..n |-> new[i]]
  BY <1>2 DEF ReceivedLines
<1> HIDE DEF new
<1>4. \A i \in 1..n : new[i] \in PoLine
  BY <1>2, ReceivedLine DEF new
<1>5. new \in [1..n -> PoLine]
  BY <1>3, <1>4
<1>6. ASSUME NEW i \in 1..n
      PROVE  /\ new[i].id = pos[p].lines[i].id
             /\ new[i].ordered = pos[p].lines[i].ordered
             /\ \A j \in SameId(p, i) : new[j].received = new[i].received
             /\ \E j \in SameId(p, i) : new[i].received <= new[j].ordered
  <2>1. /\ new[i].id = pos[p].lines[i].id
        /\ new[i].ordered = pos[p].lines[i].ordered
        /\ \A j \in SameId(p, i) : new[j].received = new[i].received
    BY <1>2, ReceivedLine DEF new
  <2>2. \A j \in SameId(p, i) : new[j].ordered = pos[p].lines[j].ordered
    <3>1. SameId(p, i) \subseteq DOMAIN pos[p].lines
      BY DEF SameId
    <3> QED BY <3>1, ReceivedLine DEF new
  <2>3. \E j \in SameId(p, i) : new[i].received <= pos[p].lines[j].ordered
    <3>1. CASE SameId(p, i) \cap Postable(r) = {}
      <4>1. new[i] = pos[p].lines[i]
        BY <1>2, <3>1, ReceivedLine DEF new
      <4> QED BY <1>1, <1>2, <4>1 DEF SameIdsAlike
    <3>2. CASE SameId(p, i) \cap Postable(r) # {}
      BY <1>2, <3>2, ReceivedLine DEF new
    <3> QED BY <3>1, <3>2
  <2> QED BY <2>1, <2>2, <2>3
<1>7. \E i \in 1..n : new[i].received > 0
  <2>1. PICK i \in DOMAIN receipts[r].qty : i \in Postable(r)
    BY DEF CanPost, Postable
  <2>2. i \in DOMAIN pos[p].lines /\ i \in SameId(p, i)
    BY <1>1 DEF SameId
  <2> QED BY <1>2, <2>1, <2>2, ReceivedLine DEF new
<1> QED BY <1>1, <1>2, <1>3, <1>5, <1>6, <1>7 DEF new

-----------------------------------------------------------------------------
(* Steps of requisitions                                                    *)

\* A step that only moves requisitions that are not converted, and changes
\* the lines of drafts only.
LEMMA RequisitionStep ==
  ASSUME IInv, UNCHANGED <<pos, receipts, ledger, idem>>,
         eligible' \subseteq Vendors,
         Collection(reqs', Reqs, Requisition),
         \A q \in DOMAIN reqs :
           /\ q \in DOMAIN reqs'
           /\ reqs[q].status # "DRAFT" =>
                /\ reqs'[q].status # "DRAFT"
                /\ reqs'[q].lines = reqs[q].lines
                /\ reqs'[q].po = reqs[q].po
           /\ reqs[q].status = "CONVERTED" => reqs'[q].status = "CONVERTED",
         \A q \in DOMAIN reqs' :
           reqs'[q].status = "CONVERTED" =>
             /\ q \in DOMAIN reqs /\ reqs[q].status = "CONVERTED"
             /\ reqs'[q].po = reqs[q].po
  PROVE  IInv'
<1>1. TypeOK'
  BY DEF IInv, TypeOK, Collection
<1>2. References'
  BY DEF IInv, References
<1>3. SameIdsAlike' /\ PostedOnce' /\ StatusTellsReceived'
  BY DEF IInv, SameIdsAlike, SameId, PostedOnce, Postable, StatusTellsReceived
<1>4. OrderedOnceAsRequested'
  BY DEF IInv, References, OrderedOnceAsRequested
<1> QED BY <1>1, <1>2, <1>3, <1>4 DEF IInv

LEMMA CreateReqKeeps ==
  ASSUME IInv, NEW q \in Reqs, NEW lines \in ReqLines, CreateReq(q, lines)
  PROVE  IInv'
<1>1. TypeOK
  BY DEF IInv
<1>2. [status |-> "DRAFT", lines |-> lines, po |-> Null] \in Requisition
  BY DEF Requisition
<1>3. Collection(reqs', Reqs, Requisition)
  BY <1>1, <1>2, WithCollection DEF CreateReq, TypeOK
<1>4. /\ UNCHANGED <<pos, receipts, ledger, idem>> /\ eligible' \subseteq Vendors
      /\ DOMAIN reqs' = DOMAIN reqs \cup {q}
      /\ \A x \in DOMAIN reqs : reqs'[x] = reqs[x]
      /\ reqs'[q].status = "DRAFT"
  BY <1>1 DEF CreateReq, With, TypeOK
<1> QED BY <1>3, <1>4, RequisitionStep

LEMMA UpdateReqKeeps ==
  ASSUME IInv, NEW q \in DOMAIN reqs, NEW lines \in ReqLines, UpdateReq(q, lines)
  PROVE  IInv'
<1>1. TypeOK /\ reqs[q] \in Requisition
  BY DEF IInv, TypeOK, Collection
<1>2. Collection(reqs', Reqs, Requisition)
  BY <1>1 DEF UpdateReq, TypeOK, Collection, Requisition
<1>3. /\ UNCHANGED <<pos, receipts, ledger, idem>> /\ eligible' \subseteq Vendors
      /\ DOMAIN reqs' = DOMAIN reqs
      /\ \A x \in DOMAIN reqs : x # q => reqs'[x] = reqs[x]
      /\ reqs[q].status = "DRAFT" /\ reqs'[q].status = "DRAFT"
  BY <1>1 DEF UpdateReq, TypeOK, Requisition
<1> QED BY <1>2, <1>3, RequisitionStep

LEMMA MoveReqKeeps ==
  ASSUME IInv, NEW q \in DOMAIN reqs, NEW from,
         NEW to \in {"SUBMITTED", "APPROVED", "REJECTED", "CANCELLED"},
         from \subseteq {"DRAFT", "SUBMITTED", "APPROVED"}, MoveReq(q, from, to)
  PROVE  IInv'
<1>1. TypeOK /\ reqs[q] \in Requisition
  BY DEF IInv, TypeOK, Collection
<1>2. Collection(reqs', Reqs, Requisition)
  BY <1>1 DEF MoveReq, TypeOK, Collection, Requisition
<1>3. /\ UNCHANGED <<pos, receipts, ledger, idem>> /\ eligible' \subseteq Vendors
      /\ DOMAIN reqs' = DOMAIN reqs
      /\ \A x \in DOMAIN reqs : x # q => reqs'[x] = reqs[x]
      /\ reqs[q].status # "CONVERTED" /\ reqs'[q].status = to
      /\ reqs'[q].lines = reqs[q].lines /\ reqs'[q].po = reqs[q].po
  BY <1>1 DEF MoveReq, TypeOK, Requisition
<1> QED BY <1>2, <1>3, RequisitionStep

-----------------------------------------------------------------------------
(* Steps of orders                                                          *)

LEMMA PoFromReqKeeps ==
  ASSUME IInv, NEW q \in DOMAIN reqs, NEW p \in Pos, NEW v \in Vendors,
         NEW n \in 1..2, PoFromReq(q, p, v, n)
  PROVE  IInv'
<1> DEFINE new == [i \in DOMAIN reqs[q].lines |->
                     [id |-> reqs[q].lines[i].id, ordered |-> reqs[q].lines[i].qty,
                      received |-> 0]]
           order == [status |-> "DRAFT", req |-> q, vendor |-> v, cut |-> n < 2,
                     lines |-> new]
<1>1. TypeOK /\ References /\ q \in Reqs /\ reqs[q] \in Requisition
  BY DEF IInv, TypeOK, Collection
<1>2. /\ p \notin DOMAIN pos /\ reqs[q].status = "APPROVED"
      /\ reqs[q].lines # << >>
      /\ pos' = With(pos, p, order)
      /\ UNCHANGED <<receipts, ledger, idem, eligible>>
  BY DEF PoFromReq, Convertible
<1>3. new \in UNION {[1..m -> PoLine] : m \in 1..MaxLines}
  <2>1. PICK m \in 0..MaxLines : reqs[q].lines \in [1..m -> [id : LineIds, qty : 1..MaxQty]]
    BY <1>1 DEF Requisition, ReqLines
  <2>2. m # 0
    BY <1>2, <2>1
  <2>3. new \in [1..m -> PoLine]
    BY <2>1, PurchasingAssumption DEF PoLine
  <2> QED BY <2>1, <2>2, <2>3, PurchasingAssumption
<1>4. order \in PurchaseOrder
  BY <1>1, <1>3 DEF PurchaseOrder
<1>5. /\ DOMAIN pos' = DOMAIN pos \cup {p} /\ pos'[p] = order
      /\ \A x \in DOMAIN pos : pos'[x] = pos[x]
  BY <1>2 DEF With
<1>6. /\ DOMAIN reqs' = DOMAIN reqs
      /\ \A x \in DOMAIN reqs : x # q => reqs'[x] = reqs[x]
      /\ reqs'[q].lines = reqs[q].lines
      /\ n < 2 => reqs'[q] = reqs[q]
      /\ ~(n < 2) => reqs'[q].status = "CONVERTED" /\ reqs'[q].po = p
  BY <1>1 DEF PoFromReq, Requisition
<1>6a. /\ pos'[p].req = q /\ pos'[p].lines = new /\ pos'[p].status = "DRAFT"
       /\ pos'[p].cut <=> n < 2
  <2>1. pos'[p].req = q /\ pos'[p].lines = new /\ pos'[p].status = "DRAFT"
    BY <1>5
  <2>2. order.cut = (n < 2)
    OBVIOUS
  <2>3. pos'[p].cut = (n < 2)
    BY <1>5, <2>2, Zenon
  <2> QED BY <2>1, <2>3, Zenon
<1>7. Collection(reqs', Reqs, Requisition)
  BY <1>1 DEF PoFromReq, TypeOK, Collection, Requisition
<1>8. TypeOK'
  <2>1. Collection(pos', Pos, PurchaseOrder)
    BY <1>1, <1>2, <1>4, WithCollection DEF TypeOK
  <2> QED BY <1>1, <1>2, <1>7, <2>1 DEF TypeOK
<1>9. References'
  <2>1. \A x \in DOMAIN pos : pos[x].req = q => pos[x].cut
    BY <1>1, <1>2 DEF References
  <2>2. ASSUME NEW x \in DOMAIN pos'
        PROVE  LET y == pos'[x].req IN
               /\ y \in DOMAIN reqs'
               /\ reqs'[y].status # "DRAFT"
               /\ ~pos'[x].cut => reqs'[y].status = "CONVERTED"
    <3>1. CASE x = p
      <4>1. q \in DOMAIN reqs' /\ reqs'[q].status # "DRAFT"
        BY <1>2, <1>6
      <4>2. ~pos'[p].cut => reqs'[q].status = "CONVERTED"
        BY <1>6, <1>6a
      <4> QED BY <1>6a, <3>1, <4>1, <4>2
    <3>2. CASE x # p
      <4>1. x \in DOMAIN pos /\ pos'[x] = pos[x]
        BY <1>5, <3>2
      <4>2. CASE pos[x].req = q
        BY <1>1, <1>2, <1>6, <2>1, <4>1, <4>2
      <4>3. CASE pos[x].req # q
        BY <1>1, <1>6, <4>1, <4>3 DEF References
      <4> QED BY <4>2, <4>3
    <3> QED BY <3>1, <3>2
  <2>3. ASSUME NEW x \in DOMAIN receipts'
        PROVE  /\ receipts'[x].po \in DOMAIN pos'
               /\ DOMAIN receipts'[x].qty = DOMAIN pos'[receipts'[x].po].lines
               /\ receipts'[x].status = "DRAFT" => receipts'[x].event = 0
    BY <1>1, <1>2, <1>5 DEF References
  <2>4. \A e \in DOMAIN ledger' :
          ledger'[e].saves >= 2 => <<ledger'[e].receipt, ledger'[e].key>> \in idem'
    BY <1>1, <1>2 DEF References
  <2> QED BY <2>2, <2>3, <2>4 DEF References
<1>10. SameIdsAlike'
  <2> SUFFICES ASSUME NEW x \in DOMAIN pos', NEW i \in DOMAIN pos'[x].lines
               PROVE  /\ \A j \in SameId(x, i)' :
                           pos'[x].lines[j].received = pos'[x].lines[i].received
                      /\ \E j \in SameId(x, i)' :
                           pos'[x].lines[i].received <= pos'[x].lines[j].ordered
    BY DEF SameIdsAlike
  <2>1. CASE x \in DOMAIN pos
    BY <1>5, <2>1 DEF IInv, SameIdsAlike, SameId
  <2>2. CASE x \notin DOMAIN pos
    <3>1. x = p /\ pos'[x].lines = new
      BY <1>5, <2>2
    <3>2. \A j \in DOMAIN new : new[j].received = 0 /\ new[j].ordered \in 1..MaxQty
      BY <1>3 DEF PoLine
    <3>3. i \in SameId(x, i)' /\ SameId(x, i)' \subseteq DOMAIN new
      BY <3>1 DEF SameId
    <3> HIDE DEF new
    <3>4. new[i].received <= new[i].ordered
      BY <3>2, <3>3, PurchasingAssumption
    <3> QED BY <3>1, <3>2, <3>3, <3>4
  <2> QED BY <2>1, <2>2
<1>11. PostedOnce'
  BY <1>2 DEF IInv, PostedOnce, Postable
<1>12. StatusTellsReceived'
  <2>1. DOMAIN new # {} /\ \A j \in DOMAIN new : new[j].received = 0 /\ new[j].ordered > 0
    <3>1. PICK m \in 1..MaxLines : new \in [1..m -> PoLine]
      BY <1>3
    <3>2. \A j \in DOMAIN new : new[j].ordered > 0
      BY <3>1, PurchasingAssumption DEF PoLine
    <3>3. 1 \in DOMAIN new
      BY <3>1, PurchasingAssumption
    <3> QED BY <3>2, <3>3
  <2>2. ~\A j \in DOMAIN new : new[j].received >= new[j].ordered
    <3>1. PICK j \in DOMAIN new : new[j].received = 0 /\ new[j].ordered \in 1..MaxQty
      BY <1>3, <2>1 DEF PoLine
    <3> QED BY <3>1, PurchasingAssumption
  <2> HIDE DEF new
  <2> QED BY <1>5, <2>1, <2>2 DEF IInv, StatusTellsReceived
<1>13. OrderedOnceAsRequested'
  <2>1. \A x \in DOMAIN pos : pos[x].req = q => pos[x].cut
    BY <1>1, <1>2 DEF References
  <2>2. ASSUME NEW x \in DOMAIN pos'
        PROVE  LET y == pos'[x].req IN
               /\ y \in DOMAIN reqs'
               /\ DOMAIN pos'[x].lines = DOMAIN reqs'[y].lines
               /\ \A i \in DOMAIN pos'[x].lines :
                    /\ pos'[x].lines[i].id = reqs'[y].lines[i].id
                    /\ pos'[x].lines[i].ordered = reqs'[y].lines[i].qty
               /\ ~pos'[x].cut => reqs'[y].po = x
    <3>1. CASE x = p
      <4>1. \A i \in DOMAIN new : /\ new[i].id = reqs[q].lines[i].id
                                  /\ new[i].ordered = reqs[q].lines[i].qty
        OBVIOUS
      <4>2. ~pos'[p].cut => reqs'[q].po = p
        BY <1>6, <1>6a
      <4>3. DOMAIN new = DOMAIN reqs[q].lines
        OBVIOUS
      <4> HIDE DEF new
      <4> QED BY <1>6, <1>6a, <3>1, <4>1, <4>2, <4>3
    <3>2. CASE x # p
      <4>1. x \in DOMAIN pos /\ pos'[x] = pos[x]
        BY <1>5, <3>2
      <4>2. CASE pos[x].req = q
        BY <1>6, <2>1, <4>1, <4>2 DEF IInv, OrderedOnceAsRequested
      <4>3. CASE pos[x].req # q
        BY <1>6, <4>1, <4>3 DEF IInv, OrderedOnceAsRequested
      <4> QED BY <4>2, <4>3
    <3> QED BY <3>1, <3>2
  <2>3. ASSUME NEW y \in DOMAIN reqs', reqs'[y].status = "CONVERTED"
        PROVE  reqs'[y].po \in DOMAIN pos' /\ pos'[reqs'[y].po].req = y
    <3>1. CASE y = q
      BY <1>2, <1>5, <1>6, <2>3, <3>1
    <3>2. CASE y # q
      BY <1>5, <1>6, <2>3, <3>2 DEF IInv, OrderedOnceAsRequested
    <3> QED BY <3>1, <3>2
  <2> QED BY <2>2, <2>3 DEF OrderedOnceAsRequested
<1> QED BY <1>8, <1>9, <1>10, <1>11, <1>12, <1>13 DEF IInv

LEMMA MovePoKeeps ==
  ASSUME IInv, NEW p \in DOMAIN pos, NEW from,
         NEW to \in {"ISSUED", "CANCELLED", "CLOSED"},
         from \subseteq {"DRAFT", "ISSUED", "PARTIALLY_RECEIVED"},
         to = "ISSUED" => from = {"DRAFT"},
         MovePo(p, from, to)
  PROVE  IInv'
<1>1. TypeOK /\ References /\ pos[p] \in PurchaseOrder
  BY DEF IInv, TypeOK, Collection
<1>2. /\ UNCHANGED <<reqs, receipts, ledger, idem, eligible>>
      /\ DOMAIN pos' = DOMAIN pos
      /\ \A x \in DOMAIN pos : x # p => pos'[x] = pos[x]
      /\ pos[p].status \in from
      /\ pos'[p] = [pos[p] EXCEPT !.status = to]
  BY DEF MovePo
<1>3. /\ pos'[p].status = to /\ pos'[p].req = pos[p].req
      /\ pos'[p].lines = pos[p].lines /\ pos'[p].cut = pos[p].cut
      /\ pos'[p] \in PurchaseOrder
  BY <1>1, <1>2 DEF PurchaseOrder
<1>4. \A x \in DOMAIN pos : /\ pos'[x].req = pos[x].req
                            /\ pos'[x].lines = pos[x].lines
                            /\ pos'[x].cut = pos[x].cut
  BY <1>2, <1>3
<1>5. TypeOK'
  BY <1>1, <1>2, <1>3 DEF TypeOK, Collection, MovePo
<1>6. References' /\ SameIdsAlike' /\ OrderedOnceAsRequested'
  <2>1. References'
    BY <1>1, <1>2, <1>4 DEF References
  <2>2. SameIdsAlike'
    BY <1>2, <1>4 DEF IInv, SameIdsAlike, SameId
  <2>3. OrderedOnceAsRequested'
    BY <1>2, <1>4 DEF IInv, OrderedOnceAsRequested
  <2> QED BY <2>1, <2>2, <2>3
<1>7. PostedOnce'
  BY <1>2 DEF IInv, PostedOnce, Postable
<1>8. StatusTellsReceived'
  <2> DEFINE Some(x) == \E i \in DOMAIN pos[x].lines : pos[x].lines[i].received > 0
             Full(x) == \A i \in DOMAIN pos[x].lines :
                          pos[x].lines[i].received >= pos[x].lines[i].ordered
  <2>1. \A x \in DOMAIN pos : /\ pos[x].status \in {"DRAFT", "ISSUED"} => ~Some(x)
                              /\ pos[x].status = "PARTIALLY_RECEIVED" => Some(x) /\ ~Full(x)
                              /\ Full(x) => pos[x].status = "CLOSED"
    BY DEF IInv, StatusTellsReceived
  <2>2. ~Full(p) /\ (to = "ISSUED" => ~Some(p))
    BY <1>2, <2>1
  <2>3. \A x \in DOMAIN pos' : /\ pos'[x].status \in {"DRAFT", "ISSUED"} => ~Some(x)
                               /\ pos'[x].status = "PARTIALLY_RECEIVED" => Some(x) /\ ~Full(x)
                               /\ Full(x) => pos'[x].status = "CLOSED"
    <3> SUFFICES ASSUME NEW x \in DOMAIN pos'
                 PROVE  /\ pos'[x].status \in {"DRAFT", "ISSUED"} => ~Some(x)
                        /\ pos'[x].status = "PARTIALLY_RECEIVED" => Some(x) /\ ~Full(x)
                        /\ Full(x) => pos'[x].status = "CLOSED"
      OBVIOUS
    <3>1. CASE x = p
      BY <1>3, <2>2, <3>1
    <3>2. CASE x # p
      BY <1>2, <2>1, <3>2
    <3> QED BY <3>1, <3>2
  <2> QED BY <1>2, <1>4, <2>3 DEF StatusTellsReceived
<1> QED BY <1>5, <1>6, <1>7, <1>8 DEF IInv

-----------------------------------------------------------------------------
(* Steps of receipts                                                        *)

LEMMA CreateReceiptKeeps ==
  ASSUME IInv, NEW p \in DOMAIN pos, NEW r \in Receipts, CreateReceipt(r, p)
  PROVE  IInv'
<1> DEFINE rec == [status |-> "DRAFT", po |-> p, event |-> 0,
                   qty |-> [i \in DOMAIN pos[p].lines |-> 0]]
<1>1. TypeOK /\ References /\ PostedOnce /\ p \in Pos
  BY DEF IInv, TypeOK, Collection
<1>2. /\ r \notin DOMAIN receipts /\ receipts' = With(receipts, r, rec)
      /\ UNCHANGED <<reqs, pos, ledger, idem, eligible>>
  BY DEF CreateReceipt
<1>3. rec \in Receipt
  <2>1. PICK n \in 1..MaxLines : pos[p].lines \in [1..n -> PoLine]
    BY <1>1, OrderShape
  <2>2. [i \in DOMAIN pos[p].lines |-> 0] \in [1..n -> 0..MaxQty]
    BY <2>1, PurchasingAssumption
  <2> QED BY <1>1, <2>2, PurchasingAssumption DEF Receipt
<1>4. /\ DOMAIN receipts' = DOMAIN receipts \cup {r} /\ receipts'[r] = rec
      /\ \A x \in DOMAIN receipts : receipts'[x] = receipts[x]
  BY <1>2 DEF With
<1>5. TypeOK'
  <2>1. Collection(receipts', Receipts, Receipt)
    BY <1>1, <1>2, <1>3, WithCollection DEF TypeOK
  <2> QED BY <1>1, <1>2, <2>1 DEF TypeOK
<1>6. References'
  BY <1>1, <1>2, <1>4 DEF References
<1>7. PostedOnce'
  BY <1>1, <1>2, <1>4 DEF PostedOnce, Postable
<1>8. SameIdsAlike' /\ StatusTellsReceived' /\ OrderedOnceAsRequested'
  BY <1>2 DEF IInv, SameIdsAlike, SameId, StatusTellsReceived, OrderedOnceAsRequested
<1> QED BY <1>5, <1>6, <1>7, <1>8 DEF IInv

LEMMA UpdateReceiptKeeps ==
  ASSUME IInv, NEW r \in DOMAIN receipts, NEW take \in [LineIds -> 0..MaxQty],
         UpdateReceipt(r, take)
  PROVE  IInv'
<1> DEFINE p == receipts[r].po
           qty == [i \in DOMAIN pos[p].lines |-> take[pos[p].lines[i].id]]
<1>1. TypeOK /\ References /\ PostedOnce /\ p \in DOMAIN pos
      /\ receipts[r] \in Receipt /\ receipts[r].status = "DRAFT"
  BY DEF IInv, References, TypeOK, Collection, UpdateReceipt, Editable
<1>2. /\ receipts' = [receipts EXCEPT ![r].qty = qty]
      /\ UNCHANGED <<reqs, pos, ledger, idem, eligible>>
  BY DEF UpdateReceipt
<1>3. qty \in UNION {[1..n -> 0..MaxQty] : n \in 1..MaxLines}
  <2>1. PICK n \in 1..MaxLines : pos[p].lines \in [1..n -> PoLine]
    BY <1>1, OrderShape
  <2>2. \A i \in 1..n : take[pos[p].lines[i].id] \in 0..MaxQty
    BY <2>1 DEF PoLine
  <2>3. qty \in [1..n -> 0..MaxQty]
    BY <2>1, <2>2
  <2> QED BY <2>3
<1>4. /\ DOMAIN receipts' = DOMAIN receipts
      /\ \A x \in DOMAIN receipts : x # r => receipts'[x] = receipts[x]
      /\ receipts'[r].qty = qty /\ receipts'[r].po = p
      /\ receipts'[r].status = "DRAFT" /\ receipts'[r].event = receipts[r].event
      /\ receipts'[r] \in Receipt
  <2> HIDE DEF qty
  <2> QED BY <1>1, <1>2, <1>3 DEF Receipt
<1>5. TypeOK'
  BY <1>1, <1>2, <1>4 DEF TypeOK, Collection
<1>6. References'
  BY <1>1, <1>2, <1>4 DEF References
<1>7. PostedOnce'
  <2>1. \A x \in DOMAIN receipts : /\ receipts'[x].event = receipts[x].event
                                   /\ receipts'[x].status = receipts[x].status
                                   /\ receipts[x].status = "POSTED" => receipts'[x] = receipts[x]
    BY <1>1, <1>4
  <2>2. \A x \in DOMAIN receipts' : receipts'[x].status = "POSTED" =>
          /\ receipts'[x].event \in DOMAIN ledger'
          /\ ledger'[receipts'[x].event].receipt = x
          /\ ledger'[receipts'[x].event].lines
               = [i \in Postable(x)' |-> receipts'[x].qty[i]]
    <3> SUFFICES ASSUME NEW x \in DOMAIN receipts', receipts'[x].status = "POSTED"
                 PROVE  /\ receipts'[x].event \in DOMAIN ledger'
                        /\ ledger'[receipts'[x].event].receipt = x
                        /\ ledger'[receipts'[x].event].lines
                             = [i \in Postable(x)' |-> receipts'[x].qty[i]]
      OBVIOUS
    <3>1. x \in DOMAIN receipts /\ receipts'[x] = receipts[x] /\ ledger' = ledger
      BY <1>2, <1>4, <2>1
    <3>2. Postable(x)' = Postable(x)
      BY <3>1 DEF Postable
    <3> QED BY <1>1, <3>1, <3>2 DEF PostedOnce
  <2>3. \A e \in DOMAIN ledger' :
          LET x == ledger'[e].receipt IN
          /\ x \in DOMAIN receipts'
          /\ (ledger'[e].saves = 4) <=> (receipts'[x].event = e)
          /\ receipts'[x].status = "POSTED" => e <= receipts'[x].event
          /\ \A f \in DOMAIN ledger' :
               /\ f < e
               /\ ledger'[f].receipt = x /\ ledger'[f].key = ledger'[e].key
               => ledger'[f].saves = 1
    <3> SUFFICES ASSUME NEW e \in DOMAIN ledger'
                 PROVE  LET x == ledger'[e].receipt IN
                        /\ x \in DOMAIN receipts'
                        /\ (ledger'[e].saves = 4) <=> (receipts'[x].event = e)
                        /\ receipts'[x].status = "POSTED" => e <= receipts'[x].event
                        /\ \A f \in DOMAIN ledger' :
                             /\ f < e
                             /\ ledger'[f].receipt = x /\ ledger'[f].key = ledger'[e].key
                             => ledger'[f].saves = 1
      OBVIOUS
    <3>1. ledger' = ledger /\ ledger[e].receipt \in DOMAIN receipts
      BY <1>1, <1>2 DEF PostedOnce
    <3>2. /\ receipts'[ledger[e].receipt].event = receipts[ledger[e].receipt].event
          /\ receipts'[ledger[e].receipt].status = receipts[ledger[e].receipt].status
      BY <2>1, <3>1
    <3> QED BY <1>1, <1>4, <3>1, <3>2 DEF PostedOnce
  <2> QED BY <2>2, <2>3 DEF PostedOnce
<1>8. SameIdsAlike' /\ StatusTellsReceived' /\ OrderedOnceAsRequested'
  BY <1>2 DEF IInv, SameIdsAlike, SameId, StatusTellsReceived, OrderedOnceAsRequested
<1> QED BY <1>5, <1>6, <1>7, <1>8 DEF IInv

\* What the saves of a post leave behind, record by record.
LEMMA PostFacts ==
  ASSUME IInv, NEW r \in DOMAIN receipts, NEW k \in Keys, NEW n \in 1..4,
         PostReceipt(r, k, n)
  PROVE  LET p == receipts[r].po
             e == Len(ledger) + 1
             new == ReceivedLines(r)
         IN  /\ CanPost(r, k)
             /\ UNCHANGED <<reqs, eligible>>
             /\ ledger' \in Seq(Event) /\ Len(ledger') <= MaxEvents
             /\ e \in 1..MaxEvents
             /\ DOMAIN ledger' = DOMAIN ledger \cup {e} /\ e \notin DOMAIN ledger
             /\ \A f \in DOMAIN ledger : ledger'[f] = ledger[f] /\ f < e
             /\ ledger'[e].receipt = r /\ ledger'[e].key = k
             /\ ledger'[e].saves = n
             /\ ledger'[e].lines = [i \in Postable(r) |-> receipts[r].qty[i]]
             /\ idem' = IF n < 2 THEN idem ELSE idem \cup {<<r, k>>}
             /\ DOMAIN pos' = DOMAIN pos
             /\ \A x \in DOMAIN pos : x # p => pos'[x] = pos[x]
             /\ n < 3 => pos' = pos
             /\ n >= 3 => pos'[p] = [pos[p] EXCEPT !.lines = new,
                                                !.status = PoStatus(@, new)]
             /\ DOMAIN receipts' = DOMAIN receipts
             /\ \A x \in DOMAIN receipts : x # r => receipts'[x] = receipts[x]
             /\ n < 4 => receipts' = receipts
             /\ n >= 4 => receipts'[r] = [receipts[r] EXCEPT !.status = "POSTED",
                                                          !.event = e]
<1> DEFINE p == receipts[r].po
           ev == [receipt |-> r, key |-> k, saves |-> n,
                  lines |-> [i \in Postable(r) |-> receipts[r].qty[i]]]
<1>1. TypeOK /\ References /\ CanPost(r, k) /\ Len(ledger) < MaxEvents
      /\ ledger' = Append(ledger, ev) /\ p \in DOMAIN pos
  BY DEF IInv, References, PostReceipt
<1>2. ev \in Event
  <2>1. receipts[r] \in Receipt /\ r \in Receipts
    BY <1>1 DEF TypeOK, Collection
  <2>2. PICK m \in 1..MaxLines : receipts[r].qty \in [1..m -> 0..MaxQty]
    BY <2>1 DEF Receipt
  <2>3. Postable(r) \in SUBSET (1..MaxLines)
    BY <2>2, PurchasingAssumption DEF Postable
  <2>4. \A i \in Postable(r) : receipts[r].qty[i] \in 1..MaxQty
    BY <2>2, PurchasingAssumption DEF Postable
  <2>5. ev.lines \in [Postable(r) -> 1..MaxQty]
    BY <2>4
  <2> QED BY <2>1, <2>3, <2>5 DEF Event
<1>3. ledger \in Seq(Event) /\ Len(ledger) \in Nat /\ MaxEvents \in Nat
  BY <1>1, PurchasingAssumption DEF TypeOK
<1> HIDE DEF ev
<1>4. /\ ledger' \in Seq(Event) /\ Len(ledger') = Len(ledger) + 1
      /\ \A f \in DOMAIN ledger : ledger'[f] = ledger[f] /\ f < Len(ledger) + 1
      /\ ledger'[Len(ledger) + 1] = ev
      /\ DOMAIN ledger' = DOMAIN ledger \cup {Len(ledger) + 1}
      /\ Len(ledger) + 1 \notin DOMAIN ledger
  BY <1>1, <1>2, <1>3
<1>5. /\ ev.receipt = r /\ ev.key = k /\ ev.saves = n
      /\ ev.lines = [i \in Postable(r) |-> receipts[r].qty[i]]
  BY DEF ev
<1>6. /\ DOMAIN pos' = DOMAIN pos
      /\ \A x \in DOMAIN pos : x # p => pos'[x] = pos[x]
      /\ n < 3 => pos' = pos
      /\ n >= 3 => pos'[p] = [pos[p] EXCEPT !.lines = ReceivedLines(r),
                                         !.status = PoStatus(@, ReceivedLines(r))]
  BY <1>1 DEF PostReceipt
<1>7. /\ DOMAIN receipts' = DOMAIN receipts
      /\ \A x \in DOMAIN receipts : x # r => receipts'[x] = receipts[x]
      /\ n < 4 => receipts' = receipts
      /\ n >= 4 => receipts'[r] = [receipts[r] EXCEPT !.status = "POSTED",
                                                   !.event = Len(ledger) + 1]
  BY DEF PostReceipt
<1>8. /\ UNCHANGED <<reqs, eligible>>
      /\ idem' = IF n < 2 THEN idem ELSE idem \cup {<<r, k>>}
  BY DEF PostReceipt
<1>9. Len(ledger') <= MaxEvents /\ Len(ledger) + 1 \in 1..MaxEvents
  BY <1>1, <1>3, <1>4
<1> QED BY <1>1, <1>4, <1>5, <1>6, <1>7, <1>8, <1>9

LEMMA PostReceiptKeeps ==
  ASSUME IInv, NEW r \in DOMAIN receipts, NEW k \in Keys, NEW n \in 1..4,
         PostReceipt(r, k, n)
  PROVE  IInv'
<1> DEFINE p == receipts[r].po
           e == Len(ledger) + 1
           new == ReceivedLines(r)
           status == PoStatus(pos[p].status, new)
<1>1. /\ TypeOK /\ References /\ PostedOnce
      /\ r \in Receipts /\ receipts[r] \in Receipt /\ p \in DOMAIN pos
      /\ p \in Pos /\ pos[p] \in PurchaseOrder
  BY DEF IInv, References, TypeOK, Collection
<1>2. /\ CanPost(r, k)
      /\ UNCHANGED <<reqs, eligible>>
      /\ ledger' \in Seq(Event) /\ Len(ledger') <= MaxEvents
      /\ e \in 1..MaxEvents
      /\ DOMAIN ledger' = DOMAIN ledger \cup {e} /\ e \notin DOMAIN ledger
      /\ \A f \in DOMAIN ledger : ledger'[f] = ledger[f] /\ f < e
      /\ ledger'[e].receipt = r /\ ledger'[e].key = k
      /\ ledger'[e].saves = n
      /\ ledger'[e].lines = [i \in Postable(r) |-> receipts[r].qty[i]]
      /\ idem' = IF n < 2 THEN idem ELSE idem \cup {<<r, k>>}
  <2>1. CanPost(r, k) /\ UNCHANGED <<reqs, eligible>>
        /\ idem' = IF n < 2 THEN idem ELSE idem \cup {<<r, k>>}
    BY DEF PostReceipt
  <2>2. /\ ledger' \in Seq(Event) /\ Len(ledger') <= MaxEvents
        /\ e \in 1..MaxEvents
        /\ DOMAIN ledger' = DOMAIN ledger \cup {e} /\ e \notin DOMAIN ledger
        /\ \A f \in DOMAIN ledger : ledger'[f] = ledger[f] /\ f < e
    BY PostFacts
  <2>3. /\ ledger'[e].receipt = r /\ ledger'[e].key = k
        /\ ledger'[e].saves = n
        /\ ledger'[e].lines = [i \in Postable(r) |-> receipts[r].qty[i]]
    BY PostFacts
  <2> QED BY <2>1, <2>2, <2>3
<1>3. /\ DOMAIN pos' = DOMAIN pos
      /\ \A x \in DOMAIN pos : x # p => pos'[x] = pos[x]
      /\ n < 3 => pos' = pos
      /\ n >= 3 => pos'[p] = [pos[p] EXCEPT !.lines = new, !.status = PoStatus(@, new)]
  BY PostFacts
<1>4. /\ DOMAIN receipts' = DOMAIN receipts
      /\ \A x \in DOMAIN receipts : x # r => receipts'[x] = receipts[x]
      /\ n < 4 => receipts' = receipts
      /\ n >= 4 => receipts'[r] = [receipts[r] EXCEPT !.status = "POSTED", !.event = e]
  BY PostFacts
<1>5. /\ DOMAIN new = DOMAIN pos[p].lines
      /\ new \in UNION {[1..m -> PoLine] : m \in 1..MaxLines}
      /\ \A i \in DOMAIN new :
           /\ new[i].id = pos[p].lines[i].id
           /\ new[i].ordered = pos[p].lines[i].ordered
           /\ \A j \in SameId(p, i) : new[j].received = new[i].received
           /\ \E j \in SameId(p, i) : new[i].received <= new[j].ordered
      /\ \E i \in DOMAIN new : new[i].received > 0
  BY <1>2, ReceivedFacts
<1> HIDE DEF new
<1>6. /\ status \in {"CLOSED", "PARTIALLY_RECEIVED"}
      /\ status = "CLOSED" <=> \A i \in DOMAIN new : new[i].received >= new[i].ordered
  BY <1>5 DEF PoStatus
<1> HIDE DEF status
<1>7. /\ pos'[p].req = pos[p].req /\ pos'[p].cut = pos[p].cut
      /\ pos'[p] \in PurchaseOrder
      /\ n < 3 => pos'[p] = pos[p]
      /\ n >= 3 => pos'[p].lines = new /\ pos'[p].status = status
  <2>1. CASE n < 3
    BY <1>1, <1>3, <2>1
  <2>2. CASE n >= 3
    BY <1>1, <1>3, <1>5, <1>6, <2>2 DEF PurchaseOrder, status
  <2> QED BY <2>1, <2>2
<1>8. /\ receipts'[r].po = p /\ receipts'[r].qty = receipts[r].qty
      /\ receipts'[r] \in Receipt
      /\ n < 4 => receipts'[r] = receipts[r]
      /\ n >= 4 => receipts'[r].status = "POSTED" /\ receipts'[r].event = e
  <2>1. CASE n < 4
    BY <1>1, <1>4, <2>1
  <2>2. CASE n >= 4
    <3>1. e \in 0..MaxEvents
      BY <1>2
    <3> HIDE DEF e
    <3> QED BY <1>1, <1>4, <2>2, <3>1 DEF Receipt
  <2> QED BY <2>1, <2>2
<1>9. receipts[r].status = "DRAFT" /\ receipts[r].event = 0
  BY <1>1, <1>2 DEF CanPost, References
<1>10. \A x \in DOMAIN pos :
         /\ DOMAIN pos'[x].lines = DOMAIN pos[x].lines
         /\ \A i \in DOMAIN pos[x].lines :
              /\ pos'[x].lines[i].id = pos[x].lines[i].id
              /\ pos'[x].lines[i].ordered = pos[x].lines[i].ordered
         /\ pos'[x].req = pos[x].req /\ pos'[x].cut = pos[x].cut
  <2> SUFFICES ASSUME NEW x \in DOMAIN pos
               PROVE  /\ DOMAIN pos'[x].lines = DOMAIN pos[x].lines
                      /\ \A i \in DOMAIN pos[x].lines :
                           /\ pos'[x].lines[i].id = pos[x].lines[i].id
                           /\ pos'[x].lines[i].ordered = pos[x].lines[i].ordered
                      /\ pos'[x].req = pos[x].req /\ pos'[x].cut = pos[x].cut
    OBVIOUS
  <2>1. CASE x # p
    BY <1>3, <2>1
  <2>2. CASE x = p /\ n < 3
    BY <1>7, <2>2
  <2>3. CASE x = p /\ n >= 3
    BY <1>5, <1>7, <2>3
  <2> QED BY <2>1, <2>2, <2>3
<1>11. TypeOK'
  <2>1. Collection(pos', Pos, PurchaseOrder)
    BY <1>1, <1>3, <1>7 DEF TypeOK, Collection, PostReceipt
  <2>2. Collection(receipts', Receipts, Receipt)
    BY <1>1, <1>4, <1>8 DEF TypeOK, Collection, PostReceipt
  <2>3. idem' \subseteq Receipts \X Keys
    BY <1>1, <1>2 DEF TypeOK
  <2> QED BY <1>1, <1>2, <2>1, <2>2, <2>3 DEF TypeOK
<1>12. References'
  <2>1. ASSUME NEW x \in DOMAIN pos'
        PROVE  LET q == pos'[x].req IN
               /\ q \in DOMAIN reqs'
               /\ reqs'[q].status # "DRAFT"
               /\ ~pos'[x].cut => reqs'[q].status = "CONVERTED"
    BY <1>1, <1>2, <1>3, <1>10 DEF References
  <2>2. ASSUME NEW x \in DOMAIN receipts'
        PROVE  /\ receipts'[x].po \in DOMAIN pos'
               /\ DOMAIN receipts'[x].qty = DOMAIN pos'[receipts'[x].po].lines
               /\ receipts'[x].status = "DRAFT" => receipts'[x].event = 0
    <3>1. receipts'[x].po = receipts[x].po /\ receipts'[x].qty = receipts[x].qty
      BY <1>4, <1>8
    <3>2. receipts'[x].status = "DRAFT" => receipts'[x] = receipts[x]
      BY <1>4, <1>8
    <3> QED BY <1>1, <1>3, <1>4, <1>10, <3>1, <3>2 DEF References
  <2>3. ASSUME NEW f \in DOMAIN ledger', ledger'[f].saves >= 2
        PROVE  <<ledger'[f].receipt, ledger'[f].key>> \in idem'
    <3>1. CASE f = e
      BY <1>2, <2>3, <3>1
    <3>2. CASE f # e
      BY <1>1, <1>2, <2>3, <3>2 DEF References
    <3> QED BY <3>1, <3>2
  <2> QED BY <2>1, <2>2, <2>3 DEF References
<1>13. SameIdsAlike'
  <2> SUFFICES ASSUME NEW x \in DOMAIN pos', NEW i \in DOMAIN pos'[x].lines
               PROVE  /\ \A j \in SameId(x, i)' :
                           pos'[x].lines[j].received = pos'[x].lines[i].received
                      /\ \E j \in SameId(x, i)' :
                           pos'[x].lines[i].received <= pos'[x].lines[j].ordered
    BY DEF SameIdsAlike
  <2>1. SameId(x, i)' = SameId(x, i) /\ x \in DOMAIN pos /\ i \in DOMAIN pos[x].lines
    BY <1>3, <1>10 DEF SameId
  <2>2. CASE pos'[x] = pos[x]
    BY <2>1, <2>2 DEF IInv, SameIdsAlike
  <2>3. CASE x = p /\ pos'[x].lines = new
    BY <1>5, <2>1, <2>3
  <2> QED BY <1>3, <1>7, <2>1, <2>2, <2>3
<1>14. StatusTellsReceived'
  <2> SUFFICES ASSUME NEW x \in DOMAIN pos'
               PROVE  LET lines == pos'[x].lines
                          some == \E i \in DOMAIN lines : lines[i].received > 0
                          full == \A i \in DOMAIN lines : lines[i].received >= lines[i].ordered
                      IN  /\ pos'[x].status \in {"DRAFT", "ISSUED"} => ~some
                          /\ pos'[x].status = "PARTIALLY_RECEIVED" => some /\ ~full
                          /\ full => pos'[x].status = "CLOSED"
    BY DEF StatusTellsReceived
  <2>1. CASE pos'[x] = pos[x]
    BY <1>3, <2>1 DEF IInv, StatusTellsReceived
  <2>2. CASE x = p /\ pos'[x].lines = new /\ pos'[x].status = status
    BY <1>5, <1>6, <2>2
  <2> QED BY <1>3, <1>7, <2>1, <2>2
<1>15. PostedOnce'
  <2>1. ASSUME NEW f \in DOMAIN ledger'
        PROVE  LET x == ledger'[f].receipt IN
               /\ x \in DOMAIN receipts'
               /\ (ledger'[f].saves = 4) <=> (receipts'[x].event = f)
               /\ receipts'[x].status = "POSTED" => f <= receipts'[x].event
               /\ \A g \in DOMAIN ledger' :
                    /\ g < f
                    /\ ledger'[g].receipt = x /\ ledger'[g].key = ledger'[f].key
                    => ledger'[g].saves = 1
    <3> DEFINE x == ledger'[f].receipt
    <3>0. \A g \in DOMAIN ledger' : g \in Nat
      BY <1>2
    <3>1. CASE f = e
      <4>1. x = r /\ x \in DOMAIN receipts'
        BY <1>2, <1>4, <3>1
      <4>2. e # 0
        BY <1>2
      <4>3. /\ (ledger'[f].saves = 4) <=> (receipts'[x].event = f)
            /\ receipts'[x].status = "POSTED" => f <= receipts'[x].event
        BY <1>2, <1>8, <1>9, <3>1, <4>1, <4>2
      <4>4. ASSUME NEW g \in DOMAIN ledger', g < f,
                   ledger'[g].receipt = x, ledger'[g].key = ledger'[f].key
            PROVE  ledger'[g].saves = 1
        <5>1. g \in DOMAIN ledger /\ ledger[g].receipt = r /\ ledger[g].key = k
              /\ ledger'[g] = ledger[g]
          BY <1>2, <3>0, <3>1, <4>1, <4>4
        <5>2. <<r, k>> \notin idem
          BY <1>2 DEF CanPost
        <5>3. ~(ledger[g].saves >= 2)
          BY <1>1, <5>1, <5>2 DEF References
        <5>4. ledger[g].saves \in 1..4
          <6>1. ledger[g] \in Event
            BY <1>1, <5>1 DEF TypeOK
          <6> QED BY <6>1 DEF Event
        <5> QED BY <5>1, <5>3, <5>4
      <4> QED BY <4>1, <4>3, <4>4
    <3>2. CASE f # e
      <4>1. f \in DOMAIN ledger /\ ledger'[f] = ledger[f] /\ f < e
        BY <1>2, <3>2
      <4>2. /\ x \in DOMAIN receipts
            /\ (ledger[f].saves = 4) <=> (receipts[x].event = f)
            /\ receipts[x].status = "POSTED" => f <= receipts[x].event
        BY <1>1, <4>1 DEF PostedOnce
      <4>3. /\ (ledger'[f].saves = 4) <=> (receipts'[x].event = f)
            /\ receipts'[x].status = "POSTED" => f <= receipts'[x].event
        <5>1. CASE x # r
          BY <1>4, <4>1, <4>2, <5>1
        <5>2. CASE x = r /\ n < 4
          BY <1>8, <4>1, <4>2, <5>2
        <5>3. CASE x = r /\ n >= 4
          <6>1. f # 0
            BY <1>1, <4>1 DEF TypeOK
          <6> QED BY <1>8, <1>9, <4>1, <4>2, <5>3, <6>1
        <5> QED BY <5>1, <5>2, <5>3
      <4>4. ASSUME NEW g \in DOMAIN ledger', g < f,
                   ledger'[g].receipt = x, ledger'[g].key = ledger'[f].key
            PROVE  ledger'[g].saves = 1
        <5>1. g \in DOMAIN ledger /\ ledger'[g] = ledger[g]
          BY <1>2, <3>0, <4>1, <4>4
        <5> QED BY <1>1, <4>1, <4>4, <5>1 DEF PostedOnce
      <4> QED BY <1>4, <4>2, <4>3, <4>4
    <3> QED BY <3>1, <3>2
  <2>2. ASSUME NEW x \in DOMAIN receipts', receipts'[x].status = "POSTED"
        PROVE  /\ receipts'[x].event \in DOMAIN ledger'
               /\ ledger'[receipts'[x].event].receipt = x
               /\ ledger'[receipts'[x].event].lines
                    = [i \in Postable(x)' |-> receipts'[x].qty[i]]
    <3>0. Postable(x)' = Postable(x) /\ receipts'[x].qty = receipts[x].qty
      BY <1>4, <1>8 DEF Postable
    <3>1. CASE receipts'[x] = receipts[x]
      <4>1. /\ receipts[x].event \in DOMAIN ledger
            /\ ledger[receipts[x].event].receipt = x
            /\ ledger[receipts[x].event].lines
                 = [i \in Postable(x) |-> receipts[x].qty[i]]
        BY <1>1, <1>4, <2>2, <3>1 DEF PostedOnce
      <4> QED BY <1>2, <3>0, <3>1, <4>1
    <3>2. CASE x = r /\ receipts'[x].event = e
      BY <1>2, <3>0, <3>2
    <3> QED BY <1>4, <1>8, <3>1, <3>2
  <2> QED BY <2>1, <2>2 DEF PostedOnce
<1>16. OrderedOnceAsRequested'
  BY <1>2, <1>3, <1>10 DEF IInv, OrderedOnceAsRequested
<1> QED BY <1>11, <1>12, <1>13, <1>14, <1>15, <1>16 DEF IInv

-----------------------------------------------------------------------------
(* The ledger's sums                                                        *)

\* What the counted events say of line i.
Shares(p, i) == [e \in Counted(p, i) |-> ledger[e].lines[i]]

Agreement ==
  \A p \in DOMAIN pos : \A i \in DOMAIN pos[p].lines :
    pos[p].lines[i].received = Total(Shares(p, i), Counted(p, i))

LEMMA AgreementIsTotal == LedgerTellsReceived <=> Agreement
BY DEF LedgerTellsReceived, Agreement, Shares, FoldFunction, Total

\* They are finitely many quantities.
LEMMA SharesAreCounted ==
  ASSUME TypeOK, NEW p, NEW i
  PROVE  /\ IsFiniteSet(Counted(p, i))
         /\ \A e \in Counted(p, i) : Shares(p, i)[e] \in Int
<1>1. ledger \in Seq(Event) /\ DOMAIN ledger = 1..Len(ledger)
  BY DEF TypeOK
<1>2. IsFiniteSet(Counted(p, i))
  <2>1. IsFiniteSet(1..Len(ledger))
    BY <1>1, FS_Interval
  <2> QED BY <1>1, <2>1, FS_Subset DEF Counted
<1>3. ASSUME NEW e \in Counted(p, i) PROVE Shares(p, i)[e] \in Int
  <2>1. ledger[e] \in Event /\ i \in DOMAIN ledger[e].lines
    BY <1>1 DEF Counted
  <2>2. PICK S \in SUBSET (1..MaxLines) : ledger[e].lines \in [S -> 1..MaxQty]
    BY <2>1 DEF Event
  <2>3. ledger[e].lines[i] \in 1..MaxQty
    BY <2>1, <2>2
  <2> QED BY <2>3, PurchasingAssumption DEF Shares
<1> QED BY <1>2, <1>3

\* A step that appends nothing, lets the receipts' orders and the orders' lines
\* be, and makes orders that have received nothing.
LEMMA QuietAgreement ==
  ASSUME LedgerIInv, UNCHANGED ledger,
         \A r \in DOMAIN receipts : receipts'[r].po = receipts[r].po,
         \A p \in DOMAIN pos' :
           IF p \in DOMAIN pos THEN pos'[p].lines = pos[p].lines
           ELSE \A i \in DOMAIN pos'[p].lines : pos'[p].lines[i].received = 0
  PROVE  LedgerTellsReceived'
<1> SUFFICES ASSUME NEW p \in DOMAIN pos', NEW i \in DOMAIN pos'[p].lines
             PROVE  pos'[p].lines[i].received = Total(Shares(p, i)', Counted(p, i)')
  <2>1. Agreement' => LedgerTellsReceived'
    BY AgreementIsTotal, PTL
  <2> QED BY <2>1 DEF Agreement
<1>1. \A e \in DOMAIN ledger : ledger[e].receipt \in DOMAIN receipts
  BY DEF LedgerIInv, IInv, PostedOnce
<1>2. Counted(p, i)' = Counted(p, i)
  BY <1>1 DEF Counted
<1>3. Shares(p, i)' = Shares(p, i)
  BY <1>2 DEF Shares
<1>4. CASE p \in DOMAIN pos
  BY <1>2, <1>3, <1>4, AgreementIsTotal DEF LedgerIInv, Agreement
<1>5. CASE p \notin DOMAIN pos
  <2>1. Counted(p, i) = {}
    BY <1>1, <1>5 DEF Counted, LedgerIInv, IInv, References
  <2> QED BY <1>2, <1>5, <2>1, TotalOfNone
<1> QED BY <1>4, <1>5

\* What a post adds to line i is the receipt's quantity for it.
LEMMA AddedIsPosted ==
  ASSUME IInv, QtysAlike, NEW r \in DOMAIN receipts,
         NEW i \in DOMAIN pos[receipts[r].po].lines
  PROVE  LET old == pos[receipts[r].po].lines[i] IN
         ReceivedLines(r)[i].received =
           IF i \in Postable(r) THEN old.received + receipts[r].qty[i]
           ELSE old.received
<1> DEFINE p == receipts[r].po
           hits == SameId(p, i) \cap Postable(r)
           IsFirst(x) == \A y \in hits : x <= y
           hit == CHOOSE x \in hits : IsFirst(x)
           old == pos[p].lines[i]
<1>1. p \in DOMAIN pos /\ DOMAIN receipts[r].qty = DOMAIN pos[p].lines
  BY DEF IInv, References
<1>2. PICK n \in 1..MaxLines : pos[p].lines \in [1..n -> PoLine]
  BY <1>1, OrderShape DEF IInv
<1>3. i \in SameId(p, i) /\ \A j \in SameId(p, i) : receipts[r].qty[j] = receipts[r].qty[i]
  BY DEF SameId, QtysAlike
<1>4. hits = {} <=> i \notin Postable(r)
  BY <1>1, <1>3 DEF Postable
<1>5. ReceivedLines(r)[i] = IF hits = {} THEN old
                            ELSE [old EXCEPT !.received = @ + receipts[r].qty[hit]]
  BY DEF ReceivedLines
<1>6. CASE hits = {}
  BY <1>4, <1>5, <1>6
<1>7. CASE hits # {}
  <2>1. hits \subseteq Nat
    BY <1>2 DEF SameId
  <2>2. \E x \in hits : IsFirst(x)
    BY <1>7, <2>1, LeastNumber
  <2>3. hit \in hits
    BY <2>2
  <2>4. receipts[r].qty[hit] = receipts[r].qty[i]
    BY <1>3, <2>3
  <2>5. old \in PoLine
    BY <1>2
  <2> HIDE DEF hit, hits
  <2> QED BY <1>4, <1>5, <1>7, <2>4, <2>5 DEF PoLine
<1> QED BY <1>6, <1>7

\* A post that saved the order has one event that counts for its lines, and no
\* other post has any.
LEMMA PostAgreement ==
  ASSUME LedgerIInv, NEW r \in DOMAIN receipts, NEW k \in Keys, NEW n \in 1..4,
         PostReceipt(r, k, n)
  PROVE  LedgerTellsReceived'
<1> DEFINE p == receipts[r].po
           e == Len(ledger) + 1
<1>1. IInv /\ TypeOK /\ QtysAlike /\ p \in DOMAIN pos /\ r \in Receipts
      /\ DOMAIN receipts[r].qty = DOMAIN pos[p].lines
  BY DEF LedgerIInv, IInv, References, TypeOK, Collection
<1>2. /\ DOMAIN ledger' = DOMAIN ledger \cup {e} /\ e \notin DOMAIN ledger
      /\ \A f \in DOMAIN ledger : ledger'[f] = ledger[f]
      /\ ledger'[e].receipt = r /\ ledger'[e].saves = n
      /\ ledger'[e].lines = [i \in Postable(r) |-> receipts[r].qty[i]]
  BY <1>1, PostFacts
<1>3. /\ DOMAIN pos' = DOMAIN pos
      /\ \A x \in DOMAIN pos : x # p => pos'[x] = pos[x]
      /\ n < 3 => pos' = pos
      /\ n >= 3 => pos'[p].lines = ReceivedLines(r)
  <2>1. /\ DOMAIN pos' = DOMAIN pos
        /\ \A x \in DOMAIN pos : x # p => pos'[x] = pos[x]
        /\ n < 3 => pos' = pos
        /\ n >= 3 => pos'[p] = [pos[p] EXCEPT !.lines = ReceivedLines(r),
                                           !.status = PoStatus(@, ReceivedLines(r))]
    BY <1>1, PostFacts
  <2>2. pos[p] \in PurchaseOrder
    BY <1>1 DEF TypeOK, Collection
  <2> QED BY <2>1, <2>2 DEF PurchaseOrder
<1>4. \A x \in DOMAIN receipts : receipts'[x].po = receipts[x].po
  <2>1. /\ \A x \in DOMAIN receipts : x # r => receipts'[x] = receipts[x]
        /\ n < 4 => receipts' = receipts
        /\ n >= 4 => receipts'[r] = [receipts[r] EXCEPT !.status = "POSTED", !.event = e]
    BY <1>1, PostFacts
  <2>2. receipts[r] \in Receipt
    BY <1>1 DEF TypeOK, Collection
  <2>3. receipts'[r].po = receipts[r].po
    <3>1. CASE n < 4
      BY <2>1, <3>1
    <3>2. CASE n >= 4
      BY <2>1, <2>2, <3>2 DEF Receipt
    <3> QED BY <3>1, <3>2
  <2> QED BY <2>1, <2>3
<1>5. \A f \in DOMAIN ledger : ledger[f].receipt \in DOMAIN receipts
  BY DEF LedgerIInv, IInv, PostedOnce
<1>6. ASSUME NEW x \in DOMAIN pos', NEW i \in DOMAIN pos'[x].lines
      PROVE  pos'[x].lines[i].received = Total(Shares(x, i)', Counted(x, i)')
  <2> DEFINE adds == x = p /\ n >= 3 /\ i \in Postable(r)
             C == Counted(x, i)
  <2>1. Counted(x, i)' = IF adds THEN C \cup {e} ELSE C
    <3>1. \A f \in DOMAIN ledger' :
            f \in Counted(x, i)' <=> f \in C \/ (f = e /\ adds)
      <4> SUFFICES ASSUME NEW f \in DOMAIN ledger'
                   PROVE  f \in Counted(x, i)' <=> f \in C \/ (f = e /\ adds)
        OBVIOUS
      <4>1. CASE f = e
        <5>1. DOMAIN ledger'[e].lines = Postable(r)
          BY <1>2
        <5> QED BY <1>2, <1>4, <4>1, <5>1 DEF Counted
      <4>2. CASE f # e
        <5>1. f \in DOMAIN ledger /\ ledger'[f] = ledger[f]
              /\ receipts'[ledger[f].receipt].po = receipts[ledger[f].receipt].po
          BY <1>2, <1>4, <1>5, <4>2
        <5> QED BY <4>2, <5>1 DEF Counted
      <4> QED BY <4>1, <4>2
    <3>2. Counted(x, i)' \subseteq DOMAIN ledger' /\ C \subseteq DOMAIN ledger'
      BY <1>2 DEF Counted
    <3> QED BY <1>2, <3>1, <3>2
  <2>2. \A f \in C : f \in DOMAIN ledger /\ Shares(x, i)'[f] = Shares(x, i)[f]
    BY <1>2, <2>1 DEF Shares, Counted
  <2>3. /\ IsFiniteSet(C) /\ e \notin C
        /\ \A f \in C : Shares(x, i)[f] \in Int
    BY <1>1, <1>2, <2>2, SharesAreCounted
  <2>4. Total(Shares(x, i)', C) = Total(Shares(x, i), C)
    <3> DEFINE f == Shares(x, i)'
               h == Shares(x, i)
    <3>1. \A y \in C : f[y] = h[y]
      BY <2>2
    <3> SUFFICES Total(f, C) = Total(h, C)
      OBVIOUS
    <3> HIDE DEF f, h, C
    <3> QED BY <2>3, <3>1, TotalOfSame
  <2>5. i \in DOMAIN pos[x].lines
    BY <1>3, <1>1 DEF ReceivedLines
  <2>6. pos[x].lines[i].received = Total(Shares(x, i), C)
    BY <1>3, <2>5, AgreementIsTotal DEF LedgerIInv, Agreement
  <2>7. CASE ~adds
    <3>1. pos'[x].lines[i].received = pos[x].lines[i].received
      <4>1. CASE x # p \/ n < 3
        BY <1>3, <4>1
      <4>2. CASE x = p /\ n >= 3
        BY <1>1, <1>3, <2>5, <2>7, <4>2, AddedIsPosted
      <4> QED BY <4>1, <4>2
    <3> QED BY <2>1, <2>4, <2>6, <2>7, <3>1
  <2>8. CASE adds
    <3>1. pos'[x].lines[i].received = pos[x].lines[i].received + receipts[r].qty[i]
      BY <1>1, <1>3, <2>5, <2>8, AddedIsPosted
    <3>2. Shares(x, i)'[e] = receipts[r].qty[i]
      BY <1>2, <2>1, <2>8 DEF Shares
    <3>3. receipts[r].qty[i] \in Int
      <4>1. receipts[r] \in Receipt /\ i \in DOMAIN receipts[r].qty
        BY <1>1, <2>8 DEF TypeOK, Collection, Postable
      <4>2. PICK m \in 1..MaxLines : receipts[r].qty \in [1..m -> 0..MaxQty]
        BY <4>1 DEF Receipt
      <4> QED BY <4>1, <4>2, PurchasingAssumption
    <3>4. Total(Shares(x, i)', C \cup {e}) = Total(Shares(x, i)', C) + receipts[r].qty[i]
      <4> DEFINE f == Shares(x, i)'
      <4>1. \A y \in C \cup {e} : f[y] \in Int
        BY <2>2, <2>3, <3>2, <3>3
      <4>2. f[e] = receipts[r].qty[i]
        BY <3>2
      <4> SUFFICES Total(f, C \cup {e}) = Total(f, C) + f[e]
        BY <4>2
      <4> HIDE DEF f, C, e
      <4> QED BY <2>3, <4>1, <4>2, TotalWith
    <3> QED BY <2>1, <2>4, <2>6, <2>8, <3>1, <3>4
  <2> QED BY <2>7, <2>8
<1>7. Agreement'
  BY <1>6 DEF Agreement
<1>8. Agreement' => LedgerTellsReceived'
  BY AgreementIsTotal, PTL
<1> QED BY <1>7, <1>8

\* QtysAlike by the ids themselves.
Alike ==
  \A r \in DOMAIN receipts :
    LET lines == pos[receipts[r].po].lines IN
    \A i, j \in DOMAIN lines :
      lines[j].id = lines[i].id => receipts[r].qty[j] = receipts[r].qty[i]

LEMMA AlikeIsQtysAlike == QtysAlike <=> Alike
BY DEF QtysAlike, Alike, SameId

\* Quantities stay alike when every receipt either is as before, its order's
\* lines with it, or has one quantity for each id.
LEMMA QtysStayAlike ==
  ASSUME QtysAlike,
         \A r \in DOMAIN receipts' :
           \/ /\ r \in DOMAIN receipts
              /\ receipts'[r].qty = receipts[r].qty
              /\ receipts'[r].po = receipts[r].po
              /\ LET p == receipts[r].po IN
                 /\ DOMAIN pos'[p].lines = DOMAIN pos[p].lines
                 /\ \A i \in DOMAIN pos[p].lines :
                      pos'[p].lines[i].id = pos[p].lines[i].id
           \/ LET lines == pos'[receipts'[r].po].lines IN
              \A i, j \in DOMAIN lines :
                lines[j].id = lines[i].id => receipts'[r].qty[j] = receipts'[r].qty[i]
  PROVE  QtysAlike'
<1>1. Alike
  BY AlikeIsQtysAlike
<1>2. Alike'
  BY <1>1 DEF Alike
<1>3. Alike' => QtysAlike'
  BY AlikeIsQtysAlike, PTL
<1> QED BY <1>2, <1>3

\* A post leaves the quantities and the ids alone.
LEMMA PostKeepsQtys ==
  ASSUME LedgerIInv, NEW r \in DOMAIN receipts, NEW k \in Keys, NEW n \in 1..4,
         PostReceipt(r, k, n)
  PROVE  QtysAlike'
<1>1. IInv /\ TypeOK /\ CanPost(r, k) /\ r \in DOMAIN receipts
      /\ receipts[r] \in Receipt
  BY PostFacts DEF LedgerIInv, IInv, TypeOK, Collection
<1> DEFINE p == receipts[r].po
           new == ReceivedLines(r)
<1>2. /\ p \in DOMAIN pos /\ DOMAIN new = DOMAIN pos[p].lines
      /\ \A i \in DOMAIN new : new[i].id = pos[p].lines[i].id
  BY <1>1, ReceivedFacts
<1> HIDE DEF new
<1>3. /\ DOMAIN receipts' = DOMAIN receipts
      /\ \A x \in DOMAIN receipts : x # r => receipts'[x] = receipts[x]
      /\ n < 4 => receipts' = receipts
      /\ n >= 4 => receipts'[r] = [receipts[r] EXCEPT !.status = "POSTED",
                                                   !.event = Len(ledger) + 1]
      /\ \A x \in DOMAIN pos : x # p => pos'[x] = pos[x]
      /\ n < 3 => pos' = pos
      /\ n >= 3 => pos'[p] = [pos[p] EXCEPT !.lines = new, !.status = PoStatus(@, new)]
  BY <1>1, PostFacts DEF new
<1>4. receipts'[r].qty = receipts[r].qty /\ receipts'[r].po = p
  <2>1. CASE n < 4
    BY <1>3, <2>1
  <2>2. CASE n >= 4
    BY <1>1, <1>3, <2>2 DEF Receipt
  <2> QED BY <2>1, <2>2
<1>5. pos'[p].lines = pos[p].lines \/ pos'[p].lines = new
  <2>1. pos[p] \in PurchaseOrder
    BY <1>1, <1>2 DEF TypeOK, Collection
  <2>2. CASE n < 3
    BY <1>3, <2>2
  <2>3. CASE n >= 3
    BY <1>3, <2>1, <2>3 DEF PurchaseOrder
  <2> QED BY <2>2, <2>3
<1>6. \A x \in DOMAIN pos :
        /\ DOMAIN pos'[x].lines = DOMAIN pos[x].lines
        /\ \A i \in DOMAIN pos[x].lines : pos'[x].lines[i].id = pos[x].lines[i].id
  BY <1>2, <1>3, <1>5
<1>7. \A x \in DOMAIN receipts' :
        /\ x \in DOMAIN receipts
        /\ receipts'[x].qty = receipts[x].qty /\ receipts'[x].po = receipts[x].po
        /\ receipts[x].po \in DOMAIN pos
  BY <1>1, <1>3, <1>4 DEF IInv, References
<1> QED BY <1>6, <1>7, QtysStayAlike DEF LedgerIInv

\* Every other step appends nothing, and changes neither the orders' lines nor
\* the receipts' orders.
LEMMA QuietStep ==
  ASSUME LedgerIInv, UNCHANGED <<receipts, ledger>>,
         \A p \in DOMAIN pos : p \in DOMAIN pos' /\ pos'[p].lines = pos[p].lines,
         \A p \in DOMAIN pos' \ DOMAIN pos :
           \A i \in DOMAIN pos'[p].lines : pos'[p].lines[i].received = 0
  PROVE  QtysAlike' /\ LedgerTellsReceived'
<1>1. \A r \in DOMAIN receipts : receipts[r].po \in DOMAIN pos
  BY DEF LedgerIInv, IInv, References
<1>2. QtysAlike'
  BY <1>1, QtysStayAlike DEF LedgerIInv
<1>3. LedgerTellsReceived'
  BY QuietAgreement
<1> QED BY <1>2, <1>3

\* A receipt begins with nothing received.
LEMMA CreateReceiptAgrees ==
  ASSUME LedgerIInv, NEW r \in Receipts, NEW p \in DOMAIN pos, CreateReceipt(r, p)
  PROVE  QtysAlike' /\ LedgerTellsReceived'
<1>1. /\ DOMAIN receipts' = DOMAIN receipts \cup {r} /\ r \notin DOMAIN receipts
      /\ receipts'[r].po = p /\ receipts'[r].qty = [i \in DOMAIN pos[p].lines |-> 0]
      /\ \A x \in DOMAIN receipts : receipts'[x] = receipts[x]
      /\ UNCHANGED <<pos, ledger>>
  BY DEF CreateReceipt, With
<1>2. QtysAlike'
  BY <1>1, QtysStayAlike DEF LedgerIInv
<1>3. LedgerTellsReceived'
  BY <1>1, QuietAgreement
<1> QED BY <1>2, <1>3

\* A draft takes one quantity for each id.
LEMMA UpdateReceiptAgrees ==
  ASSUME LedgerIInv, NEW r \in DOMAIN receipts, NEW take \in [LineIds -> 0..MaxQty],
         UpdateReceipt(r, take)
  PROVE  QtysAlike' /\ LedgerTellsReceived'
<1> DEFINE p == receipts[r].po
           qty == [i \in DOMAIN pos[p].lines |-> take[pos[p].lines[i].id]]
<1>1. receipts[r] \in Receipt
  BY DEF LedgerIInv, IInv, TypeOK, Collection
<1>2. /\ DOMAIN receipts' = DOMAIN receipts
      /\ \A x \in DOMAIN receipts : x # r => receipts'[x] = receipts[x]
      /\ receipts'[r] = [receipts[r] EXCEPT !.qty = qty]
      /\ UNCHANGED <<pos, ledger>>
  BY DEF UpdateReceipt
<1>3. receipts'[r].qty = qty /\ receipts'[r].po = p
  <2> HIDE DEF qty
  <2> QED BY <1>1, <1>2 DEF Receipt
<1>4. \A i, j \in DOMAIN pos[p].lines :
        pos[p].lines[j].id = pos[p].lines[i].id => qty[j] = qty[i]
  OBVIOUS
<1>5. QtysAlike'
  <2> HIDE DEF qty
  <2>1. LET lines == pos'[receipts'[r].po].lines IN
        \A i, j \in DOMAIN lines :
          lines[j].id = lines[i].id => receipts'[r].qty[j] = receipts'[r].qty[i]
    BY <1>2, <1>3, <1>4
  <2>2. \A x \in DOMAIN receipts' : x # r =>
          /\ x \in DOMAIN receipts
          /\ receipts'[x].qty = receipts[x].qty /\ receipts'[x].po = receipts[x].po
          /\ pos' = pos
    BY <1>2
  <2> QED BY <2>1, <2>2, QtysStayAlike DEF LedgerIInv
<1>6. LedgerTellsReceived'
  <2> HIDE DEF qty
  <2> QED BY <1>2, <1>3, QuietAgreement
<1> QED BY <1>5, <1>6

-----------------------------------------------------------------------------
(* The theorems                                                             *)

LEMMA Initially == Init => IInv
BY PurchasingAssumption
DEF Init, Empty, IInv, TypeOK, Collection, References, SameIdsAlike, PostedOnce,
    StatusTellsReceived, OrderedOnceAsRequested

LEMMA StepKeeps ==
  ASSUME IInv, [Next]_vars
  PROVE  IInv'
<1>1. CASE UNCHANGED vars
  BY <1>1 DEF vars, IInv, TypeOK, Collection, References, SameIdsAlike, SameId,
              PostedOnce, Postable, StatusTellsReceived, OrderedOnceAsRequested
<1>2. ASSUME NEW q \in Reqs, NEW lines \in SentLines, CreateReq(q, lines)
      PROVE  IInv'
  BY <1>2, CreateReqKeeps DEF SentLines
<1>3. ASSUME NEW q \in DOMAIN reqs, ReqNext(q) PROVE IInv'
  <2>1. ASSUME NEW lines \in SentLines, UpdateReq(q, lines) PROVE IInv'
    BY <2>1, UpdateReqKeeps DEF SentLines
  <2>2. CASE SubmitReq(q)
    BY <2>2, MoveReqKeeps DEF SubmitReq
  <2>3. CASE ApproveReq(q)
    BY <2>3, MoveReqKeeps DEF ApproveReq
  <2>4. CASE RejectReq(q)
    BY <2>4, MoveReqKeeps DEF RejectReq
  <2>5. CASE CancelReq(q)
    BY <2>5, MoveReqKeeps DEF CancelReq
  <2>6. ASSUME NEW p \in Pos, NEW v \in Vendors, NEW n \in 1..2,
               PoFromReq(q, p, v, n)
        PROVE  IInv'
    BY <2>6, PoFromReqKeeps
  <2> QED BY <1>3, <2>1, <2>2, <2>3, <2>4, <2>5, <2>6 DEF ReqNext
<1>4. ASSUME NEW p \in DOMAIN pos, PoNext(p) PROVE IInv'
  <2>1. CASE IssuePo(p)
    BY <2>1, MovePoKeeps DEF IssuePo
  <2>2. CASE CancelPo(p)
    BY <2>2, MovePoKeeps DEF CancelPo
  <2>3. CASE ClosePo(p)
    BY <2>3, MovePoKeeps DEF ClosePo
  <2>4. ASSUME NEW r \in Receipts, CreateReceipt(r, p) PROVE IInv'
    BY <2>4, CreateReceiptKeeps
  <2> QED BY <1>4, <2>1, <2>2, <2>3, <2>4 DEF PoNext
<1>5. ASSUME NEW r \in DOMAIN receipts, ReceiptNext(r) PROVE IInv'
  BY <1>5, UpdateReceiptKeeps, PostReceiptKeeps DEF ReceiptNext
<1>6. ASSUME NEW v \in Vendors, VendorChanges(v) PROVE IInv'
  <2>1. /\ UNCHANGED <<reqs, pos, receipts, ledger, idem>>
        /\ eligible' \subseteq Vendors
    BY <1>6 DEF VendorChanges, IInv, TypeOK
  <2>2. Collection(reqs', Reqs, Requisition)
    BY <2>1 DEF IInv, TypeOK
  <2> QED BY <2>1, <2>2, RequisitionStep
<1> QED BY <1>1, <1>2, <1>3, <1>4, <1>5, <1>6 DEF Next

\* What each step does to the ledger, the receipts and the orders' lines.
LEMMA StepAgrees ==
  ASSUME LedgerIInv, [Next]_vars
  PROVE  QtysAlike' /\ LedgerTellsReceived'
<1> USE DEF LedgerIInv
<1>1. CASE UNCHANGED vars
  BY <1>1, QuietStep DEF vars
<1>2. ASSUME NEW q \in Reqs, NEW lines \in SentLines, CreateReq(q, lines)
      PROVE  QtysAlike' /\ LedgerTellsReceived'
  BY <1>2, QuietStep DEF CreateReq
<1>3. ASSUME NEW q \in DOMAIN reqs, ReqNext(q) PROVE QtysAlike' /\ LedgerTellsReceived'
  <2>1. ASSUME NEW p \in Pos, NEW v \in Vendors, NEW n \in 1..2, PoFromReq(q, p, v, n)
        PROVE  QtysAlike' /\ LedgerTellsReceived'
    <3>1. /\ p \notin DOMAIN pos /\ UNCHANGED <<receipts, ledger>>
          /\ DOMAIN pos' = DOMAIN pos \cup {p}
          /\ \A x \in DOMAIN pos : pos'[x] = pos[x]
          /\ pos'[p].lines = [i \in DOMAIN reqs[q].lines |->
               [id |-> reqs[q].lines[i].id, ordered |-> reqs[q].lines[i].qty,
                received |-> 0]]
      BY <2>1 DEF PoFromReq, With
    <3>2. \A i \in DOMAIN pos'[p].lines : pos'[p].lines[i].received = 0
      BY <3>1
    <3> QED BY <3>1, <3>2, QuietStep
  <2>2. CASE UNCHANGED <<pos, receipts, ledger>>
    BY <2>2, QuietStep
  <2> QED BY <1>3, <2>1, <2>2 DEF ReqNext, UpdateReq, SubmitReq, ApproveReq, RejectReq,
                                  CancelReq, MoveReq
<1>4. ASSUME NEW p \in DOMAIN pos, PoNext(p) PROVE QtysAlike' /\ LedgerTellsReceived'
  <2>1. ASSUME NEW from, NEW to, MovePo(p, from, to)
        PROVE  QtysAlike' /\ LedgerTellsReceived'
    <3>1. pos[p] \in PurchaseOrder
      BY DEF IInv, TypeOK, Collection
    <3>2. /\ UNCHANGED <<receipts, ledger>> /\ DOMAIN pos' = DOMAIN pos
          /\ \A x \in DOMAIN pos : pos'[x].lines = pos[x].lines
      BY <2>1, <3>1 DEF MovePo, PurchaseOrder
    <3> QED BY <3>2, QuietStep
  <2> QED BY <1>4, <2>1, CreateReceiptAgrees DEF PoNext, IssuePo, CancelPo, ClosePo
<1>5. ASSUME NEW r \in DOMAIN receipts, ReceiptNext(r)
      PROVE  QtysAlike' /\ LedgerTellsReceived'
  BY <1>5, UpdateReceiptAgrees, PostKeepsQtys, PostAgreement DEF ReceiptNext
<1>6. ASSUME NEW v \in Vendors, VendorChanges(v) PROVE QtysAlike' /\ LedgerTellsReceived'
  BY <1>6, QuietStep DEF VendorChanges
<1> QED BY <1>1, <1>2, <1>3, <1>4, <1>5, <1>6 DEF Next

\* The inductive invariant holds of every reachable state.
THEOREM InductiveInvariant == Spec => []IInv
<1>1. IInv /\ [Next]_vars => IInv'
  BY StepKeeps
<1> QED BY Initially, <1>1, PTL DEF Spec

\* The collections have the shape their handlers write; in particular no line
\* ever receives more than the greatest quantity that may be ordered.
THEOREM TypeCorrect == Spec => []TypeOK
<1>1. IInv => TypeOK
  BY DEF IInv
<1> QED BY InductiveInvariant, <1>1, PTL

\* No line is received beyond what was ordered if line ids differ, however
\* receipts are drafted side by side, cut by crashes and retried
\* (receipts.js, post).
THEOREM NeverOverReceived == Spec => []WithinOrdered
<1>1. ASSUME IInv PROVE WithinOrdered
  <2> SUFFICES ASSUME NEW p \in DOMAIN pos, DistinctIds(p),
                      NEW i \in DOMAIN pos[p].lines
               PROVE  pos[p].lines[i].received <= pos[p].lines[i].ordered
    BY DEF WithinOrdered
  <2>1. SameId(p, i) = {i}
    BY DEF DistinctIds
  <2> QED BY <1>1, <2>1 DEF IInv, SameIdsAlike
<1> QED BY InductiveInvariant, <1>1, PTL

\* A receipt is posted once, and the event it names says what it says
\* (receipts.js, post; ledger/append.js).
THEOREM ReceiptsPostedOnce == Spec => []PostedOnce
<1>1. IInv => PostedOnce
  BY DEF IInv
<1> QED BY InductiveInvariant, <1>1, PTL

\* An order's status tells what it has received (receipts.js,
\* computePoStatus).
THEOREM StatusesTellReceived == Spec => []StatusTellsReceived
<1>1. IInv => StatusTellsReceived
  BY DEF IInv
<1> QED BY InductiveInvariant, <1>1, PTL

\* A requisition becomes one order, a crash apart, whose lines are for ever
\* the requisition's (purchaseOrders.js).
THEOREM OneOrderPerRequisition == Spec => []OrderedOnceAsRequested
<1>1. IInv => OrderedOnceAsRequested
  BY DEF IInv
<1> QED BY InductiveInvariant, <1>1, PTL

\* The ledger and the orders agree on what every line has received: it is the
\* sum of what the events of the order's receipts say, those apart whose post
\* died before it saved the order, and also when line ids repeat
\* (receipts.js, post; ledger/append.js).
THEOREM LedgerAgrees == Spec => []LedgerTellsReceived
<1>1. Init => LedgerIInv
  BY Initially DEF Init, Empty, LedgerIInv, QtysAlike, LedgerTellsReceived
<1>2. LedgerIInv /\ [Next]_vars => LedgerIInv'
  <2> SUFFICES ASSUME LedgerIInv, [Next]_vars PROVE LedgerIInv'
    OBVIOUS
  <2>1. IInv'
    BY StepKeeps DEF LedgerIInv
  <2>2. QtysAlike' /\ LedgerTellsReceived'
    BY StepAgrees
  <2> QED BY <2>1, <2>2 DEF LedgerIInv
<1>3. LedgerIInv => LedgerTellsReceived
  BY DEF LedgerIInv
<1> QED BY <1>1, <1>2, <1>3, PTL DEF Spec
=============================================================================
