------------------------------- MODULE Reports -------------------------------
(***************************************************************************)
(* Reports and their CSV exports (reports/reporting.js, api/reports.js,    *)
(* api/exports.js): five tables computed from the documents of the "ledger"*)
(* collection, under filters by item, place and time.  A time stands for   *)
(* its string, whose order is the one compared: a time without a fraction  *)
(* of a second comes after those of its second that have one.              *)
(***************************************************************************)
EXTENDS Integers, Sequences, FiniteSetsExt

CONSTANTS
  Item,
  Place,      \* pairs of a hub and a bin, either of which may be missing
  Time,       \* times of a valid form
  Event,      \* the documents that may be in the collection
  MaxEvents,
  Null

Kind == {"receiving", "adjustment"}

Line == [item : Item \cup {Null}, place : Place, qtyDelta : Int, unitCost : Nat \cup {Null}]

\* "at" is Null when no field has a time of a valid form; "kinds" is what the
\* type and the source of the event mark it as.
ReportsAssumption ==
  /\ Time \subseteq Nat /\ MaxEvents \in Nat
  /\ Null \notin Int \cup Item \cup Place
  /\ \A e \in Event : /\ e.at \in Time \cup {Null} /\ e.kinds \subseteq Kind
                      /\ e.lines \in Seq(Line)

VARIABLES
  ledger,   \* the documents of the collection
  answer    \* the last answer to a request

vars == <<ledger, answer>>

Report == {"stock", "movements", "receiving", "shrink", "valuation"}

Filters == [item : Item \cup {Null}, place : Place \cup {Null},
            from : Time \cup {Null}, to : Time \cup {Null}]

Everything == [item |-> Null, place |-> Null, from |-> Null, to |-> Null]

\* The second half of parseFilters; the first rejects other forms of times.
ValidRange(f) == f.from # Null /\ f.to # Null => f.from <= f.to

-----------------------------------------------------------------------------
\* loadLedger: the events that have a time.
LoadLedger == {k \in DOMAIN ledger : ledger[k].at # Null}

\* normalizeLedgerLines: the lines that name an item, as pairs of an event
\* and a position in it.
Lines(K) == UNION {{<<k, j>> : j \in {j \in DOMAIN ledger[k].lines :
                                         ledger[k].lines[j].item # Null}} : k \in K}

LineOf(x) == ledger[x[1]].lines[x[2]]
At(x)     == ledger[x[1]].at
Is(x, kind) == kind \in ledger[x[1]].kinds

InRange(at, f) == /\ f.from # Null => at >= f.from
                  /\ f.to # Null => at <= f.to

ApplyCommonFilters(X, f) ==
  {x \in X : /\ f.item  \in {Null, LineOf(x).item}
             /\ f.place \in {Null, LineOf(x).place}}

\* The lines a report with these filters is made of.
Selected(f) ==
  ApplyCommonFilters(Lines({k \in LoadLedger : InRange(ledger[k].at, f)}), f)

RowKey(x)  == <<LineOf(x).item, LineOf(x).place>>
Keys(X)    == {RowKey(x) : x \in X}
With(X, r) == {x \in X : RowKey(x) = r}
Qty(X)     == SumFunction([x \in X |-> LineOf(x).qtyDelta])
Cost(X)    == SumFunction([x \in X |-> LineOf(x).qtyDelta * LineOf(x).unitCost])

BuildStock(f) == [r \in Keys(Selected(f)) |-> Qty(With(Selected(f), r))]

\* One row per line: who, when and why are the event's.
BuildMovements(f) == {[line |-> x, at |-> At(x), key |-> RowKey(x),
                       qtyDelta |-> LineOf(x).qtyDelta] : x \in Selected(f)}

Costed(X) == {x \in X : LineOf(x).unitCost # Null}
First(X)  == Min({At(x) : x \in X})
Last(X)   == Max({At(x) : x \in X})

BuildReceiving(f) ==
  LET X == {x \in Selected(f) : Is(x, "receiving") /\ LineOf(x).qtyDelta > 0}
  IN  [r \in Keys(X) |-> [qty |-> Qty(With(X, r)), cost |-> Cost(Costed(With(X, r))),
                          first |-> First(With(X, r)), last |-> Last(With(X, r))]]

BuildShrink(f) ==
  LET X == {x \in Selected(f) : Is(x, "adjustment") /\ LineOf(x).qtyDelta < 0}
  IN  [r \in Keys(X) |-> [qty |-> - Qty(With(X, r)), events |-> Cardinality(With(X, r)),
                          first |-> First(With(X, r)), last |-> Last(With(X, r))]]

\* Mutant: the average is taken over the places that are shown.
InboundOfPlace(f) == {x \in Costed(Selected(f)) : LineOf(x).qtyDelta > 0}

\* The lines the average cost is taken over: of every place.
Inbound(f) ==
  {x \in Costed(Selected([f EXCEPT !.place = Null])) : LineOf(x).qtyDelta > 0}

\* A row's value is qty * cost / over; without costed lines it is zero.
BuildValuation(f) ==
  [r \in Keys(Selected(f)) |->
     LET X == {x \in Inbound(f) : LineOf(x).item = r[1]}
     IN  [qty |-> Qty(With(Selected(f), r)), cost |-> Cost(Costed(X)), over |-> Qty(X)]]

Rows(report, f) ==
  CASE report = "stock"     -> BuildStock(f)
    [] report = "movements" -> BuildMovements(f)
    [] report = "receiving" -> BuildReceiving(f)
    [] report = "shrink"    -> BuildShrink(f)
    [] report = "valuation" -> BuildValuation(f)

-----------------------------------------------------------------------------
Size(report, f) == Cardinality(IF report = "movements" THEN BuildMovements(f)
                               ELSE DOMAIN Rows(report, f))

NoAnswer == [status |-> 0, form |-> Null, report |-> Null, size |-> 0, audited |-> FALSE]

TypeOK ==
  /\ ledger \in Seq(Event) /\ Len(ledger) <= MaxEvents
  /\ answer \in [status : {0, 200, 400}, form : {"json", "csv", Null},
                 report : Report \cup {Null}, size : Nat, audited : BOOLEAN]

Init == ledger = << >> /\ answer = NoAnswer

Answers(form, status, report, size, audited) ==
  /\ answer' = [status |-> status, form |-> form, report |-> report,
                size |-> size, audited |-> audited]
  /\ UNCHANGED ledger

\* GET /api/reports/<report>
View(report, f) ==
  \/ ~ValidRange(f) /\ Answers("json", 400, report, 0, FALSE)
  \/ ValidRange(f) /\ Answers("json", 200, report, Size(report, f), TRUE)

\* GET /api/exports/<report>.csv: the same rows, one line each.
Export(report, f) ==
  \/ ~ValidRange(f) /\ Answers("csv", 400, report, 0, FALSE)
  \/ ValidRange(f) /\ Answers("csv", 200, report, Size(report, f), TRUE)

Grow ==
  /\ Len(ledger) < MaxEvents
  /\ \E e \in Event : ledger' = Append(ledger, e)
  /\ UNCHANGED answer

Next ==
  \/ \E report \in Report, f \in Filters : View(report, f) \/ Export(report, f)
  \/ Grow

Spec == Init /\ [][Next]_vars

-----------------------------------------------------------------------------
InStock(f, r) == IF r \in DOMAIN BuildStock(f) THEN BuildStock(f)[r] ELSE 0

Window(a, b) == [Everything EXCEPT !.from = a, !.to = b]

\* Two adjacent windows count every event of the whole once: what is on both
\* sides of the boundary is what the boundary itself holds; and a report without
\* a window is what the times of the ledger hold, each asked for alone
\* (reporting.js inRange, whose ends are both inclusive).
WindowsAddUp ==
  \A r \in Item \X Place :
    /\ \A a, b, c \in Time : a <= b /\ b <= c =>
         InStock(Window(a, c), r) =
           InStock(Window(a, b), r) + InStock(Window(b, c), r) - InStock(Window(b, b), r)
    /\ InStock(Everything, r) =
         SumFunction([t \in {ledger[k].at : k \in LoadLedger} |-> InStock(Window(t, t), r)])

\* Received and lost goods are movements of the period, and the dates of a row
\* are in order and inside the window asked for (reporting.js buildReceiving,
\* buildShrink, against buildMovements).
ActivityIsMovement ==
  \A f \in Filters : ValidRange(f) =>
    \A r \in DOMAIN BuildReceiving(f) \cup DOMAIN BuildShrink(f) :
      LET M == {m \in BuildMovements(f) : m.key = r}
          up   == SumFunction([m \in {m \in M : m.qtyDelta > 0} |-> m.qtyDelta])
          down == SumFunction([m \in {m \in M : m.qtyDelta < 0} |-> - m.qtyDelta])
          Dated(row) == row.first <= row.last /\ InRange(row.first, f) /\ InRange(row.last, f)
      IN  /\ r \in DOMAIN BuildReceiving(f) =>
               BuildReceiving(f)[r].qty \in 1..up /\ Dated(BuildReceiving(f)[r])
          /\ r \in DOMAIN BuildShrink(f) =>
               BuildShrink(f)[r].qty \in 1..down /\ Dated(BuildShrink(f)[r])

\* Looking at one place does not change what its goods are worth, and no average
\* is outside the costs it is taken over (reporting.js buildValuation).
ValuedAlike ==
  \A f \in Filters : ValidRange(f) =>
    \A r \in DOMAIN BuildValuation(f) :
      LET row == BuildValuation(f)[r]
          costs == {LineOf(x).unitCost : x \in {x \in Costed(Lines(LoadLedger)) :
                                                  LineOf(x).item = r[1]}}
      IN  /\ row = BuildValuation([f EXCEPT !.place = Null])[r]
          /\ row.over > 0 => /\ row.cost >= row.over * Min(costs)
                             /\ row.cost <= row.over * Max(costs)

\* What an item is worth: the sum of its rows, as a fraction.
Worth(i) ==
  LET V == BuildValuation(Everything)
      R == {r \in DOMAIN V : r[1] = i}
  IN  IF R = {} THEN <<0, 0, 0>>
      ELSE <<SumFunction([r \in R |-> V[r].qty]), V[CHOOSE r \in R : TRUE].cost,
             V[CHOOSE r \in R : TRUE].over>>

\* An event that only moves goods from place to place, without costs.
Transfer(e) ==
  /\ \A j \in DOMAIN e.lines : e.lines[j].unitCost = Null
  /\ \A i \in Item : SumFunction([j \in {j \in DOMAIN e.lines : e.lines[j].item = i} |->
                                    e.lines[j].qtyDelta]) = 0

\* Such an event leaves the worth of every item as it was (buildValuation).
TransferKeepsWorth ==
  [][(ledger' # ledger /\ Transfer(ledger'[Len(ledger')]))
       => \A i \in Item : Worth(i)' = Worth(i)]_vars
=============================================================================
