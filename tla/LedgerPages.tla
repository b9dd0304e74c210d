----------------------------- MODULE LedgerPages -----------------------------
(***************************************************************************)
(* The inventory pages of the web client and the cache of ledger events    *)
(* they share (web/lib/ledgerCache.js, web/app/inventory).                 *)
(*                                                                         *)
(* The cache lives as long as the tab: a promise, a result and an error.   *)
(* It never cancels a fetch, so one that was started before the cache was  *)
(* cleared still writes to it.  A page that is left does not see the loads *)
(* it had under way; the cache does.  The server's ledger only grows, and  *)
(* an answer shows it as it was at some moment of the fetch; a version is  *)
(* a number of events.                                                     *)
(***************************************************************************)
EXTENDS Integers, Sequences, FiniteSetsExt

CONSTANTS
  Item,       \* well-formed item ids
  Blank,      \* an item id of white space
  Stocked,    \* the items that GET /api/inventory/items returns
  Event,      \* what may be appended: an itemId and a qtyDelta, or Null
  PageSize,   \* PAGE_SIZE
  MaxEvents, MaxLoads, MaxMounts,
  Null

LedgerPagesAssumption ==
  /\ Stocked \subseteq Item /\ IsFiniteSet(Stocked) /\ Blank \notin Item
  /\ Event \subseteq [itemId : Item \cup {Blank, Null}, qtyDelta : Int \cup {Null}]
  /\ PageSize \in Nat \ {0}
  /\ MaxEvents \in Nat /\ MaxLoads \in Nat \ {0} /\ MaxMounts \in Nat \ {0}
  /\ Null \notin Int \cup Item \cup {Blank}

VARIABLES
  ledger,   \* the server's events
  cache,    \* _cachedPromise, _cachedResult and _cachedError
  fetches,  \* the versions that were current when the pending fetches began
  started,  \* fetches, and loads, since the tab was loaded
  starts,   \* fetches since the cache was last cleared
  loads,    \* calls of load() of the page shown that wait for an answer
  view      \* the page shown and its state

vars == <<ledger, cache, fetches, started, starts, loads, view>>

OfLedger == {"snapshot", "anomalies", "movements", "item"}
OfItems  == {"items", "summary"}
Page == OfLedger \cup OfItems \cup {"reconciliation"}

Version == 0..MaxEvents

Waiting == [id : 1..MaxLoads, force : BOOLEAN, pressed : Version,
            fetch : 1..MaxLoads \cup {Null}, got : Version \cup {Null},
            needs : BOOLEAN, items : SUBSET Item]

View == [page : Page, mount : 1..MaxMounts, loading : BOOLEAN, err : BOOLEAN,
         shown : Version \cup {Null}, items : SUBSET Item,
         focus : Item \cup {Null}, pageNo : Nat \ {0}]

TypeOK ==
  /\ ledger \in Seq(Event) /\ Len(ledger) <= MaxEvents
  /\ cache \in [promise : 1..MaxLoads \cup {Null},
                result : Version \cup {Null}, error : BOOLEAN]
  /\ fetches \in [1..MaxLoads -> Version \cup {Null}]
  /\ started \in 0..MaxLoads /\ starts \in Nat
  /\ loads \subseteq Waiting
  /\ view \in View

NoCache == [promise |-> Null, result |-> Null, error |-> FALSE]

Fresh(p, m, f) ==
  [page |-> p, mount |-> m, loading |-> TRUE, err |-> FALSE, shown |-> Null,
   items |-> {}, focus |-> f, pageNo |-> 1]

-----------------------------------------------------------------------------
(* What the pages make of the first v events.                              *)

Sum(K) == FoldFunction(+, 0, [k \in K |-> ledger[k].qtyDelta])

Focussed(v, f) == {k \in 1..v : f = Null \/ ledger[k].itemId = f}

\* Snapshot: a blank id is an item like any other.
SkippedId(v)  == {k \in 1..v : ledger[k].itemId = Null}

SkippedQty(v) == {k \in 1..v \ SkippedId(v) : ledger[k].qtyDelta = Null}
Counted(v, i) == {k \in 1..v : ledger[k].itemId = i /\ ledger[k].qtyDelta # Null}
SnapshotRows(v) == {i \in Item \cup {Blank} : Counted(v, i) # {}}
SnapshotTotal(v, i) == Sum(Counted(v, i))

\* Anomalies: a blank id is a missing one; an event may miss both fields.
MissingItemId(v)   == {k \in 1..v : ledger[k].itemId \notin Item}
MissingQtyDelta(v) == {k \in 1..v : ledger[k].qtyDelta = Null}
NegativeDelta(v)   == {k \in 1..v \ MissingQtyDelta(v) : ledger[k].qtyDelta < 0}
NegativeTotals(v)  ==
  {i \in Item : Sum({k \in 1..v \ MissingQtyDelta(v) : ledger[k].itemId = i}) < 0}

\* The item page: the events of one item, and what they sum to.
ItemTotal(v, i) == Sum({k \in Focussed(v, i) : ledger[k].qtyDelta # Null})

\* Reconciliation starts from the stock list; an item without events has 0.
LedgerQty(v, i) == IF i \in SnapshotRows(v) THEN SnapshotTotal(v, i) ELSE 0

\* The rows a page turns over.
Rows(w) ==
  LET v == IF w.shown = Null THEN 0 ELSE w.shown
      Of(S) == {i \in S : w.focus \in {Null, i}}
  IN  IF w.page = "snapshot" THEN Of(SnapshotRows(v))
      ELSE IF w.page = "anomalies" THEN NegativeDelta(v) \cap Focussed(v, w.focus)
      ELSE IF w.page \in OfLedger THEN Focussed(v, w.focus)
      ELSE Of(w.items)

PageCount(w) == LET n == Cardinality(Rows(w))
                IN  Max({1, (n + PageSize - 1) \div PageSize})

\* The effect that starts again with page 1 when the number of rows changes.
ResetPage(w) ==
  IF Cardinality(Rows(w)) # Cardinality(Rows(view)) THEN [w EXCEPT !.pageNo = 1] ELSE w

-----------------------------------------------------------------------------
(* The cache and the loads.                                                *)

Tab(c, f, s, l) == [cache |-> c, fetches |-> f, starts |-> s, loads |-> l]

\* Mutant: the promise of the fetch under way is kept.
ClearsAnswersOnly ==
  Tab([cache EXCEPT !.result = Null, !.error = FALSE], fetches, 0, loads)

\* What a load starts from: the tab as it is, after clearLedgerCache, on
\* another page, or after the browser has loaded the document again.
Here    == Tab(cache, fetches, starts, loads)
Cleared == Tab(NoCache, fetches, 0, loads)
Left    == Tab(cache, fetches, starts, {})
NewTab  == Tab(NoCache, [f \in 1..MaxLoads |-> Null], 0, {})

\* Mutant: the page goes on saying that it is loading.
FailsOn(w) == [w EXCEPT !.shown = Null, !.items = {}, !.err = TRUE]

\* How a load ends: with an answer, or with an error and no data.
Shows(w, v, items) == [w EXCEPT !.shown = v, !.items = items, !.loading = FALSE]
Fails(w) == [w EXCEPT !.shown = Null, !.items = {}, !.err = TRUE, !.loading = FALSE]

Waits(force, fetch, got, needs) ==
  [id |-> started + 1, force |-> force, pressed |-> Len(ledger),
   fetch |-> fetch, got |-> got, needs |-> needs, items |-> {}]

\* The tab t goes on with one more waiting load, or with none.
Goes(t, more) ==
  /\ cache' = t.cache /\ fetches' = t.fetches /\ starts' = t.starts
  /\ loads' = t.loads \cup more

\* getLedgerEventsCached, for a load of the view w; "needs" says that
\* the load waits for the stock list too, which it asks for at the same time.
Get(w, t, force, needs) ==
  LET c == t.cache
      n == started + 1
  IN  /\ started < MaxLoads /\ started' = n
      /\ UNCHANGED ledger
      /\ \/ /\ c.result # Null /\ ~needs
            /\ Goes(t, {}) /\ view' = ResetPage(Shows(w, c.result, {}))
         \/ /\ c.result # Null /\ needs
            /\ Goes(t, {Waits(force, Null, c.result, TRUE)}) /\ view' = ResetPage(w)
         \/ /\ c.result = Null /\ c.error
            /\ Goes(t, {}) /\ view' = ResetPage(Fails(w))
         \/ /\ c.result = Null /\ ~c.error /\ c.promise # Null
            /\ Goes(t, {Waits(force, c.promise, Null, needs)}) /\ view' = ResetPage(w)
         \/ /\ c.result = Null /\ ~c.error /\ c.promise = Null
            /\ Goes(Tab([c EXCEPT !.promise = n], [t.fetches EXCEPT ![n] = Len(ledger)],
                        t.starts + 1, t.loads),
                    {Waits(force, n, Null, needs)})
            /\ view' = ResetPage(w)

\* A page that waits for the stock list alone.  The summary asks for the
\* ledger too, but looks for the events where the answer does not have them.
GetItems(w, t) ==
  /\ started < MaxLoads /\ started' = started + 1
  /\ Goes(t, {Waits(FALSE, Null, 0, TRUE)}) /\ view' = ResetPage(w)
  /\ UNCHANGED ledger

Begins == [view EXCEPT !.loading = TRUE, !.err = FALSE]

Load(force, needs) == Get(Begins, IF force THEN Cleared ELSE Here, force, needs)

\* The freshness bar's buttons of these three work while a load is under way.
LoadSnapshot(force)  == view.page = "snapshot"  /\ Load(force, FALSE)
LoadAnomalies(force) == view.page = "anomalies" /\ Load(force, FALSE)
LoadMovements(force) == view.page = "movements" /\ Load(force, FALSE)

LoadItem(force) == view.page = "item" /\ ~view.loading /\ Load(force, FALSE)
LoadReconciliation ==
  view.page = "reconciliation" /\ ~view.loading /\ Load(FALSE, TRUE)
LoadSummary == view.page = "summary" /\ ~view.loading /\ GetItems(Begins, Here)
LoadItems   == view.page = "items" /\ ~view.loading /\ GetItems(Begins, Here)

Opens(p, t) ==
  LET w == Fresh(p, view.mount + 1, view.focus)
  IN  /\ view.mount < MaxMounts
      /\ IF p \in OfItems THEN GetItems(w, t)
         ELSE Get(w, t, FALSE, p = "reconciliation")

\* A link mounts another page, which loads: the modules of the tab stay.
Navigate(p) == Opens(p, Left)

HardRefresh == Opens(view.page, NewTab)

-----------------------------------------------------------------------------
(* Answers.                                                                *)

WaitFor(f) == {l \in loads : l.fetch = f}
Latest(L)  == CHOOSE l \in L : \A k \in L : k.id <= l.id

\* The fetch succeeds: the cache gets its result, even when the cache was
\* cleared since or another fetch was faster, and the loads go on.
FetchSucceeds(f) ==
  /\ fetches[f] # Null
  /\ \E v \in fetches[f]..Len(ledger) :
       LET done == {l \in WaitFor(f) : ~l.needs}
       IN  /\ cache' = [cache EXCEPT !.promise = Null, !.result = v]
           /\ loads' = (loads \ WaitFor(f)) \cup
                       {[l EXCEPT !.fetch = Null, !.got = v] : l \in WaitFor(f) \ done}
           /\ view' = IF done = {} THEN view
                      ELSE ResetPage(Shows(view, v, Latest(done).items))
  /\ fetches' = [fetches EXCEPT ![f] = Null]
  /\ UNCHANGED <<ledger, started, starts>>

\* Mutant: the error is not remembered.
ForgetsError(f) ==
  /\ fetches[f] # Null
  /\ cache' = [cache EXCEPT !.promise = Null]
  /\ fetches' = [fetches EXCEPT ![f] = Null]
  /\ loads' = loads \ WaitFor(f)
  /\ view' = IF WaitFor(f) = {} THEN view ELSE ResetPage(Fails(view))
  /\ UNCHANGED <<ledger, started, starts>>

\* The fetch is refused or does not get through: the error is cached too.
FetchFails(f) ==
  /\ fetches[f] # Null
  /\ cache' = [cache EXCEPT !.promise = Null, !.error = TRUE]
  /\ fetches' = [fetches EXCEPT ![f] = Null]
  /\ loads' = loads \ WaitFor(f)
  /\ view' = IF WaitFor(f) = {} THEN view ELSE ResetPage(Fails(view))
  /\ UNCHANGED <<ledger, started, starts>>

\* The stock list comes; a refusal is an answer without items.
ItemsArrive(l) ==
  /\ l.needs
  /\ \E items \in {Stocked, {}} :
       IF l.got = Null
       THEN /\ loads' = (loads \ {l}) \cup {[l EXCEPT !.needs = FALSE, !.items = items]}
            /\ view' = view
       ELSE /\ loads' = loads \ {l}
            /\ view' = ResetPage(Shows(view, l.got, items))
  /\ UNCHANGED <<ledger, cache, fetches, started, starts>>

\* No answer: the load fails at once, whatever became of the ledger.
ItemsFail(l) ==
  /\ l.needs
  /\ loads' = loads \ {l}
  /\ view' = ResetPage(Fails(view))
  /\ UNCHANGED <<ledger, cache, fetches, started, starts>>

Grow ==
  /\ Len(ledger) < MaxEvents
  /\ \E e \in Event : ledger' = Append(ledger, e)
  /\ UNCHANGED <<cache, fetches, started, starts, loads, view>>

\* The focus field; an emptied one shows all rows again.
Focus ==
  /\ view.page # "summary"
  /\ \E i \in Item \cup {Null} :
       LET w == [view EXCEPT !.focus = i]
       IN  /\ i # view.focus
           /\ view' = IF view.page = "anomalies" THEN ResetPage(w)
                      ELSE [w EXCEPT !.pageNo = 1]
  /\ UNCHANGED <<ledger, cache, fetches, started, starts, loads>>

TurnPage ==
  /\ view.page \in {"snapshot", "anomalies", "movements", "reconciliation"}
  /\ \E n \in {view.pageNo - 1, view.pageNo + 1} \cap 1..PageCount(view) :
       view' = [view EXCEPT !.pageNo = n]
  /\ UNCHANGED <<ledger, cache, fetches, started, starts, loads>>

Init ==
  /\ ledger = << >>
  /\ cache = [NoCache EXCEPT !.promise = 1]
  /\ fetches = [f \in 1..MaxLoads |-> IF f = 1 THEN 0 ELSE Null]
  /\ started = 1 /\ starts = 1
  /\ loads = {[id |-> 1, force |-> FALSE, pressed |-> 0, fetch |-> 1,
               got |-> Null, needs |-> FALSE, items |-> {}]}
  /\ view = Fresh("snapshot", 1, Null)

Answer ==
  \/ \E f \in 1..MaxLoads : FetchSucceeds(f) \/ FetchFails(f)
  \/ \E l \in loads : ItemsArrive(l) \/ ItemsFail(l)

Next ==
  \/ Answer
  \/ \E force \in BOOLEAN :
       LoadSnapshot(force) \/ LoadAnomalies(force) \/ LoadMovements(force) \/ LoadItem(force)
  \/ LoadReconciliation \/ LoadSummary \/ LoadItems
  \/ \E p \in Page : Navigate(p)
  \/ HardRefresh \/ Grow \/ Focus \/ TurnPage

Spec == Init /\ [][Next]_vars

\* Every request is answered, or given up by the browser.
FairSpec == Spec /\ WF_vars(Answer)

-----------------------------------------------------------------------------
\* Between two clearings of the cache at most one fetch starts, whatever
\* became of fetches that were started before: the pages share one answer, or
\* one error (ledgerCache.js getLedgerEventsCached).
SingleFlight == starts <= 1

\* A forced load that ends with data shows no less than what the server had
\* when the button was pressed, though older fetches are still under way and
\* write to the same cache (ledgerCache.js clearLedgerCache).
ForcedIsFresh ==
  [][\A l \in loads :
       (l.force /\ l \notin loads' /\ view'.mount = view.mount /\ view'.shown # Null)
         => view'.shown >= l.pressed]_vars

\* With no load under way a page of the ledger shows data or says why not,
\* and a page that says it is loading has a load under way, however loads
\* overlapped, failed or were left behind by navigation (pages' load()).
SaysWhatItShows ==
  /\ loads = {} => view.shown # Null \/ view.err
  /\ view.loading => loads # {}

\* The page number stays within the table, whatever replaced the rows or the
\* focus since it was turned to (the effects that set page 1).
PageInRange == view.pageNo \in 1..PageCount(view)

\* The pages agree: an item has one total on all of them, and the snapshot
\* counts or skips every event once (the useMemo of each page).
PagesAgree ==
  \A v \in 0..Len(ledger) :
    /\ \A i \in Item :
         /\ SnapshotTotal(v, i) = ItemTotal(v, i)
         /\ LedgerQty(v, i) = ItemTotal(v, i)
         /\ i \in NegativeTotals(v) <=> i \in SnapshotRows(v) /\ SnapshotTotal(v, i) < 0
    /\ Cardinality(SkippedId(v)) + Cardinality(SkippedQty(v)) +
         Cardinality(UNION {Counted(v, i) : i \in SnapshotRows(v)}) = v

\* A page does not say it is loading forever.
LoadingEnds == view.loading ~> ~view.loading
=============================================================================
