----------------------------- MODULE CycleCounts -----------------------------
(***************************************************************************)
(* Cycle counts: the in-memory store (stores/cycleCounts.store.js), the    *)
(* HTTP handlers that drive it (controllers/cycleCounts/), the freeze      *)
(* snapshot (domain/cycleCounts/posting.js) and the ledger read seam       *)
(* (ledger/read.js).                                                       *)
(*                                                                         *)
(* Every handler but submit runs to its end without giving up control, so  *)
(* it is one action.  Submit awaits the ledger once for the cursor and     *)
(* once for each line: it is cut there, and the other handlers run between *)
(* its pieces.                                                             *)
(*                                                                         *)
(* One tenant is modelled: the store keeps a separate map for each tenant. *)
(* A request that is refused before it has written anything leaves no      *)
(* trace and is not a step; a refusal that follows a write is.             *)
(***************************************************************************)
EXTENDS Integers, Sequences, FiniteSets, Functions

CONSTANTS
  Count,      \* cycleCountId values
  Key,        \* (hubId, binId, skuId) triples, numbered in their sort order
  LineId,     \* cycleCountLineId values; crypto.randomUUID never repeats one
  Request,    \* submit requests that may be in progress at the same time
  Qty,        \* the quantities a user may count
  OtherDelta, \* the deltas other writers of the ledger append
  MaxLedger,  \* other writers stop appending at this ledger length
  Null        \* JavaScript's null

ASSUME CycleCountsAssumption ==
  /\ Key \subseteq Nat
  /\ Qty \subseteq Nat
  /\ OtherDelta \subseteq Int
  /\ IsFiniteSet(LineId)
  /\ MaxLedger \in Nat
  /\ Null \notin Int \cup Count \cup LineId

VARIABLES
  header,  \* Count -> the header fields the control flow depends on
  lines,   \* Count -> the ids of the count's lines (rec.lines)
  line,    \* LineId -> the line with that id
  issued,  \* the line ids handed out so far
  ledger,  \* the tenant's ledger events, in order
  submit   \* Request -> the progress of a submit handler

vars == <<header, lines, line, issued, ledger, submit>>

STATUS == {"DRAFT", "SUBMITTED", "APPROVED", "REJECTED", "POSTED"}

Header == [status : STATUS \cup {"NONE"},
           freezeLedgerCursor : Nat \cup {Null},
           postIdempotencyKey : BOOLEAN]

Line == [key : Key,
         countedQty : Qty,
         systemQtyAtFreeze : Int \cup {Null},
         systemQtyDerivationCursor : Nat \cup {Null},
         deltaPlanned : Int \cup {Null}]

Event == [count : Count \cup {Null}, line : LineId \cup {Null},
          key : Key, deltaQty : Int]

LineCopy == [id : LineId, key : Key, countedQty : Qty]

LineSnapshot == [id : LineId, key : Key,
                 systemQtyAtFreeze : Int, deltaPlanned : Int]

Submit == [running : BOOLEAN,
           count : Count \cup {Null},
           cursor : Nat,
           todo : SUBSET LineCopy,
           snaps : SUBSET LineSnapshot]

TypeOK ==
  /\ header \in [Count -> Header]
  /\ lines \in [Count -> SUBSET LineId]
  /\ line \in [LineId -> Line \cup {Null}]
  /\ issued \subseteq LineId
  /\ ledger \in Seq(Event)
  /\ submit \in [Request -> Submit]

-----------------------------------------------------------------------------
(* Ledger reads (ledger/read.js)                                            *)

\* The sum of the deltas recorded for k among events, given by their places.
QtyOf(k, events) ==
  FoldFunction(+, 0, [i \in {i \in DOMAIN events : events[i].key = k} |->
                        events[i].deltaQty])

\* Mutant: the index of the last event instead of the count of events.
LastIndexAsCursor == Len(ledger) - 1

GetCursorAsOfNow == Len(ledger)

\* Mutant: the live quantity, whatever the cursor.
LiveQty(k, cursor) == QtyOf(k, ledger)

GetQtyAsOf(k, cursor) == QtyOf(k, SubSeq(ledger, 1, cursor))

-----------------------------------------------------------------------------
\* A request slot without a handler; the answer of the last one is not kept.
Idle == [running |-> FALSE, count |-> Null, cursor |-> 0,
         todo |-> {}, snaps |-> {}]

Init ==
  /\ header = [c \in Count |-> [status |-> "NONE",
                                freezeLedgerCursor |-> Null,
                                postIdempotencyKey |-> FALSE]]
  /\ lines = [c \in Count |-> {}]
  /\ line = [l \in LineId |-> Null]
  /\ issued = {}
  /\ ledger = << >>
  /\ submit = [r \in Request |-> Idle]

(* Drafting                                                                 *)

CreateDraft(c) ==
  /\ header[c].status = "NONE"
  /\ header' = [header EXCEPT ![c].status = "DRAFT"]

CreateCycleCountDraftHttp(c) ==
  /\ CreateDraft(c)
  /\ UNCHANGED <<lines, line, issued, ledger, submit>>

MustBeDraft(c) == header[c].status = "DRAFT"

\* The key index refuses a second line for the same key.
AddLine(c, l, k, q) ==
  /\ MustBeDraft(c)
  /\ \A m \in lines[c] : line[m].key # k
  /\ l \notin issued
  /\ lines' = [lines EXCEPT ![c] = @ \cup {l}]
  /\ line' = [line EXCEPT ![l] = [key |-> k, countedQty |-> q,
                                  systemQtyAtFreeze |-> Null,
                                  systemQtyDerivationCursor |-> Null,
                                  deltaPlanned |-> Null]]
  /\ issued' = issued \cup {l}

AddCycleCountLineHttp(c) ==
  /\ \E l \in LineId, k \in Key, q \in Qty : AddLine(c, l, k, q)
  /\ UNCHANGED <<header, ledger, submit>>

\* Only countedQty (and the note) can be patched.
UpdateLine(c, l, q) ==
  /\ MustBeDraft(c)
  /\ l \in lines[c]
  /\ line' = [line EXCEPT ![l].countedQty = q]

UpdateCycleCountLineHttp(c) ==
  /\ \E l \in LineId, q \in Qty : UpdateLine(c, l, q)
  /\ UNCHANGED <<header, lines, issued, ledger, submit>>

\* Mutant: a deletion that forgets mustBeDraft.
DeleteAnyTime(c, l) ==
  /\ l \in lines[c]
  /\ lines' = [lines EXCEPT ![c] = @ \ {l}]
  /\ line' = [line EXCEPT ![l] = Null]

DeleteLine(c, l) ==
  /\ MustBeDraft(c)
  /\ l \in lines[c]
  /\ lines' = [lines EXCEPT ![c] = @ \ {l}]
  /\ line' = [line EXCEPT ![l] = Null]

DeleteCycleCountLineHttp(c) ==
  /\ \E l \in LineId : DeleteLine(c, l)
  /\ UNCHANGED <<header, issued, ledger, submit>>

-----------------------------------------------------------------------------
(* Submit                                                                   *)

\* The handler copies header and lines, checks them and calls
\* computeFreezeSnapshot, which takes the cursor before its first await.
SubmitBegin(r, c) ==
  /\ ~submit[r].running
  /\ MustBeDraft(c)
  /\ lines[c] # {}
  /\ submit' = [submit EXCEPT ![r] =
       [running |-> TRUE, count |-> c, cursor |-> GetCursorAsOfNow,
        todo |-> {[id |-> l, key |-> line[l].key,
                   countedQty |-> line[l].countedQty] : l \in lines[c]},
        snaps |-> {}]]
  /\ UNCHANGED <<header, lines, line, issued, ledger>>

\* One turn of the loop of computeFreezeSnapshot: the next line in sort
\* order.  The quantity must be a finite number.
SubmitReadLine(r) ==
  /\ submit[r].running
  /\ \E t \in submit[r].todo :
       LET qty == GetQtyAsOf(t.key, submit[r].cursor) IN
       /\ \A u \in submit[r].todo : t.key <= u.key
       /\ qty \in Int
       /\ submit' = [submit EXCEPT
            ![r].todo = @ \ {t},
            ![r].snaps = @ \cup {[id |-> t.id, key |-> t.key,
                                  systemQtyAtFreeze |-> qty,
                                  deltaPlanned |-> t.countedQty - qty]}]
  /\ UNCHANGED <<header, lines, line, issued, ledger>>

SnapshotTaken(r) == submit[r].running /\ submit[r].todo = {}

\* Mutant: the status is not read again after the awaits.
StatusNotRechecked(r) ==
  IF submit[r].cursor = 0 THEN "FREEZE_SNAPSHOT_MISSING"
  ELSE IF Cardinality(submit[r].snaps) # Cardinality(lines[submit[r].count])
       THEN "FREEZE_SNAPSHOT_LINE_MISMATCH"
  ELSE "NONE"

\* What persistFreezeSnapshot checks before it writes anything, in order.
SnapshotRefusal(r) ==
  LET c == submit[r].count IN
  IF ~MustBeDraft(c) THEN "SUBMIT_INVALID_STATE"
  ELSE IF submit[r].cursor = 0 THEN "FREEZE_SNAPSHOT_MISSING"
  ELSE IF Cardinality(submit[r].snaps) # Cardinality(lines[c])
       THEN "FREEZE_SNAPSHOT_LINE_MISMATCH"
  ELSE "NONE"

\* Snapshots of lines that were deleted while the handler waited.
Unknown(r) == {s \in submit[r].snaps : s.id \notin lines[submit[r].count]}

\* The loop writes line after line and stops at the first unknown id.
Applied(r) ==
  {s \in submit[r].snaps : \A u \in Unknown(r) : s.key < u.key}

\* The lines once the snapshots in S have been written to them.
SnapshotLines(S, cursor) ==
  [l \in LineId |->
     IF \E s \in S : s.id = l
     THEN LET s == CHOOSE s \in S : s.id = l IN
          [line[l] EXCEPT !.systemQtyAtFreeze = s.systemQtyAtFreeze,
                          !.systemQtyDerivationCursor = cursor,
                          !.deltaPlanned = s.deltaPlanned]
     ELSE line[l]]

PersistFreezeSnapshot(r) ==
  /\ SnapshotRefusal(r) = "NONE"
  /\ line' = SnapshotLines(Applied(r), submit[r].cursor)

SubmitRefused(r) ==
  /\ SnapshotTaken(r)
  /\ SnapshotRefusal(r) # "NONE"
  /\ submit' = [submit EXCEPT ![r] = Idle]
  /\ UNCHANGED <<header, lines, line, issued, ledger>>

\* Mutant: the exception is not caught, so the request is never answered.
ThrowsUncaught(r) ==
  /\ SnapshotTaken(r)
  /\ PersistFreezeSnapshot(r)
  /\ Unknown(r) # {}
  /\ header' = [header EXCEPT
       ![submit[r].count].freezeLedgerCursor = submit[r].cursor]
  /\ UNCHANGED <<lines, issued, ledger, submit>>

\* persistFreezeSnapshot throws in its loop: the header already carries the
\* freeze fields, some lines their snapshot, and the count is still DRAFT.
SubmitHalfPersisted(r) ==
  /\ SnapshotTaken(r)
  /\ PersistFreezeSnapshot(r)
  /\ Unknown(r) # {}
  /\ header' = [header EXCEPT
       ![submit[r].count].freezeLedgerCursor = submit[r].cursor]
  /\ submit' = [submit EXCEPT ![r] = Idle]
  /\ UNCHANGED <<lines, issued, ledger>>

\* The snapshot is persisted and transitionStatus moves DRAFT to SUBMITTED
\* in the same turn of the event loop.
SubmitSucceeds(r) ==
  /\ SnapshotTaken(r)
  /\ PersistFreezeSnapshot(r)
  /\ Unknown(r) = {}
  /\ header' = [header EXCEPT
       ![submit[r].count].status = "SUBMITTED",
       ![submit[r].count].freezeLedgerCursor = submit[r].cursor]
  /\ submit' = [submit EXCEPT ![r] = Idle]
  /\ UNCHANGED <<lines, issued, ledger>>

SubmitCycleCountHttp(r) ==
  \/ \E c \in Count : SubmitBegin(r, c)
  \/ SubmitReadLine(r)
  \/ SubmitRefused(r)
  \/ SubmitHalfPersisted(r)
  \/ SubmitSucceeds(r)

-----------------------------------------------------------------------------
(* Review                                                                   *)

TransitionStatus(c, from, to) ==
  /\ header[c].status = from
  /\ header' = [header EXCEPT ![c].status = to]

ApproveCycleCountHttp(c) ==
  /\ TransitionStatus(c, "SUBMITTED", "APPROVED")
  /\ UNCHANGED <<lines, line, issued, ledger, submit>>

RejectCycleCountHttp(c) ==
  /\ TransitionStatus(c, "SUBMITTED", "REJECTED")
  /\ UNCHANGED <<lines, line, issued, ledger, submit>>

-----------------------------------------------------------------------------
(* Post                                                                     *)

\* Mutant: the key of an earlier claim is not looked at.
ClaimAlways(c) == TRUE

\* claimPostLock: the lock is taken once and never given back.
ClaimPostLock(c) == ~header[c].postIdempotencyKey

\* The guards of the post handler, up to and including the claim.
PostGuard(c) ==
  /\ header[c].status = "APPROVED"
  /\ header[c].freezeLedgerCursor \notin {Null, 0}
  /\ ClaimPostLock(c)

\* Mutant: the stored delta is trusted.
TrustStoredDelta(l) == line[l].deltaPlanned # Null

\* The handler recomputes each delta from the stored snapshot.
SnapshotMatches(l) ==
  /\ line[l].systemQtyAtFreeze # Null
  /\ line[l].deltaPlanned # Null
  /\ line[l].countedQty - line[l].systemQtyAtFreeze = line[l].deltaPlanned

ToAdjust(c) == {l \in lines[c] : line[l].deltaPlanned # 0}

\* sortLinesDeterministically on the lines of S.
SortLinesDeterministically(S) ==
  {o \in [1..Cardinality(S) -> S] :
     /\ \A i, j \in 1..Cardinality(S) :
          i < j => line[o[i]].key < line[o[j]].key
     /\ S = {o[i] : i \in 1..Cardinality(S)}}

BuildAdjustmentEvent(c, l) ==
  [count |-> c, line |-> l, key |-> line[l].key,
   deltaQty |-> line[l].deltaPlanned]

Adjustments(c, o, n) == [i \in 1..n |-> BuildAdjustmentEvent(c, o[i])]

\* 409 for a missing or mismatched snapshot: nothing is appended, but the
\* lock stays claimed.
PostMismatch(c) ==
  /\ PostGuard(c)
  /\ \E l \in lines[c] : ~SnapshotMatches(l)
  /\ header' = [header EXCEPT ![c].postIdempotencyKey = TRUE]
  /\ UNCHANGED <<lines, line, issued, ledger, submit>>

\* Mutant: a failed attempt gives the lock back.
PostFailsAndUnlocks(c) ==
  /\ PostGuard(c)
  /\ \A l \in lines[c] : SnapshotMatches(l)
  /\ \E o \in SortLinesDeterministically(ToAdjust(c)) :
       \E n \in 0..(Cardinality(ToAdjust(c)) - 1) :
         ledger' = ledger \o Adjustments(c, o, n)
  /\ UNCHANGED <<header, lines, line, issued, submit>>

\* Validation of an event (n = 0), or the append of event n + 1, throws:
\* the n events before it stay in the ledger and the lock stays claimed.
PostFails(c) ==
  /\ PostGuard(c)
  /\ \A l \in lines[c] : SnapshotMatches(l)
  /\ \E o \in SortLinesDeterministically(ToAdjust(c)) :
       \E n \in 0..(Cardinality(ToAdjust(c)) - 1) :
         ledger' = ledger \o Adjustments(c, o, n)
  /\ header' = [header EXCEPT ![c].postIdempotencyKey = TRUE]
  /\ UNCHANGED <<lines, line, issued, submit>>

PostSucceeds(c) ==
  /\ PostGuard(c)
  /\ \A l \in lines[c] : SnapshotMatches(l)
  /\ \E o \in SortLinesDeterministically(ToAdjust(c)) :
       ledger' = ledger \o Adjustments(c, o, Cardinality(ToAdjust(c)))
  /\ header' = [header EXCEPT ![c].postIdempotencyKey = TRUE,
                              ![c].status = "POSTED"]
  /\ UNCHANGED <<lines, line, issued, submit>>

PostCycleCountHttp(c) == PostMismatch(c) \/ PostFails(c) \/ PostSucceeds(c)

-----------------------------------------------------------------------------
\* Any other writer of the same ledger (receipts, manual adjustments).
OtherLedgerWrite ==
  /\ Len(ledger) < MaxLedger
  /\ \E k \in Key, d \in OtherDelta :
       ledger' = Append(ledger, [count |-> Null, line |-> Null,
                                 key |-> k, deltaQty |-> d])
  /\ UNCHANGED <<header, lines, line, issued, submit>>

Next ==
  \/ \E c \in Count :
       \/ CreateCycleCountDraftHttp(c)
       \/ AddCycleCountLineHttp(c)
       \/ UpdateCycleCountLineHttp(c)
       \/ DeleteCycleCountLineHttp(c)
       \/ ApproveCycleCountHttp(c)
       \/ RejectCycleCountHttp(c)
       \/ PostCycleCountHttp(c)
  \/ \E r \in Request : SubmitCycleCountHttp(r)
  \/ OtherLedgerWrite

Spec == Init /\ [][Next]_vars

\* A continuation that is ready runs: the event loop drops none.
HandlerProgress(r) ==
  SubmitReadLine(r) \/ SubmitRefused(r) \/ SubmitHalfPersisted(r)
    \/ SubmitSucceeds(r)

Fairness == \A r \in Request : WF_vars(HandlerProgress(r))
-----------------------------------------------------------------------------
(* Properties                                                               *)

IsFrozen(c) == header[c].status \notin {"NONE", "DRAFT"}

\* The adjustments count c has appended to the ledger, by their places in it.
EventsOf(c) == Restrict(ledger, {i \in DOMAIN ledger : ledger[i].count = c})

\* However often posting is retried and wherever an attempt broke off, the
\* ledger holds at most one adjustment for a line (claimPostLock: "no
\* double-post").
AdjustedAtMostOnce ==
  \A i, j \in DOMAIN ledger :
    ledger[i].line # Null /\ ledger[i].line = ledger[j].line => i = j

\* An adjustment is only in the ledger for a count that was approved and
\* whose post lock is claimed, and only for a line that still belongs to it.
WrittenUnderClaim ==
  \A i \in DOMAIN ledger : ledger[i].line # Null =>
    LET c == ledger[i].count IN
    /\ c \in Count
    /\ header[c].status \in {"APPROVED", "POSTED"}
    /\ header[c].postIdempotencyKey
    /\ ledger[i].line \in lines[c]

\* A frozen count's snapshot can be recomputed from the ledger at any later
\* time: every line carries the header's cursor and the quantity as of that
\* cursor, although lines were edited while submit awaited the ledger and a
\* failed submit left a partial snapshot behind.
SnapshotReproducible ==
  \A c \in Count : IsFrozen(c) =>
    /\ header[c].freezeLedgerCursor \in 1..Len(ledger)
    /\ \A l \in lines[c] :
         /\ line[l].systemQtyDerivationCursor = header[c].freezeLedgerCursor
         /\ line[l].systemQtyAtFreeze =
              QtyOf(line[l].key,
                    SubSeq(ledger, 1, header[c].freezeLedgerCursor))

\* What a posted count is for: for every counted key, the quantity as of the
\* freeze plus the count's own adjustments is the counted quantity.
PostedReconciles ==
  \A c \in Count : header[c].status = "POSTED" =>
    \A l \in lines[c] :
      QtyOf(line[l].key, SubSeq(ledger, 1, header[c].freezeLedgerCursor))
        + QtyOf(line[l].key, EventsOf(c)) = line[l].countedQty

\* Once a count has left DRAFT its lines, their counted quantities and their
\* snapshot, and the freeze cursor never change again, whatever submit
\* requests are still waiting for the ledger.
FrozenOnceSubmitted ==
  [][\A c \in Count : IsFrozen(c) =>
       /\ lines'[c] = lines[c]
       /\ \A l \in lines[c] : line'[l] = line[l]
       /\ header'[c].freezeLedgerCursor = header[c].freezeLedgerCursor
    ]_vars

\* The parts of the inductive invariant behind these properties.

\* A line belongs to one count, and its id was handed out.
LinesSound ==
  \A c \in Count : \A l \in lines[c] :
    /\ line[l] \in Line
    /\ l \in issued
    /\ \A d \in Count : l \in lines[d] => d = c

\* The post lock is only claimed for a count that was approved.
LockSound ==
  \A c \in Count :
    header[c].postIdempotencyKey => header[c].status \in {"APPROVED", "POSTED"}

\* The copies and snapshots a waiting submit holds: ids are unique, a copied
\* key is the key of the line for as long as the line exists, and a snapshot
\* is the quantity as of the cursor.
HeldSound(r) ==
  LET held == submit[r].todo \cup submit[r].snaps IN
  /\ submit[r].count \in Count
  /\ submit[r].cursor <= Len(ledger)
  /\ \A t \in held :
       /\ t.id \in issued
       /\ t.id \in lines[submit[r].count] => line[t.id].key = t.key
  /\ \A t, u \in submit[r].todo : t.id = u.id => t = u
  /\ \A t, u \in submit[r].snaps : t.id = u.id => t = u
  /\ \A t \in submit[r].todo, u \in submit[r].snaps : t.id # u.id
  /\ \A s \in submit[r].snaps :
       s.systemQtyAtFreeze =
         QtyOf(s.key, SubSeq(ledger, 1, submit[r].cursor))

SubmitSound == \A r \in Request : submit[r].running => HeldSound(r)

IInv ==
  /\ TypeOK
  /\ LinesSound
  /\ LockSound
  /\ WrittenUnderClaim
  /\ AdjustedAtMostOnce
  /\ SubmitSound
  /\ SnapshotReproducible

\* Every submit request is answered.
SubmitAnswered ==
  \A r \in Request : submit[r].running ~> ~submit[r].running

\* ledger/read.js derives a cursor for every ledger: "integer count is
\* sufficient" (ledger/read.js:52); computeFreezeSnapshot accepts 0.  So a
\* submit should never be told that the cursor is missing.
CursorNeverMissing ==
  [][\A r \in Request :
       SubmitRefused(r) => SnapshotRefusal(r) # "FREEZE_SNAPSHOT_MISSING"]_vars

\* The parts behind PostedReconciles and KeepsPromise.

\* A count has one line for a key.
DistinctKeys ==
  \A c \in Count : \A l, m \in lines[c] : line[l].key = line[m].key => l = m

\* An event of a count says what its line, which is still there, was to be
\* adjusted by.
EventsTellPlan ==
  \A i \in DOMAIN ledger :
    LET e == ledger[i] IN
    IF e.line = Null THEN e.count = Null
    ELSE /\ e.line \in ToAdjust(e.count)
         /\ e.key = line[e.line].key
         /\ e.deltaQty = line[e.line].deltaPlanned

\* A frozen count has a planned delta for every line.
PlanComplete ==
  \A c \in Count : IsFrozen(c) => \A l \in lines[c] : line[l].deltaPlanned \in Int

\* A posted count found every line sound, and has adjusted all it had to.
PlanCarriedOut ==
  \A c \in Count : header[c].status = "POSTED" =>
    /\ \A l \in lines[c] : SnapshotMatches(l)
    /\ \A l \in ToAdjust(c) : \E i \in DOMAIN ledger : ledger[i].line = l

PlanIInv ==
  IInv /\ DistinctKeys /\ EventsTellPlan /\ PlanComplete /\ PlanCarriedOut

(* Cycle counts implement the abstract promise of CountReconciliation.      *)

StageOf(c) ==
  CASE header[c].status \in {"NONE", "DRAFT"} -> "editing"
    [] header[c].status = "SUBMITTED" -> "planned"
    [] header[c].status = "REJECTED" -> "dropped"
    [] header[c].status = "POSTED" -> "complete"
    [] header[c].status = "APPROVED" ->
         IF header[c].postIdempotencyKey THEN "broken" ELSE "accepted"

PlanOf(c) ==
  IF IsFrozen(c)
  THEN {<<line[l].key, line[l].deltaPlanned>> : l \in ToAdjust(c)}
  ELSE {}

WrittenBy(c) ==
  [i \in DOMAIN EventsOf(c) |-> <<EventsOf(c)[i].key, EventsOf(c)[i].deltaQty>>]

Promise == INSTANCE CountReconciliation WITH
  stage <- [c \in Count |-> StageOf(c)],
  plan <- [c \in Count |-> PlanOf(c)],
  written <- [c \in Count |-> WrittenBy(c)]

\* The handlers, the store and the ledger together keep that promise.
KeepsPromise == Promise!Spec
=============================================================================
