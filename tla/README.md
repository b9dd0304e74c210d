# Asora: a TLA+ verification project

Asora is an inventory system: an append-only ledger of stock movements, cycle
counts that correct it, procurement from requisition or quotation to receipt,
and the sign-in and sessions of its users. The backend exists twice, as a Node
server with CommonJS handlers over an in-memory or per-tenant JSON store, and as
a Cloudflare Worker over KV and one Durable Object. The repository has no
automated tests.

This directory holds models of the parts whose correctness depends on order,
concurrency and failure, small instances that TLC checks, and proofs that TLAPS
checks for every value of the constants.

1. [Inventory](#1-inventory)
2. [Modules and the code](#2-modules-and-the-code)
3. [Runs: what is checked, with which bounds](#3-runs)
4. [Fairness](#4-fairness)
5. [What is proved, and how](#5-proofs)
6. [Where code and documentation disagree](#6-disagreements)
7. [What is only model-checked, what is not modelled](#7-limits)
8. [Plan](#8-plan)

To check one run: `tlc -workers 2 -config MCSourcing_orders.cfg MCSourcing.tla`.
To check one module's proofs: `tlapm Sourcing_proofs.tla`. `PROJECT.json` lists
runs, theorems, the source lines behind every definition, and for each checked
property a mutant: a plausible bug in a definition that makes TLC find the
property violated.

## 1. Inventory

Paths are relative to `src/backend/src` unless they say otherwise.

| Part | State it keeps | Operations that change it | Talks to | What is hard |
|---|---|---|---|---|
| **Cycle counts** `stores/cycleCounts.store.js`, `controllers/cycleCounts/`, `domain/cycleCounts/posting.js`, `ledger/read.js` | per tenant, in memory: headers, lines, freeze snapshot, post lock | draft, add/update/delete line, submit, approve, reject, post | reads and appends the ledger | submit awaits the ledger while other handlers run; posting fails midway; the lock is never released |
| **Session registry** `auth/sessionRegistry.do.mjs` | Durable Object storage: a record per refresh token, a token list per user | issue, rotate, revoke, revokeAll | called by the auth handlers | crashes between puts |
| **Auth handlers, cookies, browsers** `worker/auth.worker.mjs`, `auth/cookies.worker.mjs`, `src/frontend/src/lib/asoraFetch.js` | cookies in the browser | refresh (rotate or bootstrap), logout | registry | tabs that refresh at the same time, lost responses, stale cookies |
| **OIDC login** `auth/oidc.worker.mjs` | cookies during the login | login, callback | identity provider, KV | several `Set-Cookie` headers |
| **Ledger append** `worker/ledger.write.worker.mjs`, `domain/ledgerEvent.*`, and the Node server's `ledger/write.js` | one KV document per tenant, written by both | POST of an event | KV store, audit, alerts | read-modify-write without transactions, two writers, stale reads, failing puts, a damaged document |
| **Audit trail** `observability/audit.worker.mjs` | one KV document per tenant, newest 5000 records | background append | KV store | the same races, and the cap |
| **Tenant KV store** `storage/jsonStore.worker.mjs` | KV documents | whole-document get and put | | one put overtakes another; a corrupted document is read as the default |
| **Sourcing** `api/rfqs.js`, `api/quotes.js`, `api/rfqsComparisonAndSelection.js`, `api/purchaseOrdersFromSelectedQuote.js` | RFQs, quotes, orders | create, edit, issue, cancel, close, invite; quote create, edit, submit, withdraw; select; order | vendors | three collections that refer to each other; two saves for an order; new line ids on every edit |
| **Purchasing** `api/requisitions.js`, `api/purchaseOrders.js`, `api/receipts.js`, `ledger/append.js`, `storage/idempotency.js` | requisitions, orders, receipts, ledger, idempotency records | requisition life, conversion, order life, receipt draft and post | vendors, ledger | four saves for a post, retries, receipts drafted side by side, repeated line ids |
| **Vendors, compliance** `domain/vendors/`, `api/vendors.js`, `api/compliance.js` | vendors, evidence, rules, in memory | create, replace, status, evidence, rules | read by procurement | eligibility changes under the feet of others |
| **Alerts, notifications** `api/alerts.js`, `domain/alerts/`, `worker/alerts.worker.mjs` | rules, alerts, notifications | rule life, acknowledge, close, evaluation | KV store | load and put around awaits, in two servers with one set of keys |
| **Offline drafts** `api/offline.js` | drafts | capture a draft | KV store; items, hubs, bins, orders | check-then-store across awaits; damaged documents |
| **Integrations** `domain/integrations/`, `api/integrations.worker.mjs` | integrations, outbound queue | create, enqueue, dispatch | web hooks | a send and its record are two steps |
| **Plans** `domain/plans/`, `middleware/*Plan*` | plan per tenant | set plan; limits on creates | the limited collections | check-then-create |
| **Rate limiter** `worker/handleFetch.mjs` | counters per isolate | every request | | one limit per isolate |
| **KV refresh sessions** `auth/refresh.worker.mjs` | sessions document | issue, refresh, logout | KV store | non-atomic rotation; has no caller |
| **In-memory ledger (B3)** `src/backend/ledger/`, `services/inventory/ledger/` | events, idempotency index | idempotent append | | key reuse with another payload; a body that names a tenant of its own |
| **Reports** `reports/reporting.js`, `api/reports.js`, `api/exports.js` | none | none | the "ledger" collection | windows, filters and an average cost over other lines than the stock |
| **Sessions of requests, entry points** `auth/session.worker.mjs`, `auth/token.worker.mjs`, `worker/handleFetch.mjs`, `server.js` | the rate limiter's counters | every request | all handlers | whose tenant is served; what is counted |
| **Inventory pages** `src/web/lib/ledgerCache.js`, `src/web/app/inventory/` | the cache of ledger events in the tab, each page's state | load, forced load, navigation, paging | ledger and stock list by HTTP | fetches that outlive the page or the cache they were started for |

Handlers of the Node side share one event loop: they run to their end unless they
await. Handlers of the worker run in many isolates at once and meet only in KV
and in the Durable Object.

What makes each part correct, in short:

- *Cycle counts*: a frozen count does not change; its snapshot can be recomputed
  from the ledger; posting adjusts each line at most once and under the lock; a
  posted count reconciles to what was counted.
- *Sessions*: a session never forks; a dead token stays dead; logout and
  revokeAll end what they say they end.
- *Ledger*: numbered without gaps and without repeated ids in every stored
  version; an acknowledged event stays, and its id is its own, until a put is overtaken
  or the document damaged; the audit trail does not claim appends that never happened.
- *Sourcing*: a submitted quote covers its RFQ as it is now; an order says for
  ever what RFQ and quote say; one order per RFQ.
- *Keyed ledger*: a key of the session's tenant is recorded once; an answer stands while the process
  lives; an event is its session's tenant's.
- *Documents*: stored once, accepted for good, and nothing closed comes back, as far as
  no put overtakes another.
- *Vendors*: the store holds what was created, per tenant; a compliant vendor is found eligible.
- *Gateway*: nobody reads another tenant's document; a limit is kept and not taken away.
- *Reports*: windows add up; a valuation depends on what was bought, not on where one looks.
- *Pages*: one fetch for all pages, a forced load is fresh, no page waits for nothing.
- *Purchasing*: never more received than ordered; ledger, orders, receipts and
  statuses agree; a receipt is posted once and a requisition converted once.

## 2. Modules and the code

`*_proofs.tla` hold theorems about the module they are named after, `MC*.tla`
and `MC*_*.cfg` its small instances. `FoldSums` has theorems about sums over finite sets,
for the modules whose properties add something up; they say nothing of the system by themselves.

### CycleCounts, CountReconciliation

`header`, `lines`, `line` are the store's maps for one tenant (tenants never
share a record); `issued` are the line ids `randomUUID` gave out; `ledger` is the
list `ledger/read.js` folds; `submit` is what a submit handler holds across its
awaits. All handlers but submit are one action each. Submit is
`SubmitBegin` (up to the first await, with copies of header and lines),
`SubmitReadLine` (one turn of the loop of `computeFreezeSnapshot`), and one of
`SubmitRefused`, `SubmitHalfPersisted`, `SubmitSucceeds`: the store's
`persistFreezeSnapshot` checks status, cursor and number of lines, then writes
header and lines, and stops at a line that has been deleted meanwhile.
`PostMismatch`, `PostFails` and `PostSucceeds` are the three ways of the post
handler once it has claimed the lock; `PostFails` leaves the first n adjustments
in the ledger. The module `ledger/store` that the handlers require is not in the
tree; it is modelled from its use, as a list of events (`OtherLedgerWrite` is
marked external). `QtyOf` sums events that are given by their places, so that it serves for
the ledger, a prefix of it, and the events of one count (`EventsOf`).

`CountReconciliation` is the promise behind it, without lines, locks and
handlers: a count is edited, its plan of adjustments is fixed once, and carried
out in one attempt, completely or broken off. `KeepsPromise` says that
`CycleCounts` implements it, with the plan read off the frozen lines and what was written off the
ledger, by its places there: an attempt writes members of the plan, each at most once, and a
complete one writes them all.

### SessionLifecycle, SessionRegistry, AuthSessions

`SessionRegistry` has the Durable Object's storage: `rt` and `userSessions`, and
the clock. While an operation awaits storage the object's input gate holds other
events back, so an operation is one action; but its puts are awaited one by one,
so each may be the last before a crash (`IssueCut`, `RotateCut`, `RevokeAllCut`).
`SessionLifecycle` is the abstract view: tokens are born, live and die, and a
session is handed to the next token in the step in which the old one dies.

`AuthSessions` extends the registry with browsers: `jar` (the cookies
`__asora_rt` and `__asora_boot`), `req` (requests with the cookies they were sent
with, then the handler's answer), `logins`, and, as history, `disturbed`: the browsers that had two
requests under way at once or lost one. `RefreshRotates`, `RefreshRefused`,
`RefreshIssues` are cases A and B of `authRefreshFetch`, `LogoutRevokes` is
`authLogoutFetch`, `Deliver` applies the `Set-Cookie` headers. With `Lossy`,
messages get lost and the registry crashes. Tokens are drawn from a set and never
repeat (48 random bytes). `Administer` is `/revokeAll`, which has no caller in the
worker. The model starts a login where the OIDC callback has succeeded.

### LedgerWrite

`ledger` and `audit` are the sequences of versions the two KV documents have had;
with `StaleReads`, a get returns any of them. `req` is a handler: `Begin`,
`Load`/`LoadFails`, `Save` (the put takes effect), then `SaveSucceeds` or
`SaveFails`; `SaveFails` is also possible before `Save`, so a put that throws was
stored or was not. `Evicted` drops a handler. Audit records are tasks that load
and save the audit document later and may be lost. The Node server's writer of the same
document, `ledger/write.js`, runs side by side: `NodeBegin`, `NodeSave`, `NodeSucceeds`, with rows that have a
random id and no sequence, no audit record, and no answer when the store throws (`Evicted`).
`LedgerDamaged` and `AuditDamaged` are the branch of `loadTenantCollection` that
reads a document it cannot parse as the default: the next version is empty. `overtaken`
is history: a put went over rows that were not current, or the ledger was damaged.
An event is its sequence and id; the POST's number stands for its other fields.

### Sourcing

`rfqs`, `quotes`, `orders` are the three collections; `eligible` is what
`isVendorEligible` says; `lastLine` counts the RFQ line ids handed out; `cut` is
history: orders whose handler died before it linked them. Each handler is one
action. `storage/jsonStore.js` is asynchronous in the tree while these handlers
call it without await; they are modelled over the synchronous store they are
written for.

### Purchasing

`reqs`, `pos`, `receipts`, `ledger` and `idem` are the collections. A handler that
saves several records takes the number n of saves made before a crash as a
parameter (`PoFromReq` 1..2, `PostReceipt` 1..4; the greatest n is the handler
that finished). Lines are told apart by their places because clients choose line
ids and may repeat one; `Remaining` and `ReceivedLines` do with repeated ids what
the Map and the `find` in `receipts.js` do. `cut` and `saves` are history. Requests
that are replayed from an idempotency record change nothing and are not steps.
The functions of `storage/jsonStore` these handlers import (`getById`, `list`,
`upsertById`) are not exported at this commit and are modelled from their use.

### KeyedLedger

Two forms of one idea, chosen at the start (`form`): the plain handler
`src/backend/ledger/write.js` and the service behind the express route. `events` and
`idem` are the module variables of the stores; each request runs to its end, so
`Refuse`, `Replay` and `Record` are the three ways it goes. The forms differ in what they
hash: the service's list of keys for `JSON.stringify` drops nested fields (`Top`), so it replays
an event for a body that differs inside an object. A client repeats its
request until it goes on to another (`NextInput`), and answers get lost (`Tell`).
Validation admits fields it does not know, `tenantId` and `eventId` among them, and the body is
spread over the event after these were set: `EventOf` takes what the body names (`Over`). `Existing` looks under
the session's tenant, `AppendEvent` indexes under the event's, so the properties say what holds of keys up
to such a body, and `TenantFromSession` is violated by one. `session`, in an event, is history.

### LedgerPages

`cache` has the three variables of `ledgerCache.js`; `fetches` the requests that are on their
way, with the version of the server's ledger they began at; `loads` the calls of `load()`
of the page that is shown; `view` that page. A forced load clears the cache
without cancelling what is under way, so `FetchSucceeds` of an old fetch writes to the
cleared cache. `Navigate` leaves loads behind and keeps the cache, `HardRefresh` ends both.
What the pages compute from events (totals, skipped events, anomalies) are operators over a
version; each page's table is `Rows`, and `ResetPage` its effects that go back to page 1.

### Reports

The five builders of `reporting.js` as operators over the documents of the collection
and the filters of a request; `View` and `Export` answer with the size of the table,
so that every filter is a step. Values are kept as fractions.

### TenantDocuments

A handler is `idle`, waits for its put (`put`: the rows it will put, and the version it read),
or is `done`. Everything from the load to the put is one step, because the only await that lets another
request in is the put itself (the loads of one handler return together for what is checked). `lossy` remembers
of which documents a put overtook another or which were damaged: the properties say what holds
up to that. Node handlers and the worker's use the same keys and are both there.

### Vendors

`bucket` is the store of `domain/vendors/store.js`; handlers are synchronous. `IsVendorEligible` is
what the function does with the parameters the routers pass it, and `Throws` the
failure it ends in, with or without the end of the process; `answer` has the vendors that were asked about and
the ones found eligible. `Front` and `RouteAuthed` are `server.js`, with the 409 by which the routes of one
vendor answer another method.

### Gateway

`rl` is the map of the rate limiter in each isolate, `now` each isolate's window. A request is one step:
what it awaits (the token's signature) does not depend on anything that changes. `Asked` resolves its
session; it ends by the limit (`TooMany`), by an answer that needs no document (`Decide`), by a query or a body
that is not valid (`Malformed`), without its store (`StoreFails`), or with a document read or changed (`UseDocument`).
Rules can be written by POST and, in development, by a link, in both cases only in a development session (`Writes`,
`DevOnly`). `granted` is history.
The four login routes are answered by `AuthSessions`.

### Services, MCServices

The six components above share no state with each other, nor with the rest. `Services`
extends `KeyedLedger` and puts instances of the other five beside it, with variables and constants of
their own; a step is a step of one of them and leaves the others alone (`ServicesNext`). Its
properties join what the components promise. `MCServices` is the small instance: its variable `service`
picks the component that a behaviour runs, since to interleave steps that do not meet would only
multiply states; the theorems are about `ServicesSpec`, where all of them run.

| Property | Its parts, with a comment each in the component's module |
|---|---|
| `Idempotent` | `KeyedLedger`: `OncePerKey`, `AnswersStand`, `RefusedForOther` |
| `PagesTellTheTruth`, `ForcedIsFresh`, `LoadingEnds` | `LedgerPages`: `SingleFlight`, `SaysWhatItShows`, `PageInRange`, `PagesAgree`; the other two as named |
| `ReportsAddUp` | `Reports`: `WindowsAddUp`, `ActivityIsMovement`, `ValuedAlike`, `TransferKeepsWorth` (the first three where the collection is not empty, which spares the other components' states the evaluation) |
| `AcceptedStays`, `NothingComesBack` | `TenantDocuments`: `OneDraftPerId`, `AcceptedStays`; `NothingComesBack`, `DamageCostsNoDraft` |
| `VendorsStay` | `Vendors`: `CreatedStay`, `EvidenceStays`, `TenantsApart` |
| `GateHolds` | `Gateway`: `WithinLimit`, `RefusedWhenFull`, `ReadsOwnDocuments` |
| `TenantFromSession`, `CompliantIsEligible` | `KeyedLedger`, `Vendors`: what the repository says and the code does not do (section 6) |

## 3. Runs

| Run | Instance | Shows |
|---|---|---|
| `cycle_counts` | 1 count, 2 keys, 3 line ids, 2 overlapping submits, quantities 0..1, ledger of others up to 2 | no double adjustment, writes only under the lock, reproducible snapshots, frozen counts, posted counts reconcile, refinement of `CountReconciliation`; every submit is answered (liveness) |
| `cursor_zero` | the smallest | **violated**: section 6 |
| `two_tabs` | 1 browser, 2 overlapping requests, 3 tokens, lossy | no forks, revokeAll and logout, no refusal before requests overlapped or one was lost, refinement of `SessionLifecycle` |
| `boot_once` | 1 browser, 2 requests | **violated**: section 6 |
| `ledger_races` | 2 handlers of either server, 3 POSTs, stale reads, 1 damaged document | numbering in every version, silent collision check, truthful audit trail; nothing acknowledged is lost without an overtaken put |
| `ledger_append` | 2 handlers, 2 POSTs | **violated**: section 6 |
| `sourcing` | 2 RFQs, 2 quotes, 2 orders, 2 vendors, 2 units, 2 line ids, quotes of up to 2 lines | covering, agreement, one linked order |
| `purchasing` | 1 requisition of up to 2 lines and 2 units, 2 orders, 2 receipts, 2 keys, 2 line ids, ledger of up to 2 events | received within ordered, agreement of ledger, orders, receipts and statuses, one conversion |
| `receiving_partial` | 1 order, 1 receipt, 1 key | **violated**: section 6 |
| `services` | one behaviour of one component at a time: 2 clients and tenants, 5 bodies, 2 keys, 3 events and 1 restart (keyed ledger); 3 loads, 2 mounts, 2 events, pages of 1 row (pages); 2 of 5 events, 3 times, 2 places (reports); 3 requests, 1 damage (documents); 2 tenants, 2 vendors, 1 restart (vendors); 2 isolates, 7 tokens, 3 configurations, limits of 1 and 2, 3 requests, 1 further window (gateway) | what section 1 asks of these components; that no page says forever that it is loading (liveness) |
| `tenant_claim`, `eligible` | the same | **violated**: section 6 |

Why the bounds are enough for what the properties tell apart:

- *Cycle counts*: three line ids on two keys let a line be deleted and another
  added for the same key while two submits hold copies of the first; two lines
  let a post break off between two appends. On the first key other writers append
  and lines are recounted, with deltas of every sign and none; on the second they do not
  (`OnlyKeyOneVaries`), which costs no case a property tells apart, since one varying line is enough for
  a stale delta and the other for the place of the break. That several counts of one key reconcile side by
  side is left to the theorem.
- *Sessions*: the interesting case is one token seen by two requests, which needs
  two request slots and a token each may be answered with; a third token lets a
  session go on. Time to live 2 with a clock to 3 lets tokens expire before and
  after a rotation. That browsers do not disturb each other is left to the theorem (`NobodyThrownOut`).
- *Ledger*: a race takes two handlers; with three POSTs a third handler sees what
  the race left. A cap of two makes the trail drop records. One damage empties a ledger
  that has rows, or falls between a load and its put.
- *Sourcing*: two quotes compete for one RFQ and a quote can name the wrong RFQ;
  two line ids suffice for an edit that replaces a line, or for a quote that
  repeats one line and leaves out another; a second order shows a duplicate.
- *Purchasing*: two receipts of one order race for one line; two lines with one
  id or two; two orders of one requisition after a crash; two keys retry a post
  under the same and under another key. Ledger length 2 holds a post that broke
  off and its repetition.

- *Keyed ledger*: the bodies are one request, the same with another nested value, the same naming a
  tenant and an id, and two moves of another key, of which one is invalid; two clients share the
  keys; a restart between an answer and its repetition; three events leave room for a repeated one.
- *Pages*: three loads are an old fetch, a clearing with a new one, and a third page or load that meets both;
  two events make every table change its length, and pages of one row every page number matter.
- *Reports*: five kinds of events (costed in one and in two places, a transfer, found and lost goods,
  without a time); every pair of them, under all 192 filters.
- *Documents*: three requests are two that race and a third that meets the result; documents start all present or
  all absent, since no handler of the model reads two of them to decide what it puts.
- *Vendors, gateway*: a second tenant, and a second isolate, show what is shared; a limit of 1 is full after
  one request, a limit of 2 is not.

Deadlock is not checked: ids, versions and clocks are bounded, so a model stops
when they are used up; the programs do not.

Symmetry is used for tokens, request slots, vendors, units and the like: the modules
compare them only for equality. `two_tabs` checks no more than invariants, `[][A]_vars` and a refinement
without fairness under it. `cycle_counts`, which checks liveness, has no symmetry set: there line
ids and request slots are numbers and are taken in their order (`LinesInOrder`, `RequestsInOrder`), which
leaves out the same behaviours and no step that fairness asks for.

## 4. Fairness

Two runs need it. In `cycle_counts`, `Fairness` is weak fairness for the rest of a submit
that has begun (`HandlerProgress`). The ledger read of the tree resolves at once,
and Node's event loop runs every continuation that is ready; no user action is
fair. In `services`, weak fairness of `Answer` says that a request of a page is answered
or given up by the browser, which `fetch` guarantees (it resolves or rejects); presses, navigation and the growth of
the ledger are not fair. All other properties are safety properties, which fairness does not help.

## 5. Proofs

In every module the inductive invariant was checked with TLC on the runs' instances before
it was proved. The assumptions are those stated with the constants
(the module's `ASSUME`): bounds are naturals, sets of ids do not contain `Null`.

**FoldSums.** The folds of the community modules are recursive functions on the subsets of a set. What
a sum is for *every* finite set is proved by descent: the library's theorem that strict inclusion is
well-founded on finite sets gives every family of subsets a smallest member (`SmallestSubset`), and a
smallest counterexample, less the element the fold picks first, is none. So: the recursion itself
(`TotalStep`), any element may be counted first (`TotalWithout`), one more element (`TotalWith`), disjoint
sets (`TotalOfUnion`), classes of a key (`TotalByClasses`), a set paired with another (`TotalOfImage`), a
factor (`TotalOfMultiple`), greater values and parts (`TotalIsMonotonic`, `TotalOfPart`).

**CycleCounts_proofs.** `IInv` is types, `LinesSound` (a line belongs to one count
and its id was issued), `LockSound`, `WrittenUnderClaim`, `AdjustedAtMostOnce`,
`SubmitSound` and `SnapshotReproducible`. `AdjustedAtMostOnce` is not inductive
alone: a second posting is excluded by the claim, which `WrittenUnderClaim` ties
to what is in the ledger. `SnapshotReproducible` needs to know of the *waiting*
submits that what they hold are quantities as of their cursor (`SubmitSound`), that
appending does not change the sum over a prefix of the ledger, and a counting
argument: as many snapshots as lines, no unknown ids among them, so every line gets one.
Proved: `TypeCorrect`, `NoDoubleAdjustment`, `LedgerWrittenUnderClaim`,
`SnapshotsStayReproducible`, `FrozenCountsStayFrozen`.

A second invariant, `PlanIInv`, adds what reconciliation rests on: a count has one line for a key
(`DistinctKeys`: it gets its key when it is added, and only if no other line has it), every event of a count says
what its line was to be adjusted by, at that line's own key (`EventsTellPlan`), a frozen line has a plan (`PlanComplete`), and a posted
count has all its adjustments in the ledger (`PlanCarriedOut`). For a line of a posted count the
ledger then has one event of that count and key, or none where nothing was to be adjusted, so the sum
`PostedReconciles` asks for has one term (`PostedCountsReconcile`). `CountsKeepPromise` is the refinement:
under `PlanIInv` every step is one of `CountReconciliation` or leaves stage, plan and what was written as
they are; submit freezes the plan, a post that fails midway breaks off, and one that ends completes.

**SessionRegistry_proofs.** `NeverForks` with types is inductive: the new token has
no record before the step in which the old one is revoked, and a revoked token is
not rotated. With it every step maps to a step of `SessionLifecycle` or to a
stutter (`RegistryKeepsLifecycle`); `Tick` may end several tokens at once.

**AuthSessions_proofs.** Every step of the composed system is a step of the registry
or leaves it alone (`RegistryInside`), so both results hold inside
(`SessionsNeverForkInside`, `LifecycleInside`). `RevokeAllReachesEverySession` rests
on `HeldIndexed`: a token is given away only by a call that also put it in the
user's list. `LogoutEndsTheToken` rests on `RequestSound`: what was revoked before
the answer left stays dead. `NobodyThrownOut` is about the
browsers outside `disturbed`, the history of who had two requests under way at once or lost one. It adds
`OrderInv`: no two browsers have one token, in the jar or under way (`NothingShared`, since every answer brings
a token that is new); and a browser that is not disturbed has one request at a time, with the last token of its
session, and holds the last, unless the answer that replaces it is on its way (`Orderly`). A rotation hands over only the
token it was sent, even if the registry crashes in it (`CutHandsOver`), so nobody else's stops being the last.

**LedgerWrite_proofs.** `IInv` says that every version and every loaded document is
numbered: the sequence is computed from the very rows that are put back, Node's rows have none, and an
empty document is numbered. So
`AlwaysNumbered` and `CollisionsNeverSeen` hold whatever races and whatever is damaged. `OvertakingAloneLoses`
needs `StoredHeld`: while no put has been overtaken, the current rows hold what was acknowledged and what was put
and waits for its answer; a new event stands at the end of the rows that were current, and its id is that of no
other row (`NewVersion`, `IdTellsRow`). `AuditStaysTruthful` needs `AuditInv`: a handler under way has a POST of
its own of which nothing is recorded yet, a record that waits is the only one of its POST, and what a task loaded is
a version of the trail, so the trail it puts back has its record once; a stored
handler's POST is in a version of the ledger, and versions do not go away (`DamageKeeps` for the empty ones).

**Sourcing_proofs.** `IInv` is types, `References`, and the three properties. The argument
is one action predicate, `Forward`, that every step satisfies: RFQs leave `DRAFT` and do not
return, from then on keep their lines, a selection stays, a submitted quote keeps its lines.
What a submitted quote covers and what an order says therefore stays true.

**Purchasing_proofs.** `WithinOrdered` holds of orders with distinct line ids but is not
inductive by itself when ids repeat; `SameIdsAlike` is: lines with one id are received
alike, and no further than *one* of them was ordered. `References` says which records
are there and do not go back, and that an event whose second save was made is in the
idempotency records, which is why a key appends twice only after a crash before it.
`LedgerAgrees` is `LedgerTellsReceived`, which needs one more part (`LedgerIInv`): `QtysAlike`, that a receipt has
one quantity for all lines of one id, so that it does not matter which of them the post's `find` returns. A post that saves the order
adds one event, which is new among those that count for the order (`TotalWith`); every other step leaves
them as they were.

**Services_proofs.** Each component has an invariant of its own; a step of one is an idle step of
the others (`ServicesSteps`), so `ServicesIInv`, all of them together, is inductive.

- *Keyed ledger* (`KeyedIInv`): types, the three properties, `TenantSettled` (an event's tenant is the one
  its body names, else its session's) and `PastLives` (no answer is of a life of the process
  still to come, so that a restart cannot make an old answer current). The step that matters is `Record`: the
  key is new in the index under the session's tenant, hence by `OncePerKey` in its events; an event that goes to another
  tenant, where the key may be known, goes there because its body names it. The index then holds the last.
- *Pages* (`PagesIInv`): `SingleFlight` is not inductive alone; `FetchIsKept` adds that a fetch counted since the
  last clearing is under way or has left its result or its error in the cache, which is why another
  does not start. `SaysWhatItShows` goes through every way a load ends, the last one of several that
  one fetch serves being picked by `Latest`, which is why that lemma needs well-founded descent. `ForcedIsFresh` rests on
  `Truthful`: a load that was forced waits for a fetch that began no earlier than its button was pressed,
  since the clearing comes between, and shows the version that fetch began at; `PageInRange` on `Viewable`, that what is
  shown is a version there was, with every effect that resets the page. `PagesAgree` follows from the types: the pages
  divide the same events into those they count and those they skip, and sum the same ones.
- *Reports*: everything in `ReportsAddUp` follows from the types of ledger and events, by `FoldSums`: two adjacent
  windows are two disjoint sets of lines and a boundary; the times of the ledger divide its lines;
  rows of receiving and shrink are part of the movements of their row; an average lies between the sums with the least
  and with the greatest cost in place of each; a transfer adds lines of an item that cancel out (`LinesGrow`).
- *Documents* (`DocumentsIInv`): a handler that waits for its put holds rows that go on from the version it read
  (`DocumentsSound`), so a put over that same version goes on from what is there, and one over another marks the document
  in `lossy`. `DocumentsForward` is the step of `NothingComesBack`.
- *Vendors* (`VendorsIInv`): types, `CreatedStay` and `EvidenceStays`, which are inductive; `VendorsApart` is the step of `TenantsApart`.
- *Gateway* (`GatewayIInv`): what an isolate let pass in its window is its counter of the key, up to
  the limit (`GatewayCounts`), and nothing where it has no counter of this window, which gives `WithinLimit`.

## 6. Disagreements

Each is a run that TLC finds violated, with the quoted lines under "findings" in
`PROJECT.json`.

- **A tenant with an empty ledger cannot submit a cycle count** (`cursor_zero`).
  `ledger/read.js:52` calls an integer count sufficient as a cursor;
  `stores/cycleCounts.store.js:434` takes the cursor 0 for a missing one.
- **A bootstrap cookie is not one-time** (`boot_once`). `worker/auth.worker.mjs:154`
  and `auth/oidc.worker.mjs:310` call it so; nothing remembers its use.
- **The worker's ledger is not append-only under concurrency** (`ledger_append`).
  `worker/ledger.write.worker.mjs:195` says so; of two overlapping POSTs the
  second put drops the first event, and both clients got a 201.
- **Failed receiving leaves partial state** (`receiving_partial`). `docs/runbook/operations.md:127` says it
  creates none; a crash after the first save of a post (`api/receipts.js:313`) leaves an event in the
  ledger of a receipt that is not posted.
- **A body chooses the tenant of its event** (`tenant_claim`).
  `contracts/inventory/ledger/ledgerEvent.invariants.md:7` calls the tenant scope session-derived only; the body is spread
  over it (`backend/ledger/write.js:102`, `ledgerWrite.service.js:66`) after a validation that lets a `tenantId` through. The key is
  looked up under the session's tenant, so each repetition adds one more event.
- **No vendor is found eligible** (`eligible`). `api/vendors.js:45` calls `isVendorEligible` the central
  enforcement hook; it is called with a vendor, rules and a time where it takes a tenant and a vendor id
  (`domain/vendors/eligibility.js:36`). With rules in place the question even ends the process (`TenantsApart`).

Met while modelling, and stated with the properties that hold up to them: after a crash between two
saves, an RFQ or a requisition can be ordered twice and an append repeated
(`OneLinkedOrder`, `OrderedOnceAsRequested` and `PostedOnce` name the exception); repeated line ids
can be received beyond what one line ordered (`WithinOrdered` is for distinct ids); two POSTs that race
are told one sequence and event id, which `ledger.write.worker.mjs:110` calls unique across POSTs (`OnlyOvertakingLoses`);
of two drafts captured side by side the later put drops the earlier, which was answered 201, though
`storage/README.offline_drafts.md:7` calls the collection append-only (`AcceptedStays` excepts documents of which a put overtook
another); two counts of one key that are frozen at one cursor correct the stock twice (`PostedReconciles` takes
each alone); a count whose line was recounted during submit can never
be posted; a refused refresh expires a cookie that another tab has just received; logout does not
end the successor of a token that was rotated meanwhile.

## 7. Limits

Only model-checked: the liveness properties `SubmitAnswered` and `LoadingEnds`, since liveness under fairness is outside
what the prover reaches. Every safety property of the passing runs is proved for every value of the constants. The
counterexamples of section 6 are runs.

Abstractions that hold throughout: one tenant (every store keys its records by
tenant); requests are valid and their callers permitted, since a refusal that
writes nothing is not a step; names, notes and timestamps are left out; item and
unit quantities are small numbers.

Not modelled, and why: cryptography, tokens and identity provider (stateless or
external); routing, headers and rendering; the parts listed as `not_modelled` in
`PROJECT.json`, most of which are in the plan. A restart of the Node process loses
the cycle count store, which is in memory by design; the model has no step
for it because nothing survives to be inconsistent.

Wiring at this commit: the cycle count, procurement, offline and alerts routers are not mounted in
`server.js`, the worker's `handleFetch.mjs` imports the ledger handler without a
route (`/api/ledger` is a 404), `wrangler.jsonc` binds no session registry, and the keyed ledger has no
caller. `server.js` itself requires modules that are not in the tree, and nothing in the tree
writes the collection "ledger" the reports read. The models are of the handlers as they are
written, called as they expect to be called.

What the models, and reading for them, show beyond the properties:

- an old slow fetch may overwrite a newer result in the pages' cache (`ForcedIsFresh` is about what was there when the
  button was pressed); a cached error stays until a forced load; a refused stock list is shown as an empty one; the
  anomalies page counts an event without either field twice;
- a tenant's first draft is refused with `AMBIGUOUS_STATE`, because the document that is
  missing is no array; of two drafts, rules or changes of alerts that race, one may be lost although both were accepted;
- twins of an alert rule have one id in the worker; a deletion or a change reaches the first only;
- access tokens of version 2, which login hands out, open no session in the worker (`ReadsOwnDocuments`);
- read, not modelled: the comparison pads lead times as text (`rfqsComparisonAndSelection.js:54`), and `quotes.js:72`
  admits fractions of a day, so 100 days sort before 10.5 days among equal totals, against the comment at
  `rfqsComparisonAndSelection.js:44` ("lowest maxLeadTimeDays"); whole days below 10^10 sort as stated.

Not modelled, since they cannot run as written: `domain/alerts/evaluate.mjs`, `domain/integrations/` and
`enforcePlanForRequest.worker.mjs` call the worker's store without the environment it takes first,
so each of their operations fails with `KV_NOT_BOUND` before it reads or changes anything; alerts
therefore enter `TenantDocuments` from outside. Not modelled, since they keep no state that an order of steps could harm:
CSV quoting, saved views, the write forms and pages of `src/frontend`, and `ItemsClient.jsx`, which nothing imports.

## 8. Plan

Done, in this order: `CycleCounts` with `CountReconciliation`; `SessionRegistry`,
`SessionLifecycle`, `AuthSessions`; `LedgerWrite`; `Sourcing`; `Purchasing`; `TenantDocuments`, `Vendors`,
`Gateway`, `KeyedLedger`, `Reports`, `LedgerPages`, `Services` and their run; theorems for every safety property of the passing runs.

Next, most important first:

1. `Vendors` composed with `Sourcing` and `Purchasing` in place of their set of eligible
   vendors, once the eligibility check reads the store that vendors are kept in: procurement calls it with its
   parameters, and it looks into the collections "vendors" and "vendor_compliance", which nothing in the tree writes.
2. `PlanLimits`, `OutboundQueue` and alert evaluation, once their storage calls work.
3. `RefreshSessions`: the KV sessions of `auth/refresh.worker.mjs`, whose rotation should implement `SessionLifecycle` and does not.
4. `QuoteRanking`: the comparison of quotes as an operator, against a reference definition.
5. `ProcurementLedger`: `Purchasing` composed with `CycleCounts` over one ledger,
   in place of `OtherLedgerWrite`.
6. Proofs to add: that requisitions, orders and receipts implement an abstract promise of procurement, as
   `CountsKeepPromise` shows of counts; that `KeyedLedger` implements a map from keys to events.
