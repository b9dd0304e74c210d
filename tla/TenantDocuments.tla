--------------------------- MODULE TenantDocuments ---------------------------
(***************************************************************************)
(* A tenant's documents in the KV store, as offline drafts (api/offline.js) *)
(* and alerts (api/alerts.js, worker/alerts.worker.mjs) use them: a handler *)
(* reads a whole document, and after an await puts it back with one row     *)
(* added or changed.  Node and worker handlers use the same keys, so one    *)
(* request may overtake another between the two.                            *)
(*                                                                          *)
(* The alerts in the store were put there from outside: evaluation fails    *)
(* before it reads anything.                                                *)
(***************************************************************************)
EXTENDS Integers, Sequences, SequencesExt

CONSTANTS
  Request,         \* requests, each with one handler
  ClientDraft,     \* trimmed client draft ids
  Content,         \* a rule's type, scope, target and parameters
  Alert,
  MaxCorruptions,
  Null

Coll == {"offline_drafts", "alert_rules", "alerts"}

DraftId == {"CYCLE_COUNT", "RECEIPT"} \X ClientDraft
NodeId  == {"uuid"} \X Request   \* crypto.randomUUID

\* stableRuleId: the worker's id is a hash of the content.
StableRuleId(content) == <<"ar", content>>

RuleId == NodeId \cup {StableRuleId(x) : x \in Content}

State == {"DRAFT", "LIVE", "DELETED", "OPEN", "ACKNOWLEDGED", "CLOSED"}

Row == [id : DraftId \cup RuleId \cup Alert, state : State,
        content : Content \cup {Null}]

TenantDocumentsAssumption ==
  /\ MaxCorruptions \in Nat
  /\ Null \notin Request \cup Content \cup Alert

VARIABLES
  docs,         \* the stored documents; "array" when JSON.parse gives one
  version,      \* how often each document was put
  lossy,        \* documents of which something may be lost, by races or damage
  corruptions,
  req           \* the requests

vars == <<docs, version, lossy, corruptions, req>>

Doc == [array : BOOLEAN, rows : Seq(Row)]

Status == {0, 200, 201, 400, 403, 404, 409, 500}

\* A request that was not yet received, waits for its put, or was answered:
\* "rows" is what it puts, "base" the version it read, "did" the row it changed,
\* "then" the status of its answer after the put.
Handler == [pc : {"idle", "put", "done"}, coll : Coll \cup {Null}, base : Nat,
            rows : Seq(Row), did : Row \cup {Null}, then : Status,
            told : Status]

TypeOK ==
  /\ docs \in [Coll -> Doc]
  /\ version \in [Coll -> Nat]
  /\ lossy \subseteq Coll
  /\ corruptions \in 0..MaxCorruptions
  /\ req \in [Request -> Handler]

NoDoc == [array |-> FALSE, rows |-> << >>]

Idle == [pc |-> "idle", coll |-> Null, base |-> 0, rows |-> << >>,
         did |-> Null, then |-> 0, told |-> 0]

Init ==
  /\ docs \in {[offline_drafts |-> d, alert_rules |-> NoDoc, alerts |-> a] :
                 d \in {NoDoc, [array |-> TRUE, rows |-> << >>]},
                 a \in {NoDoc} \cup
                       {[array |-> TRUE,
                         rows |-> <<[id |-> x, state |-> "OPEN", content |-> Null]>>] :
                          x \in Alert}}
  /\ version = [c \in Coll |-> 0]
  /\ lossy = {} /\ corruptions = 0
  /\ req = [r \in Request |-> Idle]

-----------------------------------------------------------------------------
\* loadTenantCollection with the default []: what cannot be read is empty.
Load(c) == IF docs[c].array THEN docs[c].rows ELSE << >>

\* The position of the first row with an id, and whether there is one.
Has(rows, id) == \E k \in DOMAIN rows : rows[k].id = id
Find(rows, id) == SelectInSeq(rows, LAMBDA x : x.id = id)

Push(rows, row) == Append(rows, row)

Store == <<docs, version, lossy>>

Answer(r, status) ==
  /\ req[r].pc = "idle"
  /\ req' = [req EXCEPT ![r].pc = "done", ![r].told = status]
  /\ UNCHANGED <<Store, corruptions>>

\* The handler waits for saveTenantCollection, with the rows it is to put.
Puts(r, c, rows, row, status) ==
  /\ req[r].pc = "idle"
  /\ req' = [req EXCEPT ![r] = [pc |-> "put", coll |-> c, base |-> version[c],
                                rows |-> rows, did |-> row,
                                then |-> status, told |-> 0]]
  /\ UNCHANGED <<Store, corruptions>>

-----------------------------------------------------------------------------
(* Offline drafts.                                                         *)

\* Mutant: every draft is taken for a new one.
NeverThere(rows, id) == FALSE

DraftExists(rows, id) == Has(rows, id)

\* What a draft may refer to: hubs, bins, items and orders that are there, that
\* are not, or that stand in documents which are no arrays.
Refs == {"known", "unknown", "ambiguous"}

\* validateRefsOrFailClosed, then collectionOrFailClosed for the drafts: the
\* status of a refusal, or 201.
RefStatus(refs) ==
  IF refs = "unknown" THEN 404
  ELSE IF refs = "ambiguous" \/ ~docs["offline_drafts"].array THEN 409
  ELSE 201

\* upsertDraftAsDRAFT, up to its put; "ok" says that the body is well-formed.
UpsertDraft(r, id, ok) ==
  LET rows == Load("offline_drafts")
      row == [id |-> id, state |-> "DRAFT", content |-> Null]
  IN  \/ ~ok /\ Answer(r, 400)
      \/ \E refs \in Refs :
           /\ ok
           /\ \/ RefStatus(refs) # 201 /\ Answer(r, RefStatus(refs))
              \/ RefStatus(refs) = 201 /\ DraftExists(rows, id) /\ Answer(r, 409)
              \/ RefStatus(refs) = 201 /\ ~DraftExists(rows, id)
                 /\ Puts(r, "offline_drafts", Push(rows, row), row, 201)

PostCycleCountDraft(r, ok) ==
  \E d \in ClientDraft : UpsertDraft(r, <<"CYCLE_COUNT", d>>, ok)

PostReceiptDraft(r, ok) ==
  \E d \in ClientDraft : UpsertDraft(r, <<"RECEIPT", d>>, ok)

GetManifest(r) == Answer(r, 200)

-----------------------------------------------------------------------------
(* Alert rules.                                                            *)

\* The rule is pushed without a look at the ids that are there.
CreateRule(r, id, x, ok) ==
  LET row == [id |-> id, state |-> "LIVE", content |-> x]
  IN  \/ ~ok /\ Answer(r, 400)
      \/ ok /\ Puts(r, "alert_rules", Push(Load("alert_rules"), row), row, 201)

NodeCreateRule(r, x, ok) == CreateRule(r, <<"uuid", r>>, x, ok)

\* POST /api/alerts/rules of the worker, and its development form: both refuse
\* sessions that are not of the development level.
WorkerPostRule(r, x, ok, dev) ==
  \/ ~dev /\ Answer(r, 403)
  \/ dev /\ CreateRule(r, StableRuleId(x), x, ok)

DevLowStockRule(r, x, ok, dev) ==
  \/ ~dev /\ Answer(r, 403)
  \/ dev /\ CreateRule(r, StableRuleId(x), x, ok)

\* The status that refuses a change of the rule, or 200.
RuleStatus(rows, id) ==
  IF ~Has(rows, id) THEN 404
  ELSE IF rows[Find(rows, id)].state = "DELETED" THEN 409 ELSE 200

UpdateRule(r, id, x, ok) ==
  LET rows == Load("alert_rules")
      row == [id |-> id, state |-> "LIVE", content |-> x]
  IN  \/ ~ok /\ Answer(r, 400)
      \/ ok /\ RuleStatus(rows, id) # 200 /\ Answer(r, RuleStatus(rows, id))
      \/ ok /\ RuleStatus(rows, id) = 200
            /\ Puts(r, "alert_rules", [rows EXCEPT ![Find(rows, id)] = row], row, 200)

SoftDeleteRule(r, id) ==
  LET rows == Load("alert_rules")
      row == [rows[Find(rows, id)] EXCEPT !.state = "DELETED"]
  IN  \/ RuleStatus(rows, id) # 200 /\ Answer(r, RuleStatus(rows, id))
      \/ RuleStatus(rows, id) = 200
         /\ Puts(r, "alert_rules", [rows EXCEPT ![Find(rows, id)] = row], row, 200)

ListRules(r) == Answer(r, 200)

-----------------------------------------------------------------------------
(* Alerts.                                                                 *)

\* Mutant: a closed alert may be acknowledged.
AcksClosed(rows, id) ==
  IF ~Has(rows, id) THEN 404
  ELSE IF rows[Find(rows, id)].state = "ACKNOWLEDGED" THEN 409 ELSE 200

AckStatus(rows, id) ==
  IF ~Has(rows, id) THEN 404
  ELSE IF rows[Find(rows, id)].state \in {"CLOSED", "ACKNOWLEDGED"} THEN 409 ELSE 200

CloseStatus(rows, id) ==
  IF ~Has(rows, id) THEN 404
  ELSE IF rows[Find(rows, id)].state = "CLOSED" THEN 409 ELSE 200

Turn(r, id, state) ==
  LET rows == Load("alerts")
      row == [rows[Find(rows, id)] EXCEPT !.state = state]
  IN  Puts(r, "alerts", [rows EXCEPT ![Find(rows, id)] = row], row, 200)

Acknowledge(r, id) ==
  LET s == AckStatus(Load("alerts"), id)
  IN  \/ s # 200 /\ Answer(r, s)
      \/ s = 200 /\ Turn(r, id, "ACKNOWLEDGED")

Close(r, id) ==
  LET s == CloseStatus(Load("alerts"), id)
  IN  \/ s # 200 /\ Answer(r, s)
      \/ s = 200 /\ Turn(r, id, "CLOSED")

GetAlert(r, id) == Answer(r, IF Has(Load("alerts"), id) THEN 200 ELSE 404)

\* A filter or a limit of another form is refused.
ListAlerts(r, ok) == Answer(r, IF ok THEN 200 ELSE 400)

\* GET /api/notifications
ListNotifications(r) == Answer(r, 200)

\* GET /api/alerts/dev/evaluate; it answers before evaluation has failed.
DevEvaluate(r, dev) == Answer(r, IF dev THEN 200 ELSE 403)

-----------------------------------------------------------------------------
\* safeSave, saveTenantCollection: the whole document is put.
Save(r) ==
  LET q == req[r]
  IN  /\ q.pc = "put"
      /\ docs' = [docs EXCEPT ![q.coll] = [array |-> TRUE, rows |-> q.rows]]
      /\ version' = [version EXCEPT ![q.coll] = @ + 1]
      /\ lossy' = IF q.base = version[q.coll] THEN lossy ELSE lossy \cup {q.coll}
      /\ req' = [req EXCEPT ![r].pc = "done", ![r].told = q.then]
      /\ UNCHANGED corruptions

\* The put is refused: nothing was stored.
SaveFails(r) ==
  /\ req[r].pc = "put"
  /\ req' = [req EXCEPT ![r].pc = "done", ![r].told = 500]
  /\ UNCHANGED <<Store, corruptions>>

\* safeLoad: the store refuses a read.
LoadFails(r) == Answer(r, 500)

\* A stored document is damaged, and cannot be parsed any more.
Corrupt(c) ==
  /\ corruptions < MaxCorruptions /\ docs[c].array
  /\ corruptions' = corruptions + 1
  /\ docs' = [docs EXCEPT ![c].array = FALSE]
  /\ lossy' = lossy \cup {c}
  /\ UNCHANGED <<version, req>>

Node(r) ==
  \/ \E ok \in BOOLEAN : PostCycleCountDraft(r, ok) \/ PostReceiptDraft(r, ok)
  \/ \E ok \in BOOLEAN, x \in Content :
       NodeCreateRule(r, x, ok) \/ \E id \in RuleId : UpdateRule(r, id, x, ok)
  \/ \E id \in RuleId : SoftDeleteRule(r, id)
  \/ \E id \in Alert : Acknowledge(r, id) \/ Close(r, id) \/ GetAlert(r, id)
  \/ GetManifest(r)

Worker(r) ==
  \/ \E ok, dev \in BOOLEAN, x \in Content :
       WorkerPostRule(r, x, ok, dev) \/ DevLowStockRule(r, x, ok, dev)
  \/ \E dev \in BOOLEAN : DevEvaluate(r, dev)
  \/ ListNotifications(r)

Both(r) == ListRules(r) \/ \E ok \in BOOLEAN : ListAlerts(r, ok)

Next ==
  \/ \E r \in Request :
       Node(r) \/ Worker(r) \/ Both(r) \/ Save(r) \/ SaveFails(r) \/ LoadFails(r)
  \/ \E c \in Coll : Corrupt(c)

Spec == Init /\ [][Next]_vars

-----------------------------------------------------------------------------
\* However deliveries of a draft race, the stored document has it once: the
\* puts of two that both found it new leave one of them (offline.js:186-223).
OneDraftPerId ==
  \A j, k \in DOMAIN docs["offline_drafts"].rows :
    docs["offline_drafts"].rows[j].id = docs["offline_drafts"].rows[k].id => j = k

Rank(s) == CASE s \in {"DRAFT", "LIVE", "OPEN"} -> 0
             [] s = "ACKNOWLEDGED" -> 1
             [] s \in {"CLOSED", "DELETED"} -> 2

\* What a client was told is done is in the document, or has gone on from
\* there, unless a put overtook another or the document was damaged.
AcceptedStays ==
  \A r \in Request :
    (req[r].told \in {200, 201} /\ req[r].did # Null /\ req[r].coll \notin lossy) =>
      \E k \in DOMAIN docs[req[r].coll].rows :
        LET row == docs[req[r].coll].rows[k]
        IN  row.id = req[r].did.id /\ Rank(row.state) >= Rank(req[r].did.state)

\* Until then no row is dropped, no deleted rule and no closed alert comes
\* back, and an acknowledged alert is not open again (ALERT_CLOSED_IMMUTABLE).
NothingComesBack ==
  [][\A c \in Coll \ lossy' :
       \A k \in DOMAIN docs[c].rows :
         /\ k \in DOMAIN docs'[c].rows
         /\ docs'[c].rows[k].id = docs[c].rows[k].id
         /\ Rank(docs'[c].rows[k].state) >= Rank(docs[c].rows[k].state)]_vars

\* A drafts document that cannot be read is refused, not taken for an empty
\* one: with no put overtaking another, damage costs no draft, as a client that
\* sends another would replace them all (offline.js collectionOrFailClosed).
DamageCostsNoDraft ==
  [][\A r \in Request :
       LET q == req[r]
       IN  (/\ q.pc = "put" /\ req'[r].told = 201
            /\ q.coll = "offline_drafts" /\ q.base = version[q.coll])
             => ToSet(docs[q.coll].rows) \subseteq ToSet(docs'[q.coll].rows)]_vars
=============================================================================
