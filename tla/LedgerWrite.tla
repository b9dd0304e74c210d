----------------------------- MODULE LedgerWrite -----------------------------
(***************************************************************************)
(* POST /api/ledger/events in the worker (worker/ledger.write.worker.mjs)  *)
(* and in the older Node server (ledger/write.js), with the tenant store   *)
(* and the audit writer they use.                                          *)
(*                                                                         *)
(* A tenant's ledger and its audit trail are two documents in Cloudflare   *)
(* KV, the same ones for both servers.  A handler reads the whole          *)
(* document, appends a row and puts the whole document back; KV has no     *)
(* transactions, a read may return any earlier version, and a document     *)
(* that cannot be parsed is read as an empty one.  Each await is a place   *)
(* where other handlers go on.  The worker's audit records are written     *)
(* after the answer, by tasks of the same kind; Node's go to the console.  *)
(***************************************************************************)
EXTENDS Integers, Sequences, FiniteSets

CONSTANTS
  Request,     \* handlers that may be under way at the same time
  MaxPosts,    \* bound on the number of POSTs
  MaxRetained, \* AUDIT_MAX_EVENTS
  StaleReads,  \* whether KV returns versions other than the last
  MaxDamages,  \* bound on the number of documents that become unreadable
  Null

Reason == {"APPENDED", "STORAGE_ERROR", "EVENT_ID_COLLISION"}

AuditRecord == [post : 1..MaxPosts, reason : Reason]

ASSUME LedgerWriteAssumption ==
  /\ MaxPosts \in Nat
  /\ MaxDamages \in Nat
  /\ MaxRetained \in Nat \ {0}
  /\ StaleReads \in BOOLEAN
  /\ Null \notin Int
  /\ Null \notin Seq(AuditRecord)

VARIABLES
  posts,     \* POSTs received so far; they are numbered
  ledger,    \* the versions of "ledger_events" as a get reads them, the last
             \* one is current
  audit,     \* the versions of "audit_events"
  req,       \* Request -> the progress of a handler
  tasks,     \* audit records that wait to be persisted (cfctx.waitUntil)
  acked,     \* the events clients got back with status 201
  damages,   \* documents that became unreadable so far
  overtaken  \* history: a put went over rows that were not current, or the
             \* ledger became unreadable

vars == <<posts, ledger, audit, req, tasks, acked, damages, overtaken>>

\* Mutant: the id is the bare number.
BareNumber(n) == <<"", n>>

\* computeCanonicalLedgerEventIdFromSequence: "le_" and the number in hex.
EventId(n) == <<"le", n>>

\* randomUUID: what it gives to a POST is given to no other.
RandomUUID(post) == <<"uuid", post>>

\* A stored event; which POST it came from stands for its other fields.  A
\* row of the Node server has a random id and no sequence.
Row == [post : 0..MaxPosts,
        sequence : Nat \cup {Null},
        event_id : {"le"} \X Nat \cup {"uuid"} \X Nat]

Task == [record : AuditRecord, rows : Seq(AuditRecord) \cup {Null}]

Phase == {"idle", "loading", "loaded", "stored"}

Server == {"worker", "node"}

Req == [phase : Phase, server : Server, post : 0..MaxPosts, rows : Seq(Row)]

TypeOK ==
  /\ posts \in 0..MaxPosts
  /\ ledger \in Seq(Seq(Row)) /\ ledger # << >>
  /\ audit \in Seq(Seq(AuditRecord)) /\ audit # << >>
  /\ req \in [Request -> Req]
  /\ tasks \in SUBSET Task
  /\ acked \in SUBSET Row
  /\ damages \in 0..MaxDamages
  /\ overtaken \in BOOLEAN

Idle == [phase |-> "idle", server |-> "worker", post |-> 0, rows |-> << >>]

Init ==
  /\ posts = 0
  /\ ledger = << << >> >>
  /\ audit = << << >> >>
  /\ req = [r \in Request |-> Idle]
  /\ tasks = {}
  /\ acked = {}
  /\ damages = 0
  /\ overtaken = FALSE

\* What a get of a document may return.
Readable(versions) ==
  {versions[i] : i \in IF StaleReads THEN DOMAIN versions
                       ELSE {Len(versions)}}

\* emitAudit does not wait for the record to be persisted.
EmitAudit(post, reason) ==
  tasks' = tasks \cup {[record |-> [post |-> post, reason |-> reason],
                        rows |-> Null]}

SequencesIn(rows) == {rows[i].sequence : i \in DOMAIN rows} \ {Null}

\* Mutant: the last row is overlooked.
OverlooksLast(rows) ==
  LET S == SequencesIn(SubSeq(rows, 1, Len(rows) - 1)) \cup {0}
  IN  1 + (CHOOSE m \in S : \A s \in S : s <= m)

\* Mutant: rows are counted, Node's too.
CountsRows(rows) == Len(rows) + 1

ComputeNextLedgerSequence(rows) ==
  LET S == SequencesIn(rows) \cup {0}
  IN  1 + (CHOOSE m \in S : \A s \in S : s <= m)

HasEventIdCollision(rows, id) == \E i \in DOMAIN rows : rows[i].event_id = id

\* The event a handler makes of its POST and of the rows it loaded.
WorkerEvent(r) ==
  LET n == ComputeNextLedgerSequence(req[r].rows)
  IN  [post |-> req[r].post, sequence |-> n, event_id |-> EventId(n)]

NodeEvent(r) ==
  [post |-> req[r].post, sequence |-> Null,
   event_id |-> RandomUUID(req[r].post)]

NewEvent(r) ==
  IF req[r].server = "worker" THEN WorkerEvent(r) ELSE NodeEvent(r)

\* The caller may write and the input is valid; other POSTs are refused and
\* change nothing here.
Receive(r, server) ==
  /\ req[r].phase = "idle"
  /\ posts < MaxPosts
  /\ posts' = posts + 1
  /\ req' = [req EXCEPT ![r] = [Idle EXCEPT !.phase = "loading",
                                            !.server = server,
                                            !.post = posts + 1]]
  /\ UNCHANGED <<ledger, audit, tasks, acked, damages, overtaken>>

Begin(r) == Receive(r, "worker")

NodeBegin(r) == Receive(r, "node")

Load(r) ==
  /\ req[r].phase = "loading"
  /\ \E rows \in Readable(ledger) :
       req' = [req EXCEPT ![r].phase = "loaded", ![r].rows = rows]
  /\ UNCHANGED <<posts, ledger, audit, tasks, acked, damages, overtaken>>

\* Answered with STORAGE_ERROR, like a save that fails.
LoadFails(r) ==
  /\ req[r].phase = "loading"
  /\ req[r].server = "worker"
  /\ req' = [req EXCEPT ![r] = Idle]
  /\ EmitAudit(req[r].post, "STORAGE_ERROR")
  /\ UNCHANGED <<posts, ledger, audit, acked, damages, overtaken>>

\* The rows a handler loaded take the place of the current ones, its event at
\* their end.
Put(r) ==
  /\ ledger' = Append(ledger, Append(req[r].rows, NewEvent(r)))
  /\ overtaken' = (overtaken \/ req[r].rows # ledger[Len(ledger)])
  /\ req' = [req EXCEPT ![r].phase = "stored"]

\* Mutant: the append is audited as soon as the put is under way.
AuditsEarly(r) ==
  /\ req[r].phase = "loaded"
  /\ req[r].server = "worker"
  /\ \/ Put(r)
     \/ /\ req' = [req EXCEPT ![r].phase = "stored"]
        /\ UNCHANGED <<ledger, overtaken>>
  /\ EmitAudit(req[r].post, "APPENDED")
  /\ UNCHANGED <<posts, audit, acked, damages>>

\* The put takes effect.  (That the branch of the collision is never taken
\* is NeverCollides.)
Save(r) ==
  /\ req[r].phase = "loaded"
  /\ req[r].server = "worker"
  /\ IF HasEventIdCollision(req[r].rows, NewEvent(r).event_id)
     THEN /\ req' = [req EXCEPT ![r] = Idle]
          /\ EmitAudit(req[r].post, "EVENT_ID_COLLISION")
          /\ UNCHANGED <<ledger, overtaken>>
     ELSE Put(r) /\ UNCHANGED tasks
  /\ UNCHANGED <<posts, audit, acked, damages>>

NodeSave(r) ==
  /\ req[r].phase = "loaded"
  /\ req[r].server = "node"
  /\ Put(r)
  /\ UNCHANGED <<posts, audit, tasks, acked, damages>>

\* A put that throws may have taken effect or not.
SaveFails(r) ==
  /\ req[r].phase \in {"loaded", "stored"}
  /\ req[r].server = "worker"
  /\ req' = [req EXCEPT ![r] = Idle]
  /\ EmitAudit(req[r].post, "STORAGE_ERROR")
  /\ UNCHANGED <<posts, ledger, audit, acked, damages, overtaken>>

\* Mutant: the answer does not wait for the put.
AnswersEarly(r) ==
  /\ req[r].phase \in {"loaded", "stored"}
  /\ req[r].server = "worker"
  /\ req' = [req EXCEPT ![r] = Idle]
  /\ acked' = acked \cup {NewEvent(r)}
  /\ EmitAudit(req[r].post, "APPENDED")
  /\ UNCHANGED <<posts, ledger, audit, damages, overtaken>>

SaveSucceeds(r) ==
  /\ req[r].phase = "stored"
  /\ req[r].server = "worker"
  /\ req' = [req EXCEPT ![r] = Idle]
  /\ acked' = acked \cup {NewEvent(r)}
  /\ EmitAudit(req[r].post, "APPENDED")
  /\ UNCHANGED <<posts, ledger, audit, damages, overtaken>>

NodeSucceeds(r) ==
  /\ req[r].phase = "stored"
  /\ req[r].server = "node"
  /\ req' = [req EXCEPT ![r] = Idle]
  /\ acked' = acked \cup {NewEvent(r)}
  /\ UNCHANGED <<posts, ledger, audit, tasks, damages, overtaken>>

\* The server goes away with the handler in it, or a get or a put throws out of
\* Node's handler, which catches nothing; the client gets no answer.
Evicted(r) ==
  /\ req[r].phase # "idle"
  /\ req' = [req EXCEPT ![r] = Idle]
  /\ UNCHANGED <<posts, ledger, audit, tasks, acked, damages, overtaken>>

\* The newest MaxRetained records.
KeepNewest(rows) ==
  IF Len(rows) <= MaxRetained THEN rows
  ELSE SubSeq(rows, Len(rows) - MaxRetained + 1, Len(rows))

AuditLoad(t) ==
  /\ t.rows = Null
  /\ \E rows \in Readable(audit) :
       tasks' = (tasks \ {t}) \cup {[t EXCEPT !.rows = rows]}
  /\ UNCHANGED <<posts, ledger, audit, req, acked, damages, overtaken>>

AuditSave(t) ==
  /\ t.rows # Null
  /\ audit' = Append(audit, KeepNewest(Append(t.rows, t.record)))
  /\ tasks' = tasks \ {t}
  /\ UNCHANGED <<posts, ledger, req, acked, damages, overtaken>>

\* A failure is swallowed; a task that is evicted is gone as well.
AuditFails(t) ==
  /\ tasks' = tasks \ {t}
  /\ UNCHANGED <<posts, ledger, audit, req, acked, damages, overtaken>>

\* What is stored under a key can no longer be parsed: from now on a get reads
\* the default value, no row at all.
LedgerDamaged ==
  /\ damages < MaxDamages
  /\ damages' = damages + 1
  /\ ledger' = Append(ledger, << >>)
  /\ overtaken' = TRUE
  /\ UNCHANGED <<posts, audit, req, tasks, acked>>

AuditDamaged ==
  /\ damages < MaxDamages
  /\ damages' = damages + 1
  /\ audit' = Append(audit, << >>)
  /\ UNCHANGED <<posts, ledger, req, tasks, acked, overtaken>>

Next ==
  \/ \E r \in Request :
       \/ Begin(r) \/ NodeBegin(r)
       \/ Load(r) \/ LoadFails(r)
       \/ Save(r) \/ NodeSave(r)
       \/ SaveFails(r)
       \/ SaveSucceeds(r) \/ NodeSucceeds(r)
       \/ Evicted(r)
  \/ \E t \in tasks : AuditLoad(t) \/ AuditSave(t) \/ AuditFails(t)
  \/ LedgerDamaged \/ AuditDamaged

Spec == Init /\ [][Next]_vars
-----------------------------------------------------------------------------
Current == ledger[Len(ledger)]

Holds(rows, e) == \E i \in DOMAIN rows : rows[i] = e

\* Whatever raced, however old the rows were that were read, and whichever
\* servers wrote: in every version of the ledger the worker's rows are numbered
\* 1, 2, 3 ... in order, each with the id of its number, and Node's rows, which
\* lie anywhere between them, have no number and an id of their own.
Numbered(rows) ==
  /\ \E n \in 0..Len(rows) : SequencesIn(rows) = 1..n
  /\ \A i, j \in DOMAIN rows :
       i < j /\ rows[i].sequence # Null /\ rows[j].sequence # Null =>
         rows[i].sequence < rows[j].sequence
  /\ \A i \in DOMAIN rows :
       rows[i].event_id = IF rows[i].sequence = Null
                          THEN RandomUUID(rows[i].post)
                          ELSE EventId(rows[i].sequence)

LedgerNumbered == \A v \in DOMAIN ledger : Numbered(ledger[v])

\* "A collision here indicates ledger corruption or a prior non-canonical
\* writer" (ledger.write.worker.mjs:250): neither of the two writers ever causes
\* one, nor does a document that was lost, so the check cannot catch what races
\* do.
NeverCollides ==
  \A r \in Request : req[r].phase = "loaded" /\ req[r].server = "worker" =>
    ~HasEventIdCollision(req[r].rows, NewEvent(r).event_id)

\* The audit trail says APPENDED only of a POST that some version of the
\* ledger contains, and says it once.
AuditTruthful ==
  \A v \in DOMAIN audit : \A i \in DOMAIN audit[v] :
    /\ audit[v][i].reason = "APPENDED" =>
         \E w \in DOMAIN ledger : \E j \in DOMAIN ledger[w] :
           ledger[w][j].post = audit[v][i].post
    /\ \A j \in DOMAIN audit[v] : audit[v][j].post = audit[v][i].post => j = i

\* "Append-only persistence (tenant-scoped)" (ledger.write.worker.mjs:195): an
\* event a client was told of stays in the ledger.
AckedStays == \A e \in acked : Holds(Current, e)

\* "Unique across POSTs because sequence is monotonic within tenant ledger"
\* (ledger.write.worker.mjs:110).
UniqueAcrossPosts ==
  \A e, f \in acked : e.event_id = f.event_id => e = f

\* Only an overtaken read or a damaged document loses what clients were told:
\* as long as every put went over the rows that were current when it took
\* effect, whichever server made it and however many loads, puts and servers
\* failed meanwhile, acknowledged events stay and their ids differ.
OnlyOvertakingLoses == ~overtaken => AckedStays /\ UniqueAcrossPosts
-----------------------------------------------------------------------------
(* Why the properties hold, for the proofs.                                 *)

\* What a handler loaded is a version of the ledger.
LoadedNumbered ==
  \A r \in Request : req[r].phase \in {"loaded", "stored"} =>
    Numbered(req[r].rows)

IInv == TypeOK /\ LedgerNumbered /\ LoadedNumbered

\* Until a put is overtaken the current rows hold what was put and what was
\* acknowledged.
StoredHeld ==
  ~overtaken =>
    /\ AckedStays
    /\ \A r \in Request : req[r].phase = "stored" => Holds(Current, NewEvent(r))

\* What the audit trail and the ledger know of a POST.
InTrail(p) ==
  \E v \in DOMAIN audit : \E i \in DOMAIN audit[v] : audit[v][i].post = p

InLedger(p) ==
  \E w \in DOMAIN ledger : \E j \in DOMAIN ledger[w] : ledger[w][j].post = p

\* A handler under way has a POST of its own, of which nothing is recorded yet;
\* once its put took effect some version of the ledger has it.
RequestsSound ==
  \A r \in Request : req[r].phase # "idle" =>
    /\ req[r].post \in 1..posts
    /\ ~InTrail(req[r].post)
    /\ \A t \in tasks : t.record.post # req[r].post
    /\ \A s \in Request \ {r} :
         req[s].phase # "idle" => req[s].post # req[r].post
    /\ req[r].phase = "stored" => InLedger(req[r].post)

\* A record that waits is the only one of its POST, and what its task loaded is
\* a version of the trail.
TasksSound ==
  \A t \in tasks :
    /\ t.record.post \in 1..posts
    /\ ~InTrail(t.record.post)
    /\ \A u \in tasks \ {t} : u.record.post # t.record.post
    /\ t.rows # Null => \E v \in DOMAIN audit : t.rows = audit[v]
    /\ t.record.reason = "APPENDED" => InLedger(t.record.post)

TrailSound == \A v \in DOMAIN audit : \A i \in DOMAIN audit[v] :
                audit[v][i].post \in 1..posts

AuditInv == RequestsSound /\ TasksSound /\ TrailSound /\ AuditTruthful
=============================================================================
