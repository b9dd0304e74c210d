----------------------------- MODULE KeyedLedger -----------------------------
(***************************************************************************)
(* The in-memory ledger with idempotency keys (B3), in its two forms: the  *)
(* plain HTTP handler (backend/ledger/write.js) and the service behind the *)
(* express route (services/inventory/ledger/ledgerWrite.service.js).  Both *)
(* are synchronous, so one action is one request.  A client that loses an  *)
(* answer sends its input again; a restart of the process empties the      *)
(* store, which lives in module variables.  Validation lets fields through *)
(* that it does not know, and the body is spread over the event after the  *)
(* tenant and the id were set: a body that names a tenant or an id has its *)
(* way.                                                                    *)
(***************************************************************************)
EXTENDS Integers, Sequences, FiniteSets

CONSTANTS
  Tenant,       \* sessions have one of these, and bodies may name one
  Key, Place,
  Client,
  Input,        \* the request bodies clients send
  MaxRestarts,
  MaxIssued,    \* bounds the events that are made
  Null          \* a field that is missing, or has no usable value

EventType == {"OPENING_BALANCE", "ADJUSTMENT", "MOVE", "RECEIPT"}

\* A body.  "sku" says that skuId and hubId are given; quantity is Null when
\* it is no integer; "from" and "to" are pairs of a hub and a bin; "extra" is
\* what a field with an object for its value holds.  "tenantId" and "eventId"
\* are among the fields validation does not know.
Body == [idempotencyKey : Key \cup {Null}, eventType : EventType \cup {Null},
         sku : BOOLEAN, quantity : Int \cup {Null}, reasonCode : BOOLEAN,
         bin : BOOLEAN, from : Place \cup {Null}, to : Place \cup {Null},
         extra : Nat, tenantId : Tenant \cup {Null}, eventId : Nat \cup {Null}]

\* "session" is the tenant of the session that wrote it, which the code does
\* not keep.
Event == [eventId : Nat, tenantId : Tenant, input : Input, session : Tenant]

KeyedLedgerAssumption ==
  /\ Input \subseteq Body
  /\ MaxRestarts \in Nat /\ MaxIssued \in Nat
  /\ Null \notin Tenant \cup Key \cup Place \cup EventType \cup Int \cup Event

VARIABLES
  form,     \* which of the two forms runs
  events,   \* _events
  idem,     \* the index by tenant and key
  issued,   \* how many event ids were made
  restarts,
  client    \* what each client sends, and its last answer

vars == <<form, events, idem, issued, restarts, client>>

\* The top-level content: all a hash of the service's form takes in.
Top(i) == [i EXCEPT !.extra = 0]

\* The hashed payload.  The service passes the sorted keys of the body to
\* JSON.stringify as its list of keys to keep, which drops what nested objects
\* hold; the handler sorts the keys into a new object first.
CanonicalHash(i) == IF form = "http" THEN i ELSE Top(i)

Required(i) ==
  /\ i.idempotencyKey # Null
  /\ i.eventType # Null
  /\ i.sku

QuantityOk(i) ==
  /\ i.quantity # Null
  /\ IF i.eventType = "ADJUSTMENT" THEN i.quantity # 0 /\ i.reasonCode
     ELSE i.quantity > 0

PlacesOk(i) ==
  IF i.eventType = "MOVE"
  THEN i.from # Null /\ i.to # Null /\ i.from # i.to
  ELSE i.bin

\* validateLedgerEventInput
Valid(i) == Required(i) /\ QuantityOk(i) /\ PlacesOk(i)

Status == {200, 201, 400, 409}

Answer == [status : Status, event : Event \cup {Null}, life : 0..MaxRestarts]

TypeOK ==
  /\ form \in {"http", "service"}
  /\ events \in Seq(Event)
  /\ idem \in [Tenant \X Key -> Event \cup {Null}]
  /\ issued \in Nat
  /\ restarts \in 0..MaxRestarts
  /\ client \in [Client -> [tenant : Tenant, input : Input,
                            told : Answer \cup {Null}]]

Empty == [tk \in Tenant \X Key |-> Null]

Init ==
  /\ form \in {"http", "service"}
  /\ events = << >> /\ idem = Empty
  /\ issued = 0 /\ restarts = 0
  /\ client \in [Client -> [tenant : Tenant, input : Input, told : {Null}]]

\* getByIdempotencyKey
Existing(t, i) == idem[<<t, i.idempotencyKey>>]

\* An answer may be lost on its way; the client then keeps what it knew.
Tell(c, status, event) ==
  LET a == [status |-> status, event |-> event, life |-> restarts]
  IN  \E told \in {client[c].told, a} : client' = [client EXCEPT ![c].told = told]

Refuse(c) ==
  /\ ~Valid(client[c].input)
  /\ Tell(c, 400, Null)
  /\ UNCHANGED <<form, events, idem, issued, restarts>>

\* The key is known: the recorded event again, or a refusal.
Replay(c) ==
  LET i == client[c].input
      e == Existing(client[c].tenant, i)
  IN  /\ Valid(i) /\ e # Null
      /\ IF CanonicalHash(e.input) = CanonicalHash(i) THEN Tell(c, 200, e)
         ELSE Tell(c, 409, Null)
      /\ UNCHANGED <<form, events, idem, issued, restarts>>

\* Mutant: the event is stored without an entry for its key.
PushOnly(e) == events' = Append(events, e) /\ UNCHANGED idem

\* Mutant: the index holds what the client sent.
IndexesInput(e) ==
  /\ events' = Append(events, e)
  /\ idem' = [idem EXCEPT ![<<e.tenantId, e.input.idempotencyKey>>] = e.input]

\* appendEvent
AppendEvent(e) ==
  /\ events' = Append(events, e)
  /\ idem' = [idem EXCEPT ![<<e.tenantId, e.input.idempotencyKey>>] = e]

\* A field of the body that stands over the one set before it (...input).
Over(given, set) == IF given = Null THEN set ELSE given

\* The event of an input in a session, with a fresh id for those that need one.
EventOf(i, t, fresh) ==
  [eventId |-> Over(i.eventId, fresh), tenantId |-> Over(i.tenantId, t),
   input |-> i, session |-> t]

\* The key is looked up under the session's tenant and indexed under the
\* event's.
Record(c) ==
  LET i == client[c].input
      t == client[c].tenant
      e == EventOf(i, t, issued + 1)
  IN  /\ Valid(i) /\ Existing(t, i) = Null
      /\ issued < MaxIssued
      /\ AppendEvent(e)
      /\ issued' = issued + 1
      /\ Tell(c, 201, e)
      /\ UNCHANGED <<form, restarts>>

\* A client goes on to another body; until it does it repeats the last one.
NextInput(c, i) ==
  /\ client[c].told # Null /\ i # client[c].input
  /\ client' = [client EXCEPT ![c].input = i, ![c].told = Null]
  /\ UNCHANGED <<form, events, idem, issued, restarts>>

Restart ==
  /\ restarts < MaxRestarts
  /\ restarts' = restarts + 1
  /\ events' = << >> /\ idem' = Empty
  /\ UNCHANGED <<form, issued, client>>

Next ==
  \/ \E c \in Client : Refuse(c) \/ Replay(c) \/ Record(c)
  \/ \E c \in Client, i \in Input : NextInput(c, i)
  \/ Restart

Spec == Init /\ [][Next]_vars

-----------------------------------------------------------------------------
\* The tenant and the key an event is indexed under.
IndexKey(e) == <<e.tenantId, e.input.idempotencyKey>>

\* However often clients repeat a request, whichever answers are lost and
\* however clients share keys, an event under a tenant's key that has one
\* already comes from a body that named a tenant other than its session's, and
\* the index holds the last event of each (store.js appendEvent, write.js:102).
OncePerKey ==
  /\ \A j, k \in DOMAIN events :
       j < k /\ IndexKey(events[j]) = IndexKey(events[k]) =>
         events[k].input.tenantId \notin {Null, events[k].session}
  /\ \A tk \in Tenant \X Key :
       \/ /\ idem[tk] = Null
          /\ \A k \in DOMAIN events : IndexKey(events[k]) # tk
       \/ \E k \in DOMAIN events :
            /\ idem[tk] = events[k] /\ IndexKey(events[k]) = tk
            /\ \A j \in DOMAIN events : j > k => IndexKey(events[j]) # tk

\* A client that was told of an event, new or replayed, can rely on it while
\* the process lives: the event is in the ledger, of its session's tenant unless
\* its body named one, and says what the client sent, nested objects aside
\* (write.js:56, ledgerWrite.service.js:40).
AnswersStand ==
  \A c \in Client :
    LET a == client[c].told
    IN  (a # Null /\ a.life = restarts /\ a.status \in {200, 201}) =>
          /\ \E k \in DOMAIN events : events[k] = a.event
          /\ a.event.tenantId = Over(client[c].input.tenantId, client[c].tenant)
          /\ Top(a.event.input) = Top(client[c].input)

\* A client is told of a mismatch only while its key stands for other content.
RefusedForOther ==
  \A c \in Client :
    LET a == client[c].told
    IN  (a # Null /\ a.life = restarts /\ a.status = 409) =>
          \E k \in DOMAIN events :
            /\ events[k].tenantId = client[c].tenant
            /\ events[k].input.idempotencyKey = client[c].input.idempotencyKey
            /\ events[k].input # client[c].input

\* What the idempotency key is for (store.js, write.js:53-94): one record per
\* key of the session's tenant, and answers that say what became of it.
Idempotent == OncePerKey /\ AnswersStand /\ RefusedForOther

\* "Tenant scope is session-derived only; tenantId is never accepted from
\* clients as authority" (ledgerEvent.invariants.md:7).
TenantFromSession ==
  \A k \in DOMAIN events : events[k].tenantId = events[k].session
=============================================================================
