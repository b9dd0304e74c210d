--------------------------- MODULE Services_proofs ---------------------------
(***************************************************************************)
(* Theorems about the components that stand side by side in Services, for  *)
(* any tenants, inputs, events, loads, requests and bounds.  Each component*)
(* has an inductive invariant of its own, kept by its steps; the steps of  *)
(* the others leave its variables alone, so together they are kept by every*)
(* step.  The parts are, in order: the B3 ledger with idempotency keys, the*)
(* pages and their cache, the reports, the documents, the vendors, the     *)
(* gate, and the theorems.  That the pages' loads end is left to TLC.      *)
(***************************************************************************)
EXTENDS Services, FoldSums, TLAPS

-----------------------------------------------------------------------------
-----------------------------------------------------------------------------
(* The B3 ledger with idempotency keys (KeyedLedger)                       *)

\* The tenant of an event is the one its body names, or its session's.
TenantSettled ==
  \A k \in DOMAIN events :
    events[k].tenantId = Over(events[k].input.tenantId, events[k].session)

\* No answer is of a life of the process that is still to come.
PastLives ==
  \A c \in Client : client[c].told # Null => client[c].told.life <= restarts

KeyedIInv ==
  TypeOK /\ OncePerKey /\ TenantSettled /\ PastLives /\ AnswersStand /\ RefusedForOther

-----------------------------------------------------------------------------
(* Facts about the state                                                   *)

\* A valid input has a key.
LEMMA KeyOfValid ==
  ASSUME KeyedLedgerAssumption, NEW i \in Input, Valid(i)
  PROVE  i.idempotencyKey \in Key
BY DEF KeyedLedgerAssumption, Body, Valid, Required

\* What a client is.
LEMMA ClientShape ==
  ASSUME TypeOK, NEW c \in Client
  PROVE  /\ client[c].tenant \in Tenant /\ client[c].input \in Input
         /\ client[c].told \in Answer \cup {Null}
         /\ client = [d \in Client |-> client[d]]
BY DEF TypeOK

\* What an answer changes: the answer of one client, or nothing.
LEMMA KeyedTold ==
  ASSUME TypeOK, NEW c \in Client, NEW status \in Status,
         NEW e \in Event \cup {Null}, Tell(c, status, e)
  PROVE  /\ client' \in [Client -> [tenant : Tenant, input : Input,
                                    told : Answer \cup {Null}]]
         /\ \A d \in Client : client'[d].tenant = client[d].tenant
                              /\ client'[d].input = client[d].input
         /\ \A d \in Client :
              \/ client'[d].told = client[d].told
              \/ d = c /\ client'[d].told = [status |-> status, event |-> e,
                                             life |-> restarts]
<1> DEFINE a == [status |-> status, event |-> e, life |-> restarts]
<1>1. a \in Answer
  BY DEF TypeOK, Answer
<1>2. PICK told \in {client[c].told, a} : client' = [client EXCEPT ![c].told = told]
  BY DEF Tell
<1>3. told \in Answer \cup {Null}
  BY <1>1, <1>2, ClientShape
<1> QED BY <1>2, <1>3 DEF TypeOK

\* What an action does that leaves the ledger alone and answers one client.
LEMMA OnlyTells ==
  ASSUME TypeOK, PastLives, NEW c \in Client, NEW status \in Status,
         NEW e \in Event \cup {Null}, Tell(c, status, e),
         UNCHANGED <<form, events, idem, issued, restarts>>
  PROVE  TypeOK' /\ PastLives'
<1>1. TypeOK'
  BY KeyedTold DEF TypeOK
<1>2. ASSUME NEW d \in Client, client'[d].told # Null
      PROVE  client'[d].told.life <= restarts'
  <2>1. CASE client'[d].told = client[d].told
    BY <1>2, <2>1 DEF PastLives
  <2>2. CASE client'[d].told = [status |-> status, event |-> e, life |-> restarts]
    BY <2>2 DEF TypeOK
  <2> QED BY <2>1, <2>2, KeyedTold
<1> QED BY <1>1, <1>2 DEF PastLives

\* A ledger that grows by an event, and an index that gets it.
LEMMA KeyedAppended ==
  ASSUME TypeOK, NEW e \in Event, e.input.idempotencyKey \in Key, AppendEvent(e)
  PROVE  /\ events' \in Seq(Event) /\ idem' \in [Tenant \X Key -> Event \cup {Null}]
         /\ DOMAIN events' = DOMAIN events \cup {Len(events) + 1}
         /\ Len(events) + 1 \notin DOMAIN events
         /\ events'[Len(events) + 1] = e
         /\ \A k \in DOMAIN events : events'[k] = events[k]
         /\ idem'[<<e.tenantId, e.input.idempotencyKey>>] = e
         /\ \A tk \in Tenant \X Key :
              tk # <<e.tenantId, e.input.idempotencyKey>> => idem'[tk] = idem[tk]
         /\ IndexKey(e) = <<e.tenantId, e.input.idempotencyKey>>
         /\ IndexKey(e) \in Tenant \X Key
<1>1. events \in Seq(Event) /\ events' = Append(events, e)
  BY DEF TypeOK, AppendEvent
<1>2. e.tenantId \in Tenant
  BY DEF Event
<1>3. idem' \in [Tenant \X Key -> Event \cup {Null}]
  BY DEF TypeOK, AppendEvent
<1>4. idem'[<<e.tenantId, e.input.idempotencyKey>>] = e
  BY <1>2 DEF TypeOK, AppendEvent
<1>5. \A tk \in Tenant \X Key :
        tk # <<e.tenantId, e.input.idempotencyKey>> => idem'[tk] = idem[tk]
  BY DEF TypeOK, AppendEvent
<1>6. /\ events' \in Seq(Event)
      /\ DOMAIN events' = DOMAIN events \cup {Len(events) + 1}
      /\ Len(events) + 1 \notin DOMAIN events
      /\ events'[Len(events) + 1] = e
      /\ \A k \in DOMAIN events : events'[k] = events[k]
  BY <1>1
<1> QED BY <1>2, <1>3, <1>4, <1>5, <1>6 DEF IndexKey

\* An event of the index is an event of the ledger.
LEMMA IndexedIsRecorded ==
  ASSUME TypeOK, OncePerKey, NEW tk \in Tenant \X Key, idem[tk] # Null
  PROVE  /\ idem[tk] \in Event
         /\ idem[tk].tenantId = tk[1] /\ idem[tk].input.idempotencyKey = tk[2]
         /\ \E k \in DOMAIN events : events[k] = idem[tk]
<1>1. PICK k \in DOMAIN events : idem[tk] = events[k] /\ IndexKey(events[k]) = tk
  BY DEF OncePerKey
<1> QED BY <1>1 DEF TypeOK, IndexKey

\* What an input makes in a session is an event.
LEMMA EventShape ==
  ASSUME KeyedLedgerAssumption, NEW i \in Input, NEW t \in Tenant, NEW fresh \in Nat
  PROVE  /\ EventOf(i, t, fresh) \in Event
         /\ EventOf(i, t, fresh).tenantId = Over(i.tenantId, t)
         /\ EventOf(i, t, fresh).input = i
         /\ EventOf(i, t, fresh).session = t
<1>1. i.tenantId \in Tenant \cup {Null} /\ i.eventId \in Nat \cup {Null}
  BY DEF KeyedLedgerAssumption, Body
<1>2. Over(i.eventId, fresh) \in Nat /\ Over(i.tenantId, t) \in Tenant
  BY <1>1 DEF Over
<1> QED BY <1>2 DEF EventOf, Event

\* A form of the hash that tells two inputs apart tells their contents apart.
LEMMA HashTells ==
  ASSUME TypeOK, NEW i, NEW j
  PROVE  /\ CanonicalHash(i) = CanonicalHash(j) => Top(i) = Top(j)
         /\ CanonicalHash(i) # CanonicalHash(j) => i # j
BY DEF CanonicalHash

\* The top-level content has the tenant a body names.
LEMMA TopKeepsTenant ==
  ASSUME KeyedLedgerAssumption, NEW i \in Input, NEW j \in Input, Top(i) = Top(j)
  PROVE  i.tenantId = j.tenantId
<1>1. i \in Body /\ j \in Body
  BY DEF KeyedLedgerAssumption
<1>2. Top(i).tenantId = i.tenantId /\ Top(j).tenantId = j.tenantId
  BY <1>1 DEF Top, Body
<1> QED BY <1>2

-----------------------------------------------------------------------------
(* Initial states and steps                                                *)

LEMMA KeyedStart == KeyedLedgerAssumption /\ Init => KeyedIInv
<1> SUFFICES ASSUME KeyedLedgerAssumption, Init PROVE KeyedIInv
  OBVIOUS
<1>1. TypeOK
  BY DEF Init, TypeOK, Empty, KeyedLedgerAssumption
<1>2. \A c \in Client : client[c].told = Null
  BY DEF Init
<1>3. OncePerKey /\ TenantSettled
  BY DEF Init, Empty, OncePerKey, TenantSettled
<1>4. PastLives /\ AnswersStand /\ RefusedForOther
  BY <1>2 DEF PastLives, AnswersStand, RefusedForOther
<1> QED BY <1>1, <1>3, <1>4 DEF KeyedIInv

LEMMA RefuseKeeps ==
  ASSUME KeyedLedgerAssumption, KeyedIInv, NEW c \in Client, Refuse(c)
  PROVE  KeyedIInv'
<1>1. /\ Tell(c, 400, Null) /\ 400 \in Status /\ Null \in Event \cup {Null}
      /\ UNCHANGED <<form, events, idem, issued, restarts>>
  BY DEF Refuse, Status
<1>2. TypeOK' /\ PastLives'
  BY <1>1, OnlyTells DEF KeyedIInv
<1>3. OncePerKey' /\ TenantSettled'
  BY <1>1 DEF KeyedIInv, OncePerKey, TenantSettled
<1>4. \A d \in Client :
        /\ client'[d].tenant = client[d].tenant /\ client'[d].input = client[d].input
        /\ \/ client'[d].told = client[d].told
           \/ client'[d].told = [status |-> 400, event |-> Null, life |-> restarts]
  BY <1>1, KeyedTold DEF KeyedIInv
<1>5. AnswersStand' /\ RefusedForOther'
  BY <1>1, <1>4 DEF KeyedIInv, AnswersStand, RefusedForOther
<1> QED BY <1>2, <1>3, <1>5 DEF KeyedIInv

LEMMA ReplayKeeps ==
  ASSUME KeyedLedgerAssumption, KeyedIInv, NEW c \in Client, Replay(c)
  PROVE  KeyedIInv'
<1> DEFINE i == client[c].input
           t == client[c].tenant
           e == Existing(t, i)
<1>1. Valid(i) /\ e # Null /\ UNCHANGED <<form, events, idem, issued, restarts>>
  BY DEF Replay
<1>2. i \in Input /\ t \in Tenant /\ i.idempotencyKey \in Key
  BY <1>1, ClientShape, KeyOfValid DEF KeyedIInv
<1>3. /\ e \in Event /\ e = idem[<<t, i.idempotencyKey>>]
      /\ e.tenantId = t /\ e.input.idempotencyKey = i.idempotencyKey
      /\ \E k \in DOMAIN events : events[k] = e
  <2>1. <<t, i.idempotencyKey>> \in Tenant \X Key /\ idem[<<t, i.idempotencyKey>>] # Null
    BY <1>1, <1>2 DEF Existing
  <2> QED BY <2>1, IndexedIsRecorded DEF KeyedIInv, Existing
<1>4. PICK status \in {200, 409}, told \in {e, Null} :
        /\ Tell(c, status, told)
        /\ status = 200 => told = e /\ Top(e.input) = Top(i)
        /\ status = 409 => e.input # i
  <2>1. CASE CanonicalHash(e.input) = CanonicalHash(i)
    <3>1. Tell(c, 200, e)
      BY <2>1 DEF Replay
    <3>2. Top(e.input) = Top(i)
      BY <2>1, HashTells DEF KeyedIInv
    <3> QED BY <3>1, <3>2
  <2>2. CASE CanonicalHash(e.input) # CanonicalHash(i)
    <3>1. Tell(c, 409, Null)
      BY <2>2 DEF Replay
    <3>2. e.input # i
      BY <2>2, HashTells DEF KeyedIInv
    <3> QED BY <3>1, <3>2
  <2> QED BY <2>1, <2>2
<1> HIDE DEF e
<1>5. status \in Status /\ told \in Event \cup {Null}
  BY <1>3, <1>4 DEF Status
<1>6. TypeOK' /\ PastLives'
  BY <1>1, <1>4, <1>5, OnlyTells DEF KeyedIInv
<1>7. OncePerKey' /\ TenantSettled'
  BY <1>1 DEF KeyedIInv, OncePerKey, TenantSettled
<1>8. \A d \in Client :
        /\ client'[d].tenant = client[d].tenant /\ client'[d].input = client[d].input
        /\ \/ client'[d].told = client[d].told
           \/ d = c /\ client'[d].told = [status |-> status, event |-> told,
                                          life |-> restarts]
  BY <1>4, <1>5, KeyedTold DEF KeyedIInv
<1>9. AnswersStand'
  <2> SUFFICES ASSUME NEW d \in Client, client'[d].told # Null,
                      client'[d].told.life = restarts',
                      client'[d].told.status \in {200, 201}
               PROVE  /\ \E k \in DOMAIN events' : events'[k] = client'[d].told.event
                      /\ client'[d].told.event.tenantId
                           = Over(client'[d].input.tenantId, client'[d].tenant)
                      /\ Top(client'[d].told.event.input) = Top(client'[d].input)
    BY DEF AnswersStand, Top, Over
  <2>1. CASE client'[d].told = client[d].told
    BY <1>1, <1>8, <2>1 DEF KeyedIInv, AnswersStand
  <2>2. CASE d = c /\ client'[d].told = [status |-> status, event |-> told,
                                         life |-> restarts]
    <3>1. status = 200 /\ told = e /\ Top(e.input) = Top(i)
      BY <1>4, <2>2
    <3>2. e.input.tenantId = i.tenantId
      BY <1>2, <1>3, <3>1, TopKeepsTenant DEF KeyedIInv, Event
    <3>3. e.tenantId = Over(e.input.tenantId, e.session)
      BY <1>3 DEF KeyedIInv, TenantSettled
    <3>4. e.tenantId = Over(i.tenantId, t)
      BY <1>3, <3>2, <3>3 DEF Over
    <3> QED BY <1>1, <1>3, <1>8, <2>2, <3>1, <3>4
  <2> QED BY <1>8, <2>1, <2>2
<1>10. RefusedForOther'
  <2> SUFFICES ASSUME NEW d \in Client, client'[d].told # Null,
                      client'[d].told.life = restarts', client'[d].told.status = 409
               PROVE  \E k \in DOMAIN events' :
                        /\ events'[k].tenantId = client'[d].tenant
                        /\ events'[k].input.idempotencyKey
                             = client'[d].input.idempotencyKey
                        /\ events'[k].input # client'[d].input
    BY DEF RefusedForOther
  <2>1. CASE client'[d].told = client[d].told
    BY <1>1, <1>8, <2>1 DEF KeyedIInv, RefusedForOther
  <2>2. CASE d = c /\ client'[d].told = [status |-> status, event |-> told,
                                         life |-> restarts]
    <3>1. e.input # i
      BY <1>4, <2>2
    <3>2. PICK k \in DOMAIN events : events[k] = e
      BY <1>3
    <3> QED BY <1>1, <1>3, <1>8, <2>2, <3>1, <3>2
  <2> QED BY <1>8, <2>1, <2>2
<1> QED BY <1>6, <1>7, <1>9, <1>10 DEF KeyedIInv

LEMMA RecordKeeps ==
  ASSUME KeyedLedgerAssumption, KeyedIInv, NEW c \in Client, Record(c)
  PROVE  KeyedIInv'
<1> DEFINE i == client[c].input
           t == client[c].tenant
           e == EventOf(i, t, issued + 1)
           N == Len(events) + 1
           tk == IndexKey(e)
<1>1. /\ Valid(i) /\ idem[<<t, i.idempotencyKey>>] = Null /\ AppendEvent(e)
      /\ issued' = issued + 1 /\ Tell(c, 201, e) /\ UNCHANGED <<form, restarts>>
  BY DEF Record, Existing
<1>2. i \in Input /\ t \in Tenant /\ i.idempotencyKey \in Key /\ issued \in Nat
  BY <1>1, ClientShape, KeyOfValid DEF KeyedIInv, TypeOK
<1>3. /\ e \in Event /\ e.tenantId = Over(i.tenantId, t) /\ e.input = i
      /\ e.session = t /\ 201 \in Status /\ e # Null
  BY <1>2, EventShape DEF Status, KeyedLedgerAssumption
<1> HIDE DEF e
<1>4. /\ events' \in Seq(Event) /\ idem' \in [Tenant \X Key -> Event \cup {Null}]
      /\ DOMAIN events' = DOMAIN events \cup {N} /\ N \notin DOMAIN events
      /\ events'[N] = e /\ \A k \in DOMAIN events : events'[k] = events[k]
      /\ idem'[tk] = e /\ \A x \in Tenant \X Key : x # tk => idem'[x] = idem[x]
      /\ tk \in Tenant \X Key /\ tk = <<e.tenantId, i.idempotencyKey>>
  BY <1>1, <1>2, <1>3, KeyedAppended DEF KeyedIInv
<1> HIDE DEF tk
<1>5. \A d \in Client :
        /\ client'[d].tenant = client[d].tenant /\ client'[d].input = client[d].input
        /\ \/ client'[d].told = client[d].told
           \/ d = c /\ client'[d].told = [status |-> 201, event |-> e,
                                          life |-> restarts]
  BY <1>1, <1>3, KeyedTold DEF KeyedIInv
<1>6. TypeOK'
  <2>1. client' \in [Client -> [tenant : Tenant, input : Input,
                                 told : Answer \cup {Null}]]
    BY <1>1, <1>3, KeyedTold DEF KeyedIInv
  <2> QED BY <1>1, <1>2, <1>4, <2>1 DEF KeyedIInv, TypeOK
<1>7. PastLives'
  <2> SUFFICES ASSUME NEW d \in Client, client'[d].told # Null
               PROVE  client'[d].told.life <= restarts'
    BY DEF PastLives
  <2>1. CASE client'[d].told = client[d].told
    BY <1>1, <2>1 DEF KeyedIInv, PastLives
  <2>2. CASE client'[d].told = [status |-> 201, event |-> e, life |-> restarts]
    BY <1>1, <2>2 DEF KeyedIInv, TypeOK
  <2> QED BY <1>5, <2>1, <2>2
<1>8. /\ IndexKey(e) = tk
      /\ events'[N] = e
      /\ \A k \in DOMAIN events : IndexKey(events'[k]) = IndexKey(events[k]) /\ k < N
  <2>1. \A k \in DOMAIN events : k < N
    BY DEF KeyedIInv, TypeOK
  <2> QED BY <1>4, <2>1 DEF tk
<1>9. OncePerKey'
  <2>1. ASSUME NEW j \in DOMAIN events', NEW k \in DOMAIN events', j < k,
               IndexKey(events'[j]) = IndexKey(events'[k])
        PROVE  events'[k].input.tenantId \notin {Null, events'[k].session}
    <3>1. CASE k \in DOMAIN events
      <4>1. j \in DOMAIN events
        BY <1>4, <1>8, <2>1, <3>1 DEF KeyedIInv, TypeOK
      <4> QED BY <1>4, <1>8, <2>1, <3>1, <4>1 DEF KeyedIInv, OncePerKey
    <3>2. CASE k = N
      <4>1. j \in DOMAIN events /\ IndexKey(events[j]) = tk
        BY <1>4, <1>8, <2>1, <3>2
      <4>2. SUFFICES ASSUME i.tenantId \in {Null, t} PROVE FALSE
        BY <1>3, <1>4, <3>2
      <4>3. e.tenantId = t
        BY <1>3, <4>2 DEF Over
      <4>4. tk = <<t, i.idempotencyKey>> /\ idem[tk] = Null
        BY <1>1, <1>4, <4>3
      <4>5. idem[tk] # Null
        <5>1. \A x \in DOMAIN events : events[x] # Null
          BY DEF KeyedIInv, TypeOK, KeyedLedgerAssumption
        <5> QED BY <1>4, <4>1, <5>1 DEF KeyedIInv, OncePerKey
      <4> QED BY <4>4, <4>5
    <3> QED BY <1>4, <3>1, <3>2
  <2>2. ASSUME NEW x \in Tenant \X Key
        PROVE  \/ /\ idem'[x] = Null
                  /\ \A k \in DOMAIN events' : IndexKey(events'[k]) # x
               \/ \E k \in DOMAIN events' :
                    /\ idem'[x] = events'[k] /\ IndexKey(events'[k]) = x
                    /\ \A j \in DOMAIN events' : j > k => IndexKey(events'[j]) # x
    <3>1. CASE x = tk
      <4>1. N \in DOMAIN events' /\ idem'[x] = events'[N] /\ IndexKey(events'[N]) = x
        BY <1>4, <1>8, <3>1
      <4>2. \A j \in DOMAIN events' : ~(j > N)
        BY <1>4, <1>8 DEF KeyedIInv, TypeOK
      <4> QED BY <4>1, <4>2
    <3>2. CASE x # tk
      <4>1. idem'[x] = idem[x] /\ IndexKey(events'[N]) # x
        BY <1>4, <1>8, <3>2
      <4>2. CASE idem[x] = Null /\ \A k \in DOMAIN events : IndexKey(events[k]) # x
        BY <1>4, <1>8, <4>1, <4>2
      <4>3. CASE \E k \in DOMAIN events :
                   /\ idem[x] = events[k] /\ IndexKey(events[k]) = x
                   /\ \A j \in DOMAIN events : j > k => IndexKey(events[j]) # x
        <5>1. PICK k \in DOMAIN events :
                   /\ idem[x] = events[k] /\ IndexKey(events[k]) = x
                   /\ \A j \in DOMAIN events : j > k => IndexKey(events[j]) # x
          BY <4>3
        <5>2. k \in DOMAIN events' /\ idem'[x] = events'[k] /\ IndexKey(events'[k]) = x
          BY <1>4, <1>8, <4>1, <5>1
        <5>3. \A j \in DOMAIN events' : j > k => IndexKey(events'[j]) # x
          BY <1>4, <1>8, <4>1, <5>1
        <5> QED BY <5>2, <5>3
      <4> QED BY <4>2, <4>3 DEF KeyedIInv, OncePerKey
    <3> QED BY <3>1, <3>2
  <2>3. \A k : IndexKey(events[k])' = IndexKey(events'[k])
    BY DEF IndexKey
  <2> QED BY <2>1, <2>2, <2>3 DEF OncePerKey, IndexKey
<1>10. TenantSettled'
  <2> SUFFICES ASSUME NEW k \in DOMAIN events'
               PROVE  events'[k].tenantId
                        = Over(events'[k].input.tenantId, events'[k].session)
    BY DEF TenantSettled, Over
  <2>1. CASE k = N
    BY <1>3, <1>4, <2>1
  <2>2. CASE k \in DOMAIN events
    BY <1>4, <2>2 DEF KeyedIInv, TenantSettled
  <2> QED BY <1>4, <2>1, <2>2
<1>11. AnswersStand'
  <2> SUFFICES ASSUME NEW d \in Client, client'[d].told # Null,
                      client'[d].told.life = restarts',
                      client'[d].told.status \in {200, 201}
               PROVE  /\ \E k \in DOMAIN events' : events'[k] = client'[d].told.event
                      /\ client'[d].told.event.tenantId
                           = Over(client'[d].input.tenantId, client'[d].tenant)
                      /\ Top(client'[d].told.event.input) = Top(client'[d].input)
    BY DEF AnswersStand, Top, Over
  <2>1. CASE client'[d].told = client[d].told
    <3>1. /\ \E k \in DOMAIN events : events[k] = client[d].told.event
          /\ client[d].told.event.tenantId
               = Over(client[d].input.tenantId, client[d].tenant)
          /\ Top(client[d].told.event.input) = Top(client[d].input)
      BY <1>1, <2>1 DEF KeyedIInv, AnswersStand
    <3> QED BY <1>4, <1>5, <2>1, <3>1
  <2>2. CASE d = c /\ client'[d].told = [status |-> 201, event |-> e,
                                         life |-> restarts]
    BY <1>3, <1>4, <1>5, <2>2
  <2> QED BY <1>5, <2>1, <2>2
<1>12. RefusedForOther'
  <2> SUFFICES ASSUME NEW d \in Client, client'[d].told # Null,
                      client'[d].told.life = restarts', client'[d].told.status = 409
               PROVE  \E k \in DOMAIN events' :
                        /\ events'[k].tenantId = client'[d].tenant
                        /\ events'[k].input.idempotencyKey
                             = client'[d].input.idempotencyKey
                        /\ events'[k].input # client'[d].input
    BY DEF RefusedForOther
  <2>1. client'[d].told = client[d].told
    BY <1>5
  <2>2. PICK k \in DOMAIN events :
          /\ events[k].tenantId = client[d].tenant
          /\ events[k].input.idempotencyKey = client[d].input.idempotencyKey
          /\ events[k].input # client[d].input
    BY <1>1, <2>1 DEF KeyedIInv, RefusedForOther
  <2> QED BY <1>4, <1>5, <2>2
<1> QED BY <1>6, <1>7, <1>9, <1>10, <1>11, <1>12 DEF KeyedIInv

LEMMA NextInputKeeps ==
  ASSUME KeyedIInv, NEW c \in Client, NEW i \in Input, NextInput(c, i)
  PROVE  KeyedIInv'
<1>1. /\ client' = [client EXCEPT ![c].input = i, ![c].told = Null]
      /\ UNCHANGED <<form, events, idem, issued, restarts>>
  BY DEF NextInput
<1>2. \A d \in Client : \/ client'[d] = client[d]
                         \/ client'[d].told = Null
  BY <1>1 DEF KeyedIInv, TypeOK
<1>3. TypeOK'
  BY <1>1 DEF KeyedIInv, TypeOK
<1>4. OncePerKey' /\ TenantSettled'
  BY <1>1 DEF KeyedIInv, OncePerKey, TenantSettled
<1>5. PastLives'
  BY <1>1, <1>2 DEF KeyedIInv, PastLives
<1>6. AnswersStand'
  <2> SUFFICES ASSUME NEW d \in Client, client'[d].told # Null,
                      client'[d].told.life = restarts',
                      client'[d].told.status \in {200, 201}
               PROVE  /\ \E k \in DOMAIN events' : events'[k] = client'[d].told.event
                      /\ client'[d].told.event.tenantId
                           = Over(client'[d].input.tenantId, client'[d].tenant)
                      /\ Top(client'[d].told.event.input) = Top(client'[d].input)
    BY DEF AnswersStand, Top, Over
  <2>1. client'[d] = client[d]
    BY <1>2
  <2> QED BY <1>1, <2>1 DEF KeyedIInv, AnswersStand
<1>7. RefusedForOther'
  <2> SUFFICES ASSUME NEW d \in Client, client'[d].told # Null,
                      client'[d].told.life = restarts', client'[d].told.status = 409
               PROVE  \E k \in DOMAIN events' :
                        /\ events'[k].tenantId = client'[d].tenant
                        /\ events'[k].input.idempotencyKey
                             = client'[d].input.idempotencyKey
                        /\ events'[k].input # client'[d].input
    BY DEF RefusedForOther
  <2>1. client'[d] = client[d]
    BY <1>2
  <2> QED BY <1>1, <2>1 DEF KeyedIInv, RefusedForOther
<1> QED BY <1>3, <1>4, <1>5, <1>6, <1>7 DEF KeyedIInv

\* The ledger is empty again, and every answer is of an earlier life.
LEMMA KeyedRestartKeeps ==
  ASSUME KeyedIInv, KeyedLedgerAssumption, Restart
  PROVE  KeyedIInv'
<1>1. /\ restarts \in Nat /\ restarts' = restarts + 1 /\ restarts' \in 0..MaxRestarts
      /\ events' = << >> /\ idem' = Empty /\ UNCHANGED <<form, issued, client>>
  BY DEF KeyedIInv, TypeOK, Restart, KeyedLedgerAssumption
<1>2. TypeOK'
  BY <1>1 DEF KeyedIInv, TypeOK, Empty
<1>3. \A c \in Client : client'[c].told # Null => /\ client'[c].told.life \in Int
                                               /\ client'[c].told.life < restarts'
  BY <1>1 DEF KeyedIInv, TypeOK, PastLives, Answer
<1>4. OncePerKey' /\ TenantSettled'
  BY <1>1 DEF OncePerKey, TenantSettled, Empty
<1>5. PastLives' /\ AnswersStand' /\ RefusedForOther'
  BY <1>1, <1>3 DEF PastLives, AnswersStand, RefusedForOther
<1> QED BY <1>2, <1>4, <1>5 DEF KeyedIInv

-----------------------------------------------------------------------------

LEMMA KeyedStarts == Init => KeyedIInv
BY ServicesAssumption, KeyedStart

LEMMA KeyedKeep == KeyedIInv /\ [Next]_vars => KeyedIInv'
<1> SUFFICES ASSUME KeyedIInv, [Next]_vars PROVE KeyedIInv'
  OBVIOUS
<1>0. KeyedLedgerAssumption
  BY ServicesAssumption
<1>1. CASE UNCHANGED vars
  BY <1>1 DEF vars, KeyedIInv, TypeOK, OncePerKey, TenantSettled, PastLives,
              AnswersStand, RefusedForOther
<1>2. CASE \E c \in Client : Refuse(c) \/ Replay(c) \/ Record(c)
  BY <1>0, <1>2, RefuseKeeps, ReplayKeeps, RecordKeeps
<1>3. CASE \E c \in Client, i \in Input : NextInput(c, i)
  BY <1>0, <1>3, NextInputKeeps
<1>4. CASE Restart
  BY <1>0, <1>4, KeyedRestartKeeps
<1> QED BY <1>1, <1>2, <1>3, <1>4 DEF Next

-----------------------------------------------------------------------------
-----------------------------------------------------------------------------
(* The pages and the cache they share (LedgerPages)                        *)

\* A fetch that was started since the cache was last cleared is under way, or
\* has left its result or its error there.
FetchIsKept ==
  starts = 1 => \/ cache.promise # Null
                \/ cache.result # Null
                \/ cache.error

PagesFlow == LP!TypeOK /\ LP!SingleFlight /\ FetchIsKept /\ LP!SaysWhatItShows

-----------------------------------------------------------------------------
(* Facts about the state                                                   *)

\* A nonempty set of loads has one that was started last.
LEMMA LatestIsOne ==
  ASSUME LP!LedgerPagesAssumption, NEW L, L \subseteq LP!Waiting, L # {}
  PROVE  LP!Latest(L) \in L
<1> DEFINE R == {p \in Nat \X Nat : p[1] < p[2]}
           U == {MaxLoads - l.id : l \in L}
<1>1. U \subseteq Nat /\ U # {}
  BY DEF LP!Waiting, LP!LedgerPagesAssumption
<1>2. IsWellFoundedOn(R, Nat)
  BY NatLessThanWellFounded DEF OpToRel
<1>3. PICK u \in U : \A w \in U : ~(<<w, u>> \in R)
  <2> HIDE DEF R, U
  <2> QED BY <1>1, <1>2, WFMin
<1>4. PICK l \in L : u = MaxLoads - l.id
  OBVIOUS
<1>5. ASSUME NEW k \in L PROVE k.id <= l.id
  <2>1. ~(MaxLoads - k.id < MaxLoads - l.id)
    BY <1>1, <1>3, <1>4
  <2>2. k.id \in Int /\ l.id \in Int /\ MaxLoads \in Int
    BY DEF LP!Waiting, LP!LedgerPagesAssumption
  <2> QED BY <2>1, <2>2
<1> QED BY <1>5 DEF LP!Latest

\* A view, or the same on its first page.
LEMMA PagesReset ==
  ASSUME NEW w \in LP!View
  PROVE  /\ LP!ResetPage(w) \in LP!View
         /\ LP!ResetPage(w).loading = w.loading
         /\ LP!ResetPage(w).err = w.err
         /\ LP!ResetPage(w).shown = w.shown
<1>1. LP!ResetPage(w) \in {w, [w EXCEPT !.pageNo = 1]}
  BY DEF LP!ResetPage
<1> QED BY <1>1 DEF LP!View

\* What the ways a load goes on make of a view.
LEMMA PagesViews ==
  ASSUME NEW w \in LP!View
  PROVE  /\ \A v \in LP!Version, items \in SUBSET Item :
              /\ LP!Shows(w, v, items) \in LP!View
              /\ ~LP!Shows(w, v, items).loading /\ LP!Shows(w, v, items).shown = v
         /\ LP!Fails(w) \in LP!View /\ ~LP!Fails(w).loading /\ LP!Fails(w).err
BY DEF LP!View, LP!Shows, LP!Fails

\* Numbers of events, and of loads, are not Null.
LEMMA VersionsNotNull ==
  ASSUME LP!LedgerPagesAssumption, LP!TypeOK
  PROVE  /\ \A v \in LP!Version : v # Null
         /\ \A n \in 1..MaxLoads : n # Null
         /\ Len(pageLedger) \in LP!Version
         /\ \A f \in 1..MaxLoads : fetches[f] # Null =>
              fetches[f]..Len(pageLedger) \subseteq LP!Version
<1>1. Len(pageLedger) \in Nat /\ Len(pageLedger) <= MaxEvents /\ MaxEvents \in Nat
  BY DEF LP!TypeOK, LP!LedgerPagesAssumption
<1>2. \A f \in 1..MaxLoads : fetches[f] # Null => fetches[f] \in LP!Version
  BY DEF LP!TypeOK
<1> QED BY <1>1, <1>2 DEF LP!LedgerPagesAssumption, LP!Version

-----------------------------------------------------------------------------
(* Loads.  A tab may be one that a load starts from when its state is typed *)
(* and each fetch it counts is kept.                                        *)

TabIsSound(t) ==
  /\ t = [cache |-> t.cache, fetches |-> t.fetches, starts |-> t.starts, loads |-> t.loads]
  /\ t.cache \in [promise : 1..MaxLoads \cup {Null},
                  result : LP!Version \cup {Null}, error : BOOLEAN]
  /\ t.fetches \in [1..MaxLoads -> LP!Version \cup {Null}]
  /\ t.starts \in 0..1
  /\ t.loads \subseteq LP!Waiting
  /\ t.starts = 1 => \/ t.cache.promise # Null
                     \/ t.cache.result # Null
                     \/ t.cache.error

LEMMA TabsAreSound ==
  ASSUME LP!LedgerPagesAssumption, PagesFlow
  PROVE  TabIsSound(LP!Here) /\ TabIsSound(LP!Cleared) /\ TabIsSound(LP!Left) /\ TabIsSound(LP!NewTab)
<1>1. starts \in 0..1
  BY DEF PagesFlow, LP!TypeOK, LP!SingleFlight
<1>2. TabIsSound(LP!Here) /\ TabIsSound(LP!Left)
  BY <1>1 DEF LP!Here, LP!Left, LP!Tab, TabIsSound, PagesFlow, LP!TypeOK, FetchIsKept
<1>3. TabIsSound(LP!Cleared) /\ TabIsSound(LP!NewTab)
  BY DEF LP!Cleared, LP!NewTab, LP!Tab, LP!NoCache, TabIsSound, PagesFlow, LP!TypeOK
<1> QED BY <1>2, <1>3

\* The load that starts to wait is a load.
LEMMA WaitsIsWaiting ==
  ASSUME LP!LedgerPagesAssumption, LP!TypeOK, started < MaxLoads, NEW force \in BOOLEAN,
         NEW fetch \in 1..MaxLoads \cup {Null}, NEW got \in LP!Version \cup {Null},
         NEW needs \in BOOLEAN
  PROVE  LP!Waits(force, fetch, got, needs) \in LP!Waiting
<1>1. started + 1 \in 1..MaxLoads
  BY DEF LP!TypeOK, LP!LedgerPagesAssumption
<1> QED BY <1>1, VersionsNotNull DEF LP!Waits, LP!Waiting

\* A tab that goes on with a load, and the view it then shows.
LEMMA PagesGoOn ==
  ASSUME LP!LedgerPagesAssumption, PagesFlow, NEW t, TabIsSound(t), NEW more \in SUBSET LP!Waiting,
         LP!Goes(t, more), started' = started + 1, started < MaxLoads, UNCHANGED pageLedger,
         view' \in LP!View,
         t.loads \cup more = {} => ~view'.loading /\ (view'.shown # Null \/ view'.err),
         view'.loading => t.loads \cup more # {}
  PROVE  PagesFlow'
<1>1. cache' = t.cache /\ fetches' = t.fetches /\ starts' = t.starts
      /\ loads' = t.loads \cup more
  BY DEF LP!Goes
<1>2. started' \in 0..MaxLoads
  BY DEF PagesFlow, LP!TypeOK, LP!LedgerPagesAssumption
<1>3. LP!TypeOK'
  BY <1>1, <1>2 DEF PagesFlow, LP!TypeOK, TabIsSound
<1>4. LP!SingleFlight' /\ FetchIsKept'
  BY <1>1 DEF TabIsSound, LP!SingleFlight, FetchIsKept
<1>5. LP!SaysWhatItShows'
  BY <1>1 DEF LP!SaysWhatItShows
<1> QED BY <1>3, <1>4, <1>5 DEF PagesFlow

LEMMA PagesGetKeeps ==
  ASSUME LP!LedgerPagesAssumption, PagesFlow, NEW w \in LP!View, w.loading, NEW t, TabIsSound(t),
         NEW force \in BOOLEAN, NEW needs \in BOOLEAN, LP!Get(w, t, force, needs)
  PROVE  PagesFlow'
<1> DEFINE c == t.cache
           n == started + 1
<1>0. LP!TypeOK
  BY DEF PagesFlow
<1>1. /\ started < MaxLoads /\ started' = n /\ UNCHANGED pageLedger
      /\ n \in 1..MaxLoads /\ n # Null
  <2>1. started < MaxLoads /\ started' = n /\ UNCHANGED pageLedger
    BY DEF LP!Get
  <2>2. n \in 1..MaxLoads
    BY <2>1 DEF PagesFlow, LP!TypeOK, LP!LedgerPagesAssumption
  <2> QED BY <2>1, <2>2, VersionsNotNull DEF PagesFlow
<1>2. /\ \A v \in LP!Version : v # Null
      /\ Len(pageLedger) \in LP!Version
  BY VersionsNotNull DEF PagesFlow
<1>3. CASE /\ c.result # Null /\ ~needs
           /\ LP!Goes(t, {}) /\ view' = LP!ResetPage(LP!Shows(w, c.result, {}))
  <2>1. c.result \in LP!Version
    BY <1>3 DEF TabIsSound
  <2>2. /\ LP!Shows(w, c.result, {}) \in LP!View /\ ~LP!Shows(w, c.result, {}).loading
        /\ LP!Shows(w, c.result, {}).shown = c.result
    <3>1. {} \in SUBSET Item
      OBVIOUS
    <3> QED BY <2>1, <3>1, PagesViews
  <2>3. /\ view' \in LP!View /\ ~view'.loading /\ view'.shown # Null
    BY <1>3, <2>2, PagesReset
  <2> QED BY <1>1, <1>3, <2>3, PagesGoOn
<1>4. CASE /\ c.result # Null /\ needs
           /\ LP!Goes(t, {LP!Waits(force, Null, c.result, TRUE)}) /\ view' = LP!ResetPage(w)
  <2>1. {LP!Waits(force, Null, c.result, TRUE)} \in SUBSET LP!Waiting
    <3>1. c.result \in LP!Version \cup {Null} /\ TRUE \in BOOLEAN
          /\ Null \in 1..MaxLoads \cup {Null}
      BY DEF TabIsSound
    <3>2. LP!Waits(force, Null, c.result, TRUE) \in LP!Waiting
      BY <1>0, <1>1, <3>1, WaitsIsWaiting
    <3> QED BY <3>2
  <2>2. view' \in LP!View
    BY <1>4, PagesReset
  <2> QED BY <1>1, <1>4, <2>1, <2>2, PagesGoOn
<1>5. CASE /\ c.result = Null /\ c.error
           /\ LP!Goes(t, {}) /\ view' = LP!ResetPage(LP!Fails(w))
  <2>1. view' \in LP!View /\ ~view'.loading /\ view'.err
    BY <1>5, PagesViews, PagesReset
  <2> QED BY <1>1, <1>5, <2>1, PagesGoOn
<1>6. CASE /\ c.result = Null /\ ~c.error /\ c.promise # Null
           /\ LP!Goes(t, {LP!Waits(force, c.promise, Null, needs)}) /\ view' = LP!ResetPage(w)
  <2>1. {LP!Waits(force, c.promise, Null, needs)} \in SUBSET LP!Waiting
    <3>1. c.promise \in 1..MaxLoads \cup {Null} /\ Null \in LP!Version \cup {Null}
      BY DEF TabIsSound
    <3>2. LP!Waits(force, c.promise, Null, needs) \in LP!Waiting
      BY <1>0, <1>1, <3>1, WaitsIsWaiting
    <3> QED BY <3>2
  <2>2. view' \in LP!View
    BY <1>6, PagesReset
  <2> QED BY <1>1, <1>6, <2>1, <2>2, PagesGoOn
<1>7. CASE /\ c.result = Null /\ ~c.error /\ c.promise = Null
           /\ LP!Goes(LP!Tab([c EXCEPT !.promise = n], [t.fetches EXCEPT ![n] = Len(pageLedger)],
                       t.starts + 1, t.loads),
                   {LP!Waits(force, n, Null, needs)})
           /\ view' = LP!ResetPage(w)
  <2> DEFINE u == LP!Tab([c EXCEPT !.promise = n], [t.fetches EXCEPT ![n] = Len(pageLedger)],
                      t.starts + 1, t.loads)
  <2>1. t.starts = 0
    BY <1>7 DEF TabIsSound
  <2>2. TabIsSound(u)
    <3>1. /\ u.cache = [t.cache EXCEPT !.promise = n]
          /\ u.fetches = [t.fetches EXCEPT ![n] = Len(pageLedger)]
          /\ u.starts = 1 /\ u.loads = t.loads
          /\ u = [cache |-> u.cache, fetches |-> u.fetches, starts |-> u.starts,
                  loads |-> u.loads]
      BY <2>1 DEF LP!Tab
    <3>2. u.cache \in [promise : 1..MaxLoads \cup {Null},
                       result : LP!Version \cup {Null}, error : BOOLEAN]
          /\ u.cache.promise = n
      BY <1>1, <3>1 DEF TabIsSound
    <3>3. u.fetches \in [1..MaxLoads -> LP!Version \cup {Null}]
      BY <1>1, <1>2, <3>1 DEF TabIsSound
    <3> QED BY <1>1, <3>1, <3>2, <3>3 DEF TabIsSound
  <2>3. {LP!Waits(force, n, Null, needs)} \in SUBSET LP!Waiting
    BY <1>1, WaitsIsWaiting DEF PagesFlow
  <2>4. view' \in LP!View
    BY <1>7, PagesReset
  <2> QED BY <1>1, <1>7, <2>2, <2>3, <2>4, PagesGoOn
<1> QED BY <1>3, <1>4, <1>5, <1>6, <1>7 DEF LP!Get

LEMMA PagesGetItemsKeeps ==
  ASSUME LP!LedgerPagesAssumption, PagesFlow, NEW w \in LP!View, NEW t, TabIsSound(t), LP!GetItems(w, t)
  PROVE  PagesFlow'
<1>1. /\ started < MaxLoads /\ started' = started + 1 /\ UNCHANGED pageLedger
      /\ LP!Goes(t, {LP!Waits(FALSE, Null, 0, TRUE)}) /\ view' = LP!ResetPage(w)
  BY DEF LP!GetItems
<1>2. 0 \in LP!Version
  BY DEF LP!Version, LP!LedgerPagesAssumption
<1>3. {LP!Waits(FALSE, Null, 0, TRUE)} \in SUBSET LP!Waiting
  BY <1>1, <1>2, WaitsIsWaiting DEF PagesFlow
<1>4. view' \in LP!View
  BY <1>1, PagesReset
<1> QED BY <1>1, <1>3, <1>4, PagesGoOn

\* The views a load starts from.
LEMMA BeginsIsView ==
  ASSUME LP!TypeOK
  PROVE  LP!Begins \in LP!View /\ LP!Begins.loading
BY DEF LP!TypeOK, LP!Begins, LP!View

LEMMA PagesLoadKeeps ==
  ASSUME LP!LedgerPagesAssumption, PagesFlow, NEW force \in BOOLEAN, NEW needs \in BOOLEAN,
         LP!Load(force, needs)
  PROVE  PagesFlow'
<1>1. CASE force
  BY <1>1, TabsAreSound, BeginsIsView, PagesGetKeeps DEF LP!Load, PagesFlow
<1>2. CASE ~force
  BY <1>2, TabsAreSound, BeginsIsView, PagesGetKeeps DEF LP!Load, PagesFlow
<1> QED BY <1>1, <1>2

LEMMA PagesOpensKeeps ==
  ASSUME LP!LedgerPagesAssumption, PagesFlow, NEW p \in LP!Page, NEW t, TabIsSound(t), LP!Opens(p, t)
  PROVE  PagesFlow'
<1> DEFINE w == LP!Fresh(p, view.mount + 1, view.focus)
<1>1. w \in LP!View /\ w.loading
  BY DEF LP!Opens, LP!Fresh, LP!View, PagesFlow, LP!TypeOK, LP!LedgerPagesAssumption
<1>2. CASE p \in LP!OfItems
  BY <1>1, <1>2, PagesGetItemsKeeps DEF LP!Opens
<1>3. CASE p \notin LP!OfItems
  <2>1. (p = "reconciliation") \in BOOLEAN
    OBVIOUS
  <2>2. LP!Get(w, t, FALSE, p = "reconciliation")
    BY <1>3 DEF LP!Opens
  <2> HIDE DEF w
  <2> QED BY <1>1, <2>1, <2>2, PagesGetKeeps
<1> QED BY <1>2, <1>3

-----------------------------------------------------------------------------
(* Answers                                                                 *)

\* A fetch that ends leaves no promise, and its result or its error.
LEMMA PagesAnswerKeeps ==
  ASSUME PagesFlow, UNCHANGED <<pageLedger, started, starts>>,
         cache' \in [promise : 1..MaxLoads \cup {Null},
                    result : LP!Version \cup {Null}, error : BOOLEAN],
         cache'.result # Null \/ cache'.error \/ cache' = cache,
         fetches' \in [1..MaxLoads -> LP!Version \cup {Null}],
         loads' \subseteq LP!Waiting, view' \in LP!View,
         LP!SaysWhatItShows'
  PROVE  PagesFlow'
<1>1. LP!TypeOK'
  BY DEF PagesFlow, LP!TypeOK
<1>2. LP!SingleFlight' /\ FetchIsKept'
  BY DEF PagesFlow, LP!SingleFlight, FetchIsKept
<1> QED BY <1>1, <1>2 DEF PagesFlow

LEMMA FetchSucceedsKeeps ==
  ASSUME LP!LedgerPagesAssumption, PagesFlow, NEW f \in 1..MaxLoads, LP!FetchSucceeds(f)
  PROVE  PagesFlow'
<1>0. LP!TypeOK /\ LP!SaysWhatItShows
  BY DEF PagesFlow
<1> DEFINE done == {l \in LP!WaitFor(f) : ~l.needs}
<1>1. PICK v \in fetches[f]..Len(pageLedger) :
        /\ cache' = [cache EXCEPT !.promise = Null, !.result = v]
        /\ loads' = (loads \ LP!WaitFor(f)) \cup
                    {[l EXCEPT !.fetch = Null, !.got = v] : l \in LP!WaitFor(f) \ done}
        /\ view' = IF done = {} THEN view
                   ELSE LP!ResetPage(LP!Shows(view, v, LP!Latest(done).items))
  BY DEF LP!FetchSucceeds
<1>2. fetches[f] # Null /\ fetches' = [fetches EXCEPT ![f] = Null]
      /\ UNCHANGED <<pageLedger, started, starts>>
  BY DEF LP!FetchSucceeds
<1>3. v \in LP!Version /\ v # Null
  BY <1>0, <1>2, VersionsNotNull
<1>4. cache' \in [promise : 1..MaxLoads \cup {Null},
                 result : LP!Version \cup {Null}, error : BOOLEAN] /\ cache'.result # Null
  BY <1>0, <1>1, <1>3 DEF LP!TypeOK
<1>5. fetches' \in [1..MaxLoads -> LP!Version \cup {Null}]
  BY <1>0, <1>2 DEF LP!TypeOK
<1>6. loads' \subseteq LP!Waiting
  <2>1. LP!WaitFor(f) \subseteq LP!Waiting
    BY <1>0 DEF LP!WaitFor, LP!TypeOK
  <2>2. \A l \in LP!Waiting : [l EXCEPT !.fetch = Null, !.got = v] \in LP!Waiting
    BY <1>3 DEF LP!Waiting
  <2> QED BY <1>0, <1>1, <2>1, <2>2 DEF LP!TypeOK
<1>7. CASE done = {}
  <2>1. view' = view /\ view' \in LP!View
    BY <1>0, <1>1, <1>7 DEF LP!TypeOK
  <2>2. ASSUME loads # {} PROVE loads' # {}
    <3>1. PICK l \in loads : TRUE
      BY <2>2
    <3>2. CASE l \in LP!WaitFor(f)
      <4>1. l \in LP!WaitFor(f) \ done
        BY <1>7, <3>2
      <4> HIDE DEF done
      <4>2. [l EXCEPT !.fetch = Null, !.got = v] \in loads'
        BY <1>1, <4>1
      <4> QED BY <4>2
    <3>3. CASE l \notin LP!WaitFor(f)
      BY <1>1, <3>1, <3>3
    <3> QED BY <3>2, <3>3
  <2>3. LP!SaysWhatItShows'
    <3>1. loads = {} => loads' = {}
      BY <1>1 DEF LP!WaitFor
    <3> QED BY <1>0, <2>1, <2>2, <3>1 DEF LP!SaysWhatItShows
  <2> QED BY <1>2, <1>4, <1>5, <1>6, <2>1, <2>3, PagesAnswerKeeps
<1>8. CASE done # {}
  <2>1. LP!Latest(done).items \in SUBSET Item
    <3>1. done \subseteq LP!Waiting
      BY <1>0 DEF LP!WaitFor, LP!TypeOK
    <3>2. LP!Latest(done) \in LP!Waiting
      BY <1>8, <3>1, LatestIsOne
    <3> QED BY <3>2 DEF LP!Waiting
  <2>2. view \in LP!View
    BY <1>0 DEF LP!TypeOK
  <2>3. LET w == LP!Shows(view, v, LP!Latest(done).items)
        IN  w \in LP!View /\ ~w.loading /\ w.shown = v
    BY <1>3, <2>1, <2>2, PagesViews
  <2>4. view' = LP!ResetPage(LP!Shows(view, v, LP!Latest(done).items))
    BY <1>1, <1>8
  <2>5. view' \in LP!View /\ ~view'.loading /\ view'.shown # Null
    BY <1>3, <2>3, <2>4, PagesReset
  <2>6. LP!SaysWhatItShows'
    BY <2>5 DEF LP!SaysWhatItShows
  <2> QED BY <1>2, <1>4, <1>5, <1>6, <2>5, <2>6, PagesAnswerKeeps
<1> QED BY <1>7, <1>8

LEMMA FetchFailsKeeps ==
  ASSUME PagesFlow, NEW f \in 1..MaxLoads, LP!FetchFails(f)
  PROVE  PagesFlow'
<1>0. LP!TypeOK /\ LP!SaysWhatItShows /\ view \in LP!View
  BY DEF PagesFlow, LP!TypeOK
<1>1. /\ cache' = [cache EXCEPT !.promise = Null, !.error = TRUE]
      /\ fetches' = [fetches EXCEPT ![f] = Null]
      /\ loads' = loads \ LP!WaitFor(f)
      /\ view' = IF LP!WaitFor(f) = {} THEN view ELSE LP!ResetPage(LP!Fails(view))
      /\ UNCHANGED <<pageLedger, started, starts>>
  BY DEF LP!FetchFails
<1>2. cache' \in [promise : 1..MaxLoads \cup {Null},
                 result : LP!Version \cup {Null}, error : BOOLEAN] /\ cache'.error
  BY <1>0, <1>1 DEF LP!TypeOK
<1>3. fetches' \in [1..MaxLoads -> LP!Version \cup {Null}] /\ loads' \subseteq LP!Waiting
  BY <1>0, <1>1 DEF LP!TypeOK
<1>4. CASE LP!WaitFor(f) = {}
  <2>1. view' = view /\ loads' = loads
    BY <1>1, <1>4
  <2>2. LP!SaysWhatItShows'
    BY <1>0, <2>1 DEF LP!SaysWhatItShows
  <2> QED BY <1>0, <1>1, <1>2, <1>3, <2>1, <2>2, PagesAnswerKeeps
<1>5. CASE LP!WaitFor(f) # {}
  <2>1. view' \in LP!View /\ ~view'.loading /\ view'.err
    BY <1>0, <1>1, <1>5, PagesViews, PagesReset
  <2>2. LP!SaysWhatItShows'
    BY <2>1 DEF LP!SaysWhatItShows
  <2> QED BY <1>1, <1>2, <1>3, <2>1, <2>2, PagesAnswerKeeps
<1> QED BY <1>4, <1>5

LEMMA ItemsArriveKeeps ==
  ASSUME LP!LedgerPagesAssumption, PagesFlow, NEW l \in loads, LP!ItemsArrive(l)
  PROVE  PagesFlow'
<1>0. LP!TypeOK /\ LP!SaysWhatItShows /\ view \in LP!View /\ l \in LP!Waiting
  BY DEF PagesFlow, LP!TypeOK
<1>1. UNCHANGED <<pageLedger, cache, fetches, started, starts>>
  BY DEF LP!ItemsArrive
<1>2. PICK items \in {Stocked, {}} :
        IF l.got = Null
        THEN /\ loads' = (loads \ {l}) \cup {[l EXCEPT !.needs = FALSE, !.items = items]}
             /\ view' = view
        ELSE /\ loads' = loads \ {l}
             /\ view' = LP!ResetPage(LP!Shows(view, l.got, items))
  BY DEF LP!ItemsArrive
<1>3. items \in SUBSET Item
  BY DEF LP!LedgerPagesAssumption
<1>4. /\ cache' \in [promise : 1..MaxLoads \cup {Null},
                     result : LP!Version \cup {Null}, error : BOOLEAN]
      /\ cache' = cache /\ fetches' \in [1..MaxLoads -> LP!Version \cup {Null}]
  BY <1>0, <1>1 DEF LP!TypeOK
<1>5. CASE l.got = Null
  <2>1. [l EXCEPT !.needs = FALSE, !.items = items] \in LP!Waiting
    BY <1>0, <1>3 DEF LP!Waiting
  <2>2. loads' \subseteq LP!Waiting /\ loads' # {} /\ view' = view
    BY <1>0, <1>2, <1>5, <2>1 DEF LP!TypeOK
  <2>3. LP!SaysWhatItShows'
    BY <2>2 DEF LP!SaysWhatItShows
  <2> QED BY <1>0, <1>1, <1>4, <2>2, <2>3, PagesAnswerKeeps
<1>6. CASE l.got # Null
  <2>1. l.got \in LP!Version
    BY <1>0, <1>6 DEF LP!Waiting
  <2>2. /\ LP!Shows(view, l.got, items) \in LP!View /\ ~LP!Shows(view, l.got, items).loading
        /\ LP!Shows(view, l.got, items).shown = l.got
    BY <1>0, <1>3, <2>1, PagesViews
  <2>3. view' \in LP!View /\ ~view'.loading /\ view'.shown # Null
    BY <1>2, <1>6, <2>2, PagesReset
  <2>4. loads' \subseteq LP!Waiting
    BY <1>0, <1>2, <1>6 DEF LP!TypeOK
  <2>5. LP!SaysWhatItShows'
    BY <2>3 DEF LP!SaysWhatItShows
  <2> QED BY <1>1, <1>4, <2>3, <2>4, <2>5, PagesAnswerKeeps
<1> QED BY <1>5, <1>6

LEMMA ItemsFailKeeps ==
  ASSUME PagesFlow, NEW l \in loads, LP!ItemsFail(l)
  PROVE  PagesFlow'
<1>0. LP!TypeOK /\ view \in LP!View
  BY DEF PagesFlow, LP!TypeOK
<1>1. /\ loads' = loads \ {l} /\ view' = LP!ResetPage(LP!Fails(view))
      /\ UNCHANGED <<pageLedger, cache, fetches, started, starts>>
  BY DEF LP!ItemsFail
<1>2. view' \in LP!View /\ ~view'.loading /\ view'.err
  BY <1>0, <1>1, PagesViews, PagesReset
<1>3. /\ cache' \in [promise : 1..MaxLoads \cup {Null},
                     result : LP!Version \cup {Null}, error : BOOLEAN]
      /\ cache' = cache /\ fetches' \in [1..MaxLoads -> LP!Version \cup {Null}]
      /\ loads' \subseteq LP!Waiting
  BY <1>0, <1>1 DEF LP!TypeOK
<1>4. LP!SaysWhatItShows'
  BY <1>2 DEF LP!SaysWhatItShows
<1> QED BY <1>1, <1>2, <1>3, <1>4, PagesAnswerKeeps

-----------------------------------------------------------------------------
(* The rest                                                                *)

LEMMA PagesGrowKeeps ==
  ASSUME LP!LedgerPagesAssumption, PagesFlow, LP!Grow
  PROVE  PagesFlow'
<1>1. /\ Len(pageLedger) < MaxEvents
      /\ UNCHANGED <<cache, fetches, started, starts, loads, view>>
  BY DEF LP!Grow
<1>2. PICK e \in PageEvent : pageLedger' = Append(pageLedger, e)
  BY DEF LP!Grow
<1>3. pageLedger' \in Seq(PageEvent) /\ Len(pageLedger') <= MaxEvents
  BY <1>1, <1>2 DEF PagesFlow, LP!TypeOK, LP!LedgerPagesAssumption
<1>4. LP!TypeOK'
  BY <1>1, <1>3 DEF PagesFlow, LP!TypeOK
<1>5. LP!SingleFlight' /\ FetchIsKept' /\ LP!SaysWhatItShows'
  BY <1>1 DEF PagesFlow, LP!SingleFlight, FetchIsKept, LP!SaysWhatItShows
<1> QED BY <1>4, <1>5 DEF PagesFlow

\* A view that says and shows the same.
LEMMA PagesLookKeeps ==
  ASSUME PagesFlow, UNCHANGED <<pageLedger, cache, fetches, started, starts, loads>>,
         view' \in LP!View, view'.loading = view.loading, view'.shown = view.shown,
         view'.err = view.err
  PROVE  PagesFlow'
<1>1. LP!TypeOK'
  BY DEF PagesFlow, LP!TypeOK
<1>2. LP!SingleFlight' /\ FetchIsKept' /\ LP!SaysWhatItShows'
  BY DEF PagesFlow, LP!SingleFlight, FetchIsKept, LP!SaysWhatItShows
<1> QED BY <1>1, <1>2 DEF PagesFlow

LEMMA PagesFocusKeeps ==
  ASSUME PagesFlow, LP!Focus
  PROVE  PagesFlow'
<1>0. view \in LP!View
  BY DEF PagesFlow, LP!TypeOK
<1>1. UNCHANGED <<pageLedger, cache, fetches, started, starts, loads>>
  BY DEF LP!Focus
<1>2. PICK i \in Item \cup {Null} :
        view' = IF view.page = "anomalies" THEN LP!ResetPage([view EXCEPT !.focus = i])
                ELSE [[view EXCEPT !.focus = i] EXCEPT !.pageNo = 1]
  BY DEF LP!Focus
<1> DEFINE w == [view EXCEPT !.focus = i]
<1>3. /\ w \in LP!View /\ w.loading = view.loading /\ w.shown = view.shown
      /\ w.err = view.err
  BY <1>0 DEF LP!View
<1>4. CASE view' = LP!ResetPage(w)
  <2> HIDE DEF w
  <2> QED BY <1>1, <1>3, <1>4, PagesReset, PagesLookKeeps
<1>5. CASE view' = [w EXCEPT !.pageNo = 1]
  <2>1. /\ view' \in LP!View /\ view'.loading = view.loading
        /\ view'.shown = view.shown /\ view'.err = view.err
    <3> HIDE DEF w
    <3> QED BY <1>3, <1>5 DEF LP!View
  <2> QED BY <1>1, <2>1, PagesLookKeeps
<1> QED BY <1>2, <1>4, <1>5

LEMMA TurnPageKeeps ==
  ASSUME PagesFlow, LP!TurnPage
  PROVE  PagesFlow'
<1>0. view \in LP!View
  BY DEF PagesFlow, LP!TypeOK
<1>1. UNCHANGED <<pageLedger, cache, fetches, started, starts, loads>>
  BY DEF LP!TurnPage
<1>2. PICK n \in {view.pageNo - 1, view.pageNo + 1} \cap 1..LP!PageCount(view) :
        view' = [view EXCEPT !.pageNo = n]
  BY DEF LP!TurnPage
<1>3. n \in Nat \ {0}
  BY <1>0, <1>2 DEF LP!View
<1>4. /\ view' \in LP!View /\ view'.loading = view.loading
      /\ view'.shown = view.shown /\ view'.err = view.err
  BY <1>0, <1>2, <1>3 DEF LP!View
<1> QED BY <1>1, <1>4, PagesLookKeeps

\* The tab has just been loaded and shows the snapshot.
LEMMA PagesStart ==
  ASSUME LP!LedgerPagesAssumption, LP!Init
  PROVE  PagesFlow
<1>1. 1 \in 1..MaxLoads /\ 1 \in 1..MaxMounts /\ 0 \in LP!Version /\ 1 # Null
  BY DEF LP!LedgerPagesAssumption, LP!Version
<1>2. view \in LP!View /\ view.loading
  BY <1>1 DEF LP!Init, LP!Fresh, LP!View, LP!Page, LP!OfLedger
<1>3. loads \subseteq LP!Waiting /\ loads # {}
  BY <1>1 DEF LP!Init, LP!Waiting
<1>4. /\ cache \in [promise : 1..MaxLoads \cup {Null},
                    result : LP!Version \cup {Null}, error : BOOLEAN]
      /\ cache.promise # Null
      /\ fetches \in [1..MaxLoads -> LP!Version \cup {Null}]
  BY <1>1 DEF LP!Init, LP!NoCache
<1>5. LP!TypeOK
  BY <1>1, <1>2, <1>3, <1>4 DEF LP!Init, LP!TypeOK, LP!LedgerPagesAssumption
<1>6. LP!SingleFlight /\ FetchIsKept /\ LP!SaysWhatItShows
  BY <1>3, <1>4 DEF LP!Init, LP!SingleFlight, FetchIsKept, LP!SaysWhatItShows
<1> QED BY <1>5, <1>6 DEF PagesFlow

-----------------------------------------------------------------------------
\* What is shown, cached and awaited is there, and a forced load waits for a fetch
\* that began no earlier.
Truthful(t) ==
  /\ t.cache.result # Null => t.cache.result <= Len(pageLedger)
  /\ \A f \in 1..MaxLoads : t.fetches[f] # Null => t.fetches[f] <= Len(pageLedger)
  /\ \A l \in t.loads :
       /\ l.got # Null => l.got <= Len(pageLedger)
       /\ IsFiniteSet(l.items)
       /\ l.force => /\ l.fetch \in 1..MaxLoads /\ l.fetch <= started /\ ~l.needs
                     /\ t.fetches[l.fetch] # Null /\ l.pressed <= t.fetches[l.fetch]

\* A view of rows that are there.
Viewable(w) ==
  /\ w \in LP!View /\ IsFiniteSet(w.items)
  /\ w.shown # Null => w.shown <= Len(pageLedger)

PagesTruth == Truthful(LP!Here) /\ Viewable(view) /\ LP!PageInRange

-----------------------------------------------------------------------------
(* The rows a page turns over                                              *)

\* The pages' sets are counted as any other.
LEMMA SameCount ==
  ASSUME NEW S
  PROVE  LP!Cardinality(S) = Cardinality(S) /\ (LP!IsFiniteSet(S) <=> IsFiniteSet(S))
<1>1. LP!Cardinality(S) = Cardinality(S)
  BY DEF LP!Cardinality, Cardinality
<1>2. LP!IsFiniteSet(S) <=> IsFiniteSet(S)
  BY DEF LP!IsFiniteSet, IsFiniteSet
<1> QED BY <1>1, <1>2

\* The items that have a total are those of some of the events.
LEMMA SnapshotRowsFinite ==
  ASSUME NEW v \in Nat
  PROVE  IsFiniteSet(LP!SnapshotRows(v))
<1> DEFINE K == {k \in 1..v : pageLedger[k].itemId \in Item \cup {Blank}
                              /\ pageLedger[k].qtyDelta # Null}
           T == {pageLedger[k].itemId : k \in K}
           g == [k \in K |-> pageLedger[k].itemId]
<1>1. IsFiniteSet(K)
  <2>1. IsFiniteSet(1..v)
    BY FS_Interval
  <2> QED BY <2>1, FS_Subset
<1>2. g \in Surjection(K, T)
  BY DEF Surjection
<1>3. IsFiniteSet(T)
  <2> HIDE DEF K, T, g
  <2> QED BY <1>1, <1>2, FS_Surjection
<1>4. LP!SnapshotRows(v) \subseteq T
  BY DEF LP!SnapshotRows, LP!Counted
<1> HIDE DEF K, T, g
<1> QED BY <1>3, <1>4, FS_Subset

LEMMA RowsAreFinite ==
  ASSUME LP!LedgerPagesAssumption, NEW w, Viewable(w)
  PROVE  IsFiniteSet(LP!Rows(w)) /\ LP!PageCount(w) \in Nat \ {0}
<1>1. PICK v : v = IF w.shown = Null THEN 0 ELSE w.shown
  OBVIOUS
<1>2. v \in Nat
  BY <1>1 DEF Viewable, LP!View, LP!Version, LP!LedgerPagesAssumption
<1>3. IsFiniteSet(1..v) /\ IsFiniteSet(LP!SnapshotRows(v)) /\ IsFiniteSet(w.items)
  BY <1>2, SnapshotRowsFinite, FS_Interval DEF Viewable
<1>4. LP!Rows(w) \subseteq 1..v \cup LP!SnapshotRows(v) \cup w.items
  BY <1>1 DEF LP!Rows, LP!NegativeDelta, LP!Focussed
<1>5. IsFiniteSet(LP!Rows(w))
  <2>1. IsFiniteSet(1..v \cup LP!SnapshotRows(v) \cup w.items)
    BY <1>3, FS_Union
  <2> QED BY <1>4, <2>1, FS_Subset
<1>6. PICK n : n = (Cardinality(LP!Rows(w)) + PageSize - 1) \div PageSize
  OBVIOUS
<1>7. n \in Int
  <2>1. Cardinality(LP!Rows(w)) \in Nat
    BY <1>5, FS_CardinalityType
  <2> QED BY <1>6, <2>1 DEF LP!LedgerPagesAssumption
<1>8. LP!PageCount(w) = CHOOSE x \in {1, n} : \A y \in {1, n} : x >= y
  <2>1. LP!PageCount(w) = LP!Max({1, n})
    BY <1>6, SameCount DEF LP!PageCount
  <2> QED BY <2>1 DEF LP!Max
<1>9. LP!PageCount(w) \in {1, n} /\ \A y \in {1, n} : LP!PageCount(w) >= y
  <2>1. \E x \in {1, n} : \A y \in {1, n} : x >= y
    BY <1>7
  <2> QED BY <1>8, <2>1
<1> QED BY <1>5, <1>7, <1>9

\* An appended event changes no version that is there already.
LEMMA VersionsStay ==
  ASSUME LP!LedgerPagesAssumption, NEW w, Viewable(w),
         \A k \in 1..Len(pageLedger) : pageLedger'[k] = pageLedger[k],
         Len(pageLedger) \in Nat, view' = w
  PROVE  LP!PageCount(view)' = LP!PageCount(w)
<1>1. PICK v : v = IF w.shown = Null THEN 0 ELSE w.shown
  OBVIOUS
<1>2. v \in 0..Len(pageLedger)
  BY <1>1 DEF Viewable, LP!View, LP!Version, LP!LedgerPagesAssumption
<1>3. \A k \in 1..v : pageLedger'[k] = pageLedger[k]
  BY <1>2
<1>4. \A i : LP!Counted(v, i)' = LP!Counted(v, i)
  BY <1>2, <1>3 DEF LP!Counted
<1>5. LP!SnapshotRows(v)' = LP!SnapshotRows(v)
  BY <1>4 DEF LP!SnapshotRows
<1>6. \A i : LP!Focussed(v, i)' = LP!Focussed(v, i)
  BY <1>2, <1>3 DEF LP!Focussed
<1>7. LP!NegativeDelta(v)' = LP!NegativeDelta(v)
  BY <1>2, <1>3 DEF LP!NegativeDelta, LP!MissingQtyDelta
<1>8. LP!Rows(view)' = LP!Rows(w)
  BY <1>1, <1>5, <1>6, <1>7 DEF LP!Rows
<1> QED BY <1>8 DEF LP!PageCount
-----------------------------------------------------------------------------
(* Steps                                                                   *)

\* What the ways a load goes on leave of a view.
LEMMA ViewsStay ==
  ASSUME NEW w \in LP!View
  PROVE  /\ LP!ResetPage(w).items = w.items /\ LP!ResetPage(w).mount = w.mount
         /\ LP!ResetPage(w).shown = w.shown
         /\ LP!Fails(w).items = {} /\ LP!Fails(w).mount = w.mount
         /\ LP!Fails(w).pageNo = w.pageNo /\ LP!Fails(w).shown = Null
         /\ \A v, items : /\ LP!Shows(w, v, items).items = items
                          /\ LP!Shows(w, v, items).mount = w.mount
                          /\ LP!Shows(w, v, items).pageNo = w.pageNo
                          /\ LP!Shows(w, v, items).shown = v
<1>1. LP!ResetPage(w) \in {w, [w EXCEPT !.pageNo = 1]}
  BY DEF LP!ResetPage
<1> QED BY <1>1 DEF LP!View, LP!Fails, LP!Shows

\* A view on a page of the last one is put on one of its own.
LEMMA ResetIsInRange ==
  ASSUME LP!LedgerPagesAssumption, LP!TypeOK, PagesTruth, NEW w, Viewable(w),
         w.pageNo \in {1, view.pageNo}
  PROVE  /\ Viewable(LP!ResetPage(w))
         /\ LP!ResetPage(w).pageNo \in 1..LP!PageCount(LP!ResetPage(w))
<1>1. PICK u : u = LP!ResetPage(w)
  OBVIOUS
<1>2. /\ u \in LP!View /\ u.items = w.items /\ u.shown = w.shown /\ u.focus = w.focus
      /\ u.page = w.page
      /\ \/ u.pageNo = 1
         \/ u.pageNo = view.pageNo
            /\ Cardinality(LP!Rows(w)) = Cardinality(LP!Rows(view))
  <2>1. w \in LP!View
    BY DEF Viewable
  <2>2. CASE Cardinality(LP!Rows(w)) # Cardinality(LP!Rows(view))
    <3>1. u = [w EXCEPT !.pageNo = 1]
      BY <1>1, <2>2, SameCount DEF LP!ResetPage
    <3> QED BY <2>1, <3>1 DEF LP!View
  <2>3. CASE Cardinality(LP!Rows(w)) = Cardinality(LP!Rows(view))
    <3>1. u = w
      BY <1>1, <2>3, SameCount DEF LP!ResetPage
    <3> QED BY <2>1, <2>3, <3>1 DEF LP!View
  <2> QED BY <2>2, <2>3
<1>3. Viewable(u) /\ Viewable(view)
  BY <1>2 DEF Viewable, PagesTruth
<1>4. LP!Rows(u) = LP!Rows(w)
  BY <1>2 DEF LP!Rows
<1>5. LP!PageCount(u) \in Nat \ {0} /\ LP!PageCount(view) \in Nat \ {0}
  BY <1>3, RowsAreFinite
<1>6. CASE u.pageNo = 1
  BY <1>1, <1>3, <1>5, <1>6
<1>7. CASE u.pageNo = view.pageNo
            /\ Cardinality(LP!Rows(w)) = Cardinality(LP!Rows(view))
  <2>1. LP!PageCount(u) = LP!PageCount(view)
    <3>1. LP!Cardinality(LP!Rows(u)) = LP!Cardinality(LP!Rows(view))
      BY <1>4, <1>7, SameCount
    <3> QED BY <3>1 DEF LP!PageCount
  <2> QED BY <1>1, <1>3, <1>7, <2>1 DEF PagesTruth, LP!PageInRange
<1> QED BY <1>2, <1>6, <1>7

\* The step shows such a view.
LEMMA ViewIsTrue ==
  ASSUME LP!LedgerPagesAssumption, LP!TypeOK, PagesTruth, NEW w, Viewable(w),
         w.pageNo \in {1, view.pageNo}, UNCHANGED pageLedger, view' = LP!ResetPage(w)
  PROVE  Viewable(view)' /\ LP!PageInRange'
<1>1. PICK u : u = LP!ResetPage(w)
  OBVIOUS
<1>2. Viewable(u) /\ u.pageNo \in 1..LP!PageCount(u) /\ view' = u
  BY <1>1, ResetIsInRange
<1>3. Len(pageLedger) \in Nat
  BY DEF LP!TypeOK
<1>4. LP!PageCount(view)' = LP!PageCount(u)
  BY <1>2, <1>3, VersionsStay
<1> QED BY <1>2, <1>4 DEF Viewable, LP!PageInRange

\* A load that is added to those of a tab: it shows what is there, and waits,
\* when forced, for a fetch that began no earlier.
Joins(t, l) ==
  /\ l.got # Null => l.got <= Len(pageLedger)
  /\ IsFiniteSet(l.items)
  /\ l.force => /\ l.fetch \in 1..MaxLoads /\ l.fetch <= started + 1 /\ ~l.needs
                /\ t.fetches[l.fetch] # Null /\ l.pressed <= t.fetches[l.fetch]

LEMMA LoadIsTrue ==
  ASSUME LP!LedgerPagesAssumption, LP!TypeOK, PagesTruth, NEW t, Truthful(t),
         NEW more, LP!Goes(t, more), \A l \in more : Joins(t, l),
         started' = started + 1, UNCHANGED pageLedger,
         NEW w, Viewable(w), w.pageNo \in {1, view.pageNo}, view' = LP!ResetPage(w)
  PROVE  PagesTruth' /\ t.loads \subseteq loads' /\ view'.mount = w.mount
<1>1. Viewable(view)' /\ LP!PageInRange'
  BY ViewIsTrue
<1>2. cache' = t.cache /\ fetches' = t.fetches /\ loads' = t.loads \cup more
  BY DEF LP!Goes
<1>3. Truthful(LP!Here)'
  <2>1. started \in Nat /\ started <= started'
    BY DEF LP!TypeOK, LP!LedgerPagesAssumption
  <2>2. ASSUME NEW l \in t.loads, l.force
        PROVE  l.fetch \in 1..MaxLoads /\ l.fetch <= started'
    BY <2>1, <2>2 DEF Truthful, LP!LedgerPagesAssumption
  <2>3. LP!Here' = [cache |-> cache', fetches |-> fetches', starts |-> starts',
                    loads |-> loads']
    BY DEF LP!Here, LP!Tab
  <2> QED BY <1>2, <2>2, <2>3 DEF Truthful, Joins
<1>4. view'.mount = w.mount
  BY ViewsStay DEF Viewable
<1> QED BY <1>1, <1>2, <1>3, <1>4 DEF PagesTruth

LEMMA TabsAreTrue ==
  ASSUME LP!LedgerPagesAssumption, PagesTruth
  PROVE  Truthful(LP!Here) /\ Truthful(LP!Cleared) /\ Truthful(LP!Left) /\ Truthful(LP!NewTab)
<1>1. LP!Here = [cache |-> cache, fetches |-> fetches, starts |-> starts, loads |-> loads]
  BY DEF LP!Here, LP!Tab
<1>2. Truthful(LP!Here)
  BY DEF PagesTruth
<1>3. Truthful(LP!Left)
  BY <1>1, <1>2 DEF Truthful, LP!Left, LP!Tab
<1>4. Truthful(LP!Cleared)
  BY <1>1, <1>2 DEF Truthful, LP!Cleared, LP!Tab, LP!NoCache
<1>5. Truthful(LP!NewTab)
  BY DEF Truthful, LP!NewTab, LP!Tab, LP!NoCache
<1> QED BY <1>2, <1>3, <1>4, <1>5

\* What a load asks a tab for.  A forced load finds the cache empty.
LEMMA GetIsTrue ==
  ASSUME LP!LedgerPagesAssumption, PagesFlow, PagesTruth, NEW t, TabIsSound(t), Truthful(t),
         NEW force \in BOOLEAN, NEW needs \in BOOLEAN,
         force => ~needs /\ t.cache = LP!NoCache,
         NEW w, Viewable(w), w.pageNo \in {1, view.pageNo}, LP!Get(w, t, force, needs)
  PROVE  PagesTruth' /\ t.loads \subseteq loads' /\ view'.mount = w.mount
<1> DEFINE c == t.cache
           n == started + 1
<1>0. LP!TypeOK /\ Len(pageLedger) \in Nat /\ started \in Nat
  BY DEF PagesFlow, LP!TypeOK, LP!LedgerPagesAssumption
<1>1. started < MaxLoads /\ started' = started + 1 /\ UNCHANGED pageLedger
  BY DEF LP!Get
<1>2. IsFiniteSet({}) /\ Len(pageLedger) # Null /\ w \in LP!View
  BY <1>0, FS_EmptySet DEF Viewable, LP!LedgerPagesAssumption
<1>3. ~(force /\ c.result # Null) /\ ~(force /\ c.error) /\ ~(force /\ c.promise # Null)
  BY DEF LP!NoCache
<1>4. CASE /\ c.result # Null /\ ~needs
           /\ LP!Goes(t, {}) /\ view' = LP!ResetPage(LP!Shows(w, c.result, {}))
  <2>1. c.result \in LP!Version /\ c.result <= Len(pageLedger)
    BY <1>4 DEF TabIsSound, Truthful
  <2>2. PICK u : u = LP!Shows(w, c.result, {})
    OBVIOUS
  <2>3. Viewable(u) /\ u.pageNo \in {1, view.pageNo} /\ u.mount = w.mount
    <3>1. {} \in SUBSET Item
      OBVIOUS
    <3>2. u \in LP!View
      BY <1>2, <2>1, <2>2, <3>1, PagesViews
    <3> QED BY <1>2, <2>1, <2>2, <3>2, ViewsStay DEF Viewable
  <2> QED BY <1>0, <1>1, <1>4, <2>2, <2>3, LoadIsTrue
<1>5. CASE /\ c.result # Null /\ needs
           /\ LP!Goes(t, {LP!Waits(force, Null, c.result, TRUE)}) /\ view' = LP!ResetPage(w)
  <2>1. Joins(t, LP!Waits(force, Null, c.result, TRUE))
    BY <1>2, <1>3, <1>5 DEF LP!Waits, Joins, Truthful
  <2>2. PICK more : more = {LP!Waits(force, Null, c.result, TRUE)}
    OBVIOUS
  <2>3. /\ \A l \in more : Joins(t, l)
        /\ LP!Goes(t, more) /\ view' = LP!ResetPage(w)
    BY <1>5, <2>1, <2>2
  <2> QED BY <1>0, <1>1, <2>3, LoadIsTrue
<1>6. CASE /\ c.result = Null /\ c.error
           /\ LP!Goes(t, {}) /\ view' = LP!ResetPage(LP!Fails(w))
  <2>1. PICK u : u = LP!Fails(w)
    OBVIOUS
  <2>2. Viewable(u) /\ u.pageNo \in {1, view.pageNo} /\ u.mount = w.mount
    BY <1>2, <2>1, ViewsStay, PagesViews DEF Viewable
  <2> QED BY <1>0, <1>1, <1>6, <2>1, <2>2, LoadIsTrue
<1>7. CASE /\ c.result = Null /\ ~c.error /\ c.promise # Null
           /\ LP!Goes(t, {LP!Waits(force, c.promise, Null, needs)}) /\ view' = LP!ResetPage(w)
  <2>1. Joins(t, LP!Waits(force, c.promise, Null, needs))
    BY <1>2, <1>3, <1>7 DEF LP!Waits, Joins
  <2> QED BY <1>0, <1>1, <1>7, <2>1, LoadIsTrue
<1>8. CASE /\ c.result = Null /\ ~c.error /\ c.promise = Null
           /\ LP!Goes(LP!Tab([c EXCEPT !.promise = n],
                             [t.fetches EXCEPT ![n] = Len(pageLedger)], t.starts + 1, t.loads),
                      {LP!Waits(force, n, Null, needs)})
           /\ view' = LP!ResetPage(w)
  <2>1. PICK u : u = LP!Tab([c EXCEPT !.promise = n],
                            [t.fetches EXCEPT ![n] = Len(pageLedger)], t.starts + 1, t.loads)
    OBVIOUS
  <2>2. /\ u.cache = [c EXCEPT !.promise = n] /\ u.loads = t.loads
        /\ u.fetches = [t.fetches EXCEPT ![n] = Len(pageLedger)]
    BY <2>1 DEF LP!Tab
  <2>3. n \in 1..MaxLoads /\ t.fetches \in [1..MaxLoads -> LP!Version \cup {Null}]
    BY <1>0, <1>1 DEF TabIsSound, LP!LedgerPagesAssumption
  <2>4. u.cache.result = c.result
    BY <2>2 DEF TabIsSound
  <2>5. Truthful(u)
    <3>1. \A f \in 1..MaxLoads : u.fetches[f] # Null => u.fetches[f] <= Len(pageLedger)
      BY <1>0, <2>2, <2>3 DEF Truthful
    <3>2. ASSUME NEW l \in t.loads, l.force
          PROVE  u.fetches[l.fetch] = t.fetches[l.fetch]
      BY <1>0, <2>2, <2>3, <3>2 DEF Truthful
    <3> QED BY <2>2, <2>4, <3>1, <3>2 DEF Truthful
  <2>6. Joins(u, LP!Waits(force, n, Null, needs))
    <3>1. u.fetches[n] = Len(pageLedger)
      BY <2>2, <2>3
    <3>2. PICK l : l = LP!Waits(force, n, Null, needs)
      OBVIOUS
    <3>3. /\ l.force = force /\ l.fetch = n /\ l.got = Null /\ l.needs = needs
          /\ l.pressed = Len(pageLedger) /\ l.items = {}
      BY <3>2 DEF LP!Waits
    <3>4. l.fetch \in 1..MaxLoads /\ l.fetch <= started + 1
      BY <1>0, <2>3, <3>3
    <3>5. u.fetches[l.fetch] # Null /\ l.pressed <= u.fetches[l.fetch]
      BY <1>0, <1>2, <3>1, <3>3
    <3> HIDE DEF n
    <3> QED BY <1>2, <3>2, <3>3, <3>4, <3>5 DEF Joins
  <2>7. LP!Goes(u, {LP!Waits(force, n, Null, needs)})
    BY <1>8, <2>1
  <2> HIDE DEF n, c
  <2> QED BY <1>0, <1>1, <1>8, <2>2, <2>5, <2>6, <2>7, LoadIsTrue
<1> QED BY <1>4, <1>5, <1>6, <1>7, <1>8 DEF LP!Get

\* A load whose button was pressed shows no less than there was then.
ForcedSees ==
  \A l \in loads :
    (l.force /\ l \notin loads' /\ view'.mount = view.mount /\ view'.shown # Null)
      => view'.shown >= l.pressed

LEMMA BeginsIsViewable ==
  ASSUME PagesTruth
  PROVE  Viewable(LP!Begins) /\ LP!Begins.pageNo = view.pageNo
BY DEF PagesTruth, Viewable, LP!Begins, LP!View

LEMMA LoadTells ==
  ASSUME LP!LedgerPagesAssumption, PagesFlow, PagesTruth, NEW force \in BOOLEAN,
         NEW needs \in BOOLEAN, force => ~needs, LP!Load(force, needs)
  PROVE  PagesTruth' /\ ForcedSees
<1>1. PICK t : t = IF force THEN LP!Cleared ELSE LP!Here
  OBVIOUS
<1>2. TabIsSound(t) /\ Truthful(t) /\ t.loads = loads
  <2>1. LP!Cleared.loads = loads /\ LP!Here.loads = loads
    BY DEF LP!Cleared, LP!Here, LP!Tab
  <2> QED BY <1>1, <2>1, TabsAreSound, TabsAreTrue
<1>3. force => ~needs /\ t.cache = LP!NoCache
  BY <1>1 DEF LP!Cleared, LP!Tab
<1>4. PICK w : w = LP!Begins
  OBVIOUS
<1>5. Viewable(w) /\ w.pageNo \in {1, view.pageNo} /\ LP!Get(w, t, force, needs)
  BY <1>1, <1>4, BeginsIsViewable DEF LP!Load
<1>6. PagesTruth' /\ t.loads \subseteq loads'
  BY <1>2, <1>3, <1>5, GetIsTrue
<1> QED BY <1>2, <1>6 DEF ForcedSees

LEMMA GetItemsTells ==
  ASSUME LP!LedgerPagesAssumption, PagesFlow, PagesTruth, NEW t, Truthful(t),
         NEW w, Viewable(w), w.pageNo \in {1, view.pageNo}, LP!GetItems(w, t)
  PROVE  PagesTruth' /\ t.loads \subseteq loads' /\ view'.mount = w.mount
<1>1. /\ started' = started + 1 /\ UNCHANGED pageLedger /\ view' = LP!ResetPage(w)
      /\ LP!Goes(t, {LP!Waits(FALSE, Null, 0, TRUE)})
  BY DEF LP!GetItems
<1>2. PICK l : l = LP!Waits(FALSE, Null, 0, TRUE)
  OBVIOUS
<1>3. l.got = 0 /\ ~l.force /\ l.items = {}
  BY <1>2 DEF LP!Waits
<1>4. Joins(t, l)
  BY <1>3, FS_EmptySet DEF Joins, PagesFlow, LP!TypeOK
<1>5. PICK more : more = {l}
  OBVIOUS
<1>6. LP!Goes(t, more) /\ \A k \in more : Joins(t, k)
  BY <1>1, <1>2, <1>4, <1>5
<1> QED BY <1>1, <1>6, LoadIsTrue DEF PagesFlow

LEMMA OpensTells ==
  ASSUME LP!LedgerPagesAssumption, PagesFlow, PagesTruth, NEW p \in LP!Page, NEW t,
         TabIsSound(t), Truthful(t), LP!Opens(p, t)
  PROVE  PagesTruth' /\ ForcedSees
<1>1. PICK w : w = LP!Fresh(p, view.mount + 1, view.focus)
  OBVIOUS
<1>2. view \in LP!View /\ view.mount < MaxMounts
  BY DEF PagesFlow, LP!TypeOK, LP!Opens
<1>3. Viewable(w) /\ w.pageNo = 1 /\ w.mount # view.mount
  <2>1. w \in LP!View
    BY <1>1, <1>2 DEF LP!Fresh, LP!View, LP!LedgerPagesAssumption
  <2>2. w.items = {} /\ w.shown = Null /\ w.pageNo = 1 /\ w.mount = view.mount + 1
    BY <1>1 DEF LP!Fresh
  <2>3. view.mount \in Int
    BY <1>2 DEF LP!View
  <2> QED BY <2>1, <2>2, <2>3, FS_EmptySet DEF Viewable
<1>4. PagesTruth' /\ view'.mount = w.mount
  <2>1. CASE p \in LP!OfItems
    <3>1. LP!GetItems(w, t)
      BY <1>1, <2>1 DEF LP!Opens
    <3> QED BY <1>3, <3>1, GetItemsTells
  <2>2. CASE p \notin LP!OfItems
    <3>1. PICK needs \in BOOLEAN : needs = (p = "reconciliation")
      OBVIOUS
    <3>2. LP!Get(w, t, FALSE, needs)
      BY <1>1, <2>2, <3>1 DEF LP!Opens
    <3> QED BY <1>3, <3>2, GetIsTrue
  <2> QED BY <2>1, <2>2
<1> QED BY <1>3, <1>4 DEF ForcedSees

\* The view stays, while the ledger stays or grows.
LEMMA ViewStaysTrue ==
  ASSUME LP!LedgerPagesAssumption, LP!TypeOK, PagesTruth, view' = view,
         \A k \in 1..Len(pageLedger) : pageLedger'[k] = pageLedger[k],
         Len(pageLedger') \in Nat, Len(pageLedger') >= Len(pageLedger)
  PROVE  Viewable(view)' /\ LP!PageInRange'
<1>1. PICK w : w = view
  OBVIOUS
<1>2. Viewable(w) /\ w.pageNo \in 1..LP!PageCount(w)
  BY <1>1 DEF PagesTruth, LP!PageInRange
<1>3. Len(pageLedger) \in Nat
  BY DEF LP!TypeOK
<1>4. LP!PageCount(view)' = LP!PageCount(w)
  BY <1>1, <1>2, <1>3, VersionsStay
<1>5. w.shown # Null => w.shown \in Nat
  BY <1>2 DEF Viewable, LP!View, LP!Version, LP!LedgerPagesAssumption
<1> QED BY <1>1, <1>2, <1>3, <1>4, <1>5 DEF Viewable, LP!PageInRange

LEMMA HereIsTrue ==
  ASSUME PagesTruth
  PROVE  /\ cache.result # Null => cache.result <= Len(pageLedger)
         /\ \A f \in 1..MaxLoads : fetches[f] # Null => fetches[f] <= Len(pageLedger)
         /\ \A l \in loads :
              /\ l.got # Null => l.got <= Len(pageLedger)
              /\ IsFiniteSet(l.items)
              /\ l.force => /\ l.fetch \in 1..MaxLoads /\ l.fetch <= started /\ ~l.needs
                            /\ fetches[l.fetch] # Null /\ l.pressed <= fetches[l.fetch]
<1>1. LP!Here = [cache |-> cache, fetches |-> fetches, starts |-> starts, loads |-> loads]
  BY DEF LP!Here, LP!Tab
<1> QED BY <1>1 DEF PagesTruth, Truthful

\* The same is left by the step.
LEMMA LeavesTrue ==
  ASSUME UNCHANGED <<pageLedger, started>>,
         cache'.result # Null => cache'.result <= Len(pageLedger),
         \A f \in 1..MaxLoads : fetches'[f] # Null => fetches'[f] <= Len(pageLedger),
         \A l \in loads' :
           /\ l.got # Null => l.got <= Len(pageLedger)
           /\ IsFiniteSet(l.items)
           /\ l.force => /\ l.fetch \in 1..MaxLoads /\ l.fetch <= started /\ ~l.needs
                         /\ fetches'[l.fetch] # Null /\ l.pressed <= fetches'[l.fetch],
         Viewable(view)', LP!PageInRange'
  PROVE  PagesTruth'
<1>1. LP!Here' = [cache |-> cache', fetches |-> fetches', starts |-> starts', loads |-> loads']
  BY DEF LP!Here, LP!Tab
<1> QED BY <1>1 DEF PagesTruth, Truthful

LEMMA FetchSucceedsTells ==
  ASSUME LP!LedgerPagesAssumption, PagesFlow, PagesTruth, NEW f \in 1..MaxLoads,
         LP!FetchSucceeds(f)
  PROVE  PagesTruth' /\ ForcedSees
<1>0. LP!TypeOK /\ Len(pageLedger) \in Nat /\ loads \subseteq LP!Waiting
  BY DEF PagesFlow, LP!TypeOK
<1>1. PICK done : done = {l \in LP!WaitFor(f) : ~l.needs}
  OBVIOUS
<1>2. PICK v \in fetches[f]..Len(pageLedger) :
        /\ cache' = [cache EXCEPT !.promise = Null, !.result = v]
        /\ loads' = (loads \ LP!WaitFor(f)) \cup
                    {[l EXCEPT !.fetch = Null, !.got = v] : l \in LP!WaitFor(f) \ done}
        /\ view' = IF done = {} THEN view
                   ELSE LP!ResetPage(LP!Shows(view, v, LP!Latest(done).items))
  BY <1>1 DEF LP!FetchSucceeds
<1>3. fetches[f] # Null /\ fetches' = [fetches EXCEPT ![f] = Null]
      /\ UNCHANGED <<pageLedger, started, starts>>
  BY DEF LP!FetchSucceeds
<1>4. /\ v \in LP!Version /\ v # Null /\ v \in Nat /\ v <= Len(pageLedger)
      /\ fetches[f] \in Nat /\ v >= fetches[f]
  <2>1. fetches[f] \in LP!Version
    BY <1>0, <1>3 DEF LP!TypeOK
  <2>2. v \in LP!Version /\ v # Null
    BY <1>0, <1>3, VersionsNotNull
  <2> QED BY <1>0, <2>1, <2>2 DEF LP!Version, LP!LedgerPagesAssumption
<1>5. cache'.result = v
  BY <1>0, <1>2 DEF LP!TypeOK
<1>6. /\ \A g \in 1..MaxLoads : fetches'[g] # Null => fetches'[g] = fetches[g]
      /\ \A g \in 1..MaxLoads : g # f => fetches'[g] = fetches[g]
  BY <1>0, <1>3 DEF LP!TypeOK
<1>7. ASSUME NEW l \in loads'
      PROVE  /\ l.got # Null => l.got <= Len(pageLedger)
             /\ IsFiniteSet(l.items)
             /\ l.force => /\ l.fetch \in 1..MaxLoads /\ l.fetch <= started /\ ~l.needs
                           /\ fetches'[l.fetch] # Null /\ l.pressed <= fetches'[l.fetch]
  <2>1. CASE l \in loads \ LP!WaitFor(f)
    BY <1>6, <2>1, HereIsTrue DEF LP!WaitFor
  <2>2. CASE l \notin loads \ LP!WaitFor(f)
    <3>1. PICK k \in LP!WaitFor(f) \ done : l = [k EXCEPT !.fetch = Null, !.got = v]
      BY <1>2, <2>2
    <3>2. k \in loads /\ k.needs /\ k \in LP!Waiting
      BY <1>0, <1>1, <3>1 DEF LP!WaitFor
    <3>3. l.got = v /\ l.items = k.items /\ l.force = k.force
      BY <3>1, <3>2 DEF LP!Waiting
    <3> QED BY <1>4, <3>2, <3>3, HereIsTrue
  <2> QED BY <2>1, <2>2
<1>8. Viewable(view)' /\ LP!PageInRange' /\ (done # {} => view'.shown = v)
  <2>1. CASE done = {}
    <3>1. pageLedger' = pageLedger /\ view' = view
      BY <1>2, <1>3, <2>1
    <3>2. /\ Len(pageLedger') \in Nat /\ Len(pageLedger') >= Len(pageLedger)
          /\ \A k \in 1..Len(pageLedger) : pageLedger'[k] = pageLedger[k]
      BY <1>0, <3>1
    <3> QED BY <1>0, <2>1, <3>1, <3>2, ViewStaysTrue
  <2>2. CASE done # {}
    <3>1. PICK l : l = LP!Latest(done)
      OBVIOUS
    <3>2. l \in done
      BY <1>0, <1>1, <2>2, <3>1, LatestIsOne DEF LP!WaitFor
    <3>3. l \in LP!Waiting /\ l \in loads
      BY <1>0, <1>1, <3>2 DEF LP!WaitFor
    <3>4. PICK w : w = LP!Shows(view, v, l.items)
      OBVIOUS
    <3>5. view \in LP!View /\ l.items \in SUBSET Item /\ IsFiniteSet(l.items)
      BY <1>0, <3>3, HereIsTrue DEF LP!TypeOK, LP!Waiting
    <3>6. /\ w \in LP!View /\ w.shown = v /\ w.items = l.items
          /\ w.pageNo = view.pageNo
      BY <1>4, <3>4, <3>5, PagesViews, ViewsStay
    <3>7. Viewable(w)
      BY <1>4, <3>5, <3>6 DEF Viewable
    <3>8. view' = LP!ResetPage(w)
      BY <1>2, <2>2, <3>1, <3>4
    <3> QED BY <1>0, <1>3, <3>6, <3>7, <3>8, ViewIsTrue, ViewsStay
  <2> QED BY <2>1, <2>2
<1>9. PagesTruth'
  BY <1>3, <1>4, <1>5, <1>6, <1>7, <1>8, HereIsTrue, LeavesTrue
<1>10. ForcedSees
  <2> SUFFICES ASSUME NEW l \in loads, l.force, l \notin loads'
               PROVE  view'.shown >= l.pressed
    BY DEF ForcedSees
  <2>1. l \in LP!WaitFor(f)
    BY <1>2
  <2>2. l.fetch = f /\ ~l.needs /\ l.pressed <= fetches[f] /\ l.pressed \in Nat
    <3>1. l.pressed \in LP!Version
      BY <1>0 DEF LP!Waiting
    <3> QED BY <2>1, <3>1, HereIsTrue DEF LP!WaitFor, LP!Version, LP!LedgerPagesAssumption
  <2>3. l \in done
    BY <1>1, <2>1, <2>2
  <2> QED BY <1>4, <1>8, <2>2, <2>3
<1> QED BY <1>9, <1>10

LEMMA FetchFailsTells ==
  ASSUME LP!LedgerPagesAssumption, PagesFlow, PagesTruth, NEW f \in 1..MaxLoads,
         LP!FetchFails(f)
  PROVE  PagesTruth' /\ ForcedSees
<1>0. LP!TypeOK /\ Len(pageLedger) \in Nat /\ view \in LP!View
  BY DEF PagesFlow, LP!TypeOK
<1>1. /\ cache' = [cache EXCEPT !.promise = Null, !.error = TRUE]
      /\ fetches' = [fetches EXCEPT ![f] = Null]
      /\ loads' = loads \ LP!WaitFor(f)
      /\ view' = IF LP!WaitFor(f) = {} THEN view ELSE LP!ResetPage(LP!Fails(view))
      /\ UNCHANGED <<pageLedger, started, starts>>
  BY DEF LP!FetchFails
<1>2. cache'.result = cache.result
  BY <1>0, <1>1 DEF LP!TypeOK
<1>3. /\ \A g \in 1..MaxLoads : fetches'[g] # Null => fetches'[g] = fetches[g]
      /\ \A g \in 1..MaxLoads : g # f => fetches'[g] = fetches[g]
  BY <1>0, <1>1 DEF LP!TypeOK
<1>4. \A l \in loads' : l \in loads /\ l.fetch # f
  BY <1>1 DEF LP!WaitFor
<1>5. Viewable(view)' /\ LP!PageInRange' /\ (LP!WaitFor(f) # {} => view'.shown = Null)
  <2>1. CASE LP!WaitFor(f) = {}
    <3>1. pageLedger' = pageLedger /\ view' = view
      BY <1>1, <2>1
    <3>2. /\ Len(pageLedger') \in Nat /\ Len(pageLedger') >= Len(pageLedger)
          /\ \A k \in 1..Len(pageLedger) : pageLedger'[k] = pageLedger[k]
      BY <1>0, <3>1
    <3> QED BY <1>0, <2>1, <3>1, <3>2, ViewStaysTrue
  <2>2. CASE LP!WaitFor(f) # {}
    <3>1. PICK w : w = LP!Fails(view)
      OBVIOUS
    <3>2. Viewable(w) /\ w.pageNo = view.pageNo /\ w.shown = Null
      BY <1>0, <3>1, PagesViews, ViewsStay, FS_EmptySet DEF Viewable
    <3>3. view' = LP!ResetPage(w)
      BY <1>1, <2>2, <3>1
    <3>4. view'.shown = Null
      BY <3>2, <3>3, ViewsStay DEF Viewable
    <3> QED BY <1>0, <1>1, <3>2, <3>3, <3>4, ViewIsTrue
  <2> QED BY <2>1, <2>2
<1>6. PagesTruth'
  BY <1>1, <1>2, <1>3, <1>4, <1>5, HereIsTrue, LeavesTrue
<1>7. ForcedSees
  BY <1>1, <1>5 DEF ForcedSees
<1> QED BY <1>6, <1>7

LEMMA ItemsArriveTells ==
  ASSUME LP!LedgerPagesAssumption, PagesFlow, PagesTruth, NEW l \in loads,
         LP!ItemsArrive(l)
  PROVE  PagesTruth' /\ ForcedSees
<1>0. /\ LP!TypeOK /\ Len(pageLedger) \in Nat /\ view \in LP!View
      /\ l \in LP!Waiting /\ l.needs
  BY DEF PagesFlow, LP!TypeOK, LP!ItemsArrive
<1>1. UNCHANGED <<pageLedger, cache, fetches, started, starts>>
  BY DEF LP!ItemsArrive
<1>2. PICK items \in {Stocked, {}} :
        IF l.got = Null
        THEN /\ loads' = (loads \ {l}) \cup {[l EXCEPT !.needs = FALSE, !.items = items]}
             /\ view' = view
        ELSE /\ loads' = loads \ {l}
             /\ view' = LP!ResetPage(LP!Shows(view, l.got, items))
  BY DEF LP!ItemsArrive
<1>3. items \in SUBSET Item /\ IsFiniteSet(items)
  <2>1. IsFiniteSet(Stocked) /\ IsFiniteSet({})
    BY SameCount, FS_EmptySet DEF LP!LedgerPagesAssumption
  <2> QED BY <2>1 DEF LP!LedgerPagesAssumption
<1>4. ~l.force
  BY <1>0, HereIsTrue
<1>5. /\ ForcedSees
      /\ \A k \in loads' :
           /\ k.got # Null => k.got <= Len(pageLedger)
           /\ IsFiniteSet(k.items)
           /\ k.force => /\ k.fetch \in 1..MaxLoads /\ k.fetch <= started /\ ~k.needs
                         /\ fetches'[k.fetch] # Null /\ k.pressed <= fetches'[k.fetch]
  <2>1. ForcedSees
    BY <1>2, <1>4 DEF ForcedSees
  <2>2. \A k \in loads' : k \in loads \/ (l.got = Null
                                          /\ k = [l EXCEPT !.needs = FALSE, !.items = items])
    BY <1>2
  <2>3. ASSUME NEW k, k = [l EXCEPT !.needs = FALSE, !.items = items]
        PROVE  k.got = l.got /\ k.items = items /\ k.force = l.force
    BY <1>0, <2>3 DEF LP!Waiting
  <2> QED BY <1>1, <1>3, <1>4, <2>1, <2>2, <2>3, HereIsTrue
<1>6. Viewable(view)' /\ LP!PageInRange'
  <2>1. CASE l.got = Null
    <3>1. pageLedger' = pageLedger /\ view' = view
      BY <1>1, <1>2, <2>1
    <3>2. /\ Len(pageLedger') \in Nat /\ Len(pageLedger') >= Len(pageLedger)
          /\ \A k \in 1..Len(pageLedger) : pageLedger'[k] = pageLedger[k]
      BY <1>0, <3>1
    <3> QED BY <1>0, <3>1, <3>2, ViewStaysTrue
  <2>2. CASE l.got # Null
    <3>1. PICK w : w = LP!Shows(view, l.got, items)
      OBVIOUS
    <3>2. l.got \in LP!Version
      BY <1>0, <2>2 DEF LP!Waiting
    <3>3. Viewable(w) /\ w.pageNo = view.pageNo
      BY <1>0, <1>3, <3>1, <3>2, PagesViews, ViewsStay, HereIsTrue DEF Viewable
    <3>4. view' = LP!ResetPage(w)
      BY <1>2, <2>2, <3>1
    <3> QED BY <1>0, <1>1, <3>3, <3>4, ViewIsTrue
  <2> QED BY <2>1, <2>2
<1>7. PagesTruth'
  BY <1>1, <1>5, <1>6, HereIsTrue, LeavesTrue
<1> QED BY <1>5, <1>7

LEMMA ItemsFailTells ==
  ASSUME LP!LedgerPagesAssumption, PagesFlow, PagesTruth, NEW l \in loads, LP!ItemsFail(l)
  PROVE  PagesTruth' /\ ForcedSees
<1>0. LP!TypeOK /\ view \in LP!View
  BY DEF PagesFlow, LP!TypeOK
<1>1. /\ l.needs /\ loads' = loads \ {l} /\ view' = LP!ResetPage(LP!Fails(view))
      /\ UNCHANGED <<pageLedger, cache, fetches, started, starts>>
  BY DEF LP!ItemsFail
<1>2. PICK w : w = LP!Fails(view)
  OBVIOUS
<1>3. Viewable(w) /\ w.pageNo = view.pageNo
  BY <1>0, <1>2, PagesViews, ViewsStay, FS_EmptySet DEF Viewable
<1>4. Viewable(view)' /\ LP!PageInRange'
  BY <1>0, <1>1, <1>2, <1>3, ViewIsTrue
<1>5. PagesTruth'
  BY <1>1, <1>4, HereIsTrue, LeavesTrue
<1>6. ForcedSees
  BY <1>1, HereIsTrue DEF ForcedSees
<1> QED BY <1>5, <1>6

LEMMA PagesGrowTells ==
  ASSUME LP!LedgerPagesAssumption, PagesFlow, PagesTruth, LP!Grow
  PROVE  PagesTruth' /\ ForcedSees
<1>1. UNCHANGED <<cache, fetches, started, starts, loads, view>>
  BY DEF LP!Grow
<1>2. PICK e \in PageEvent : pageLedger' = Append(pageLedger, e)
  BY DEF LP!Grow
<1>3. LP!TypeOK /\ pageLedger \in Seq(PageEvent)
  BY DEF PagesFlow, LP!TypeOK
<1>4. /\ Len(pageLedger) \in Nat /\ Len(pageLedger') = Len(pageLedger) + 1
      /\ \A k \in 1..Len(pageLedger) : pageLedger'[k] = pageLedger[k]
  BY <1>2, <1>3
<1>5. Viewable(view)' /\ LP!PageInRange'
  BY <1>1, <1>3, <1>4, ViewStaysTrue
<1>6. Truthful(LP!Here)'
  <2>1. LP!Here' = LP!Here
    BY <1>1 DEF LP!Here, LP!Tab
  <2>2. LP!Here = [cache |-> cache, fetches |-> fetches, starts |-> starts, loads |-> loads]
    BY DEF LP!Here, LP!Tab
  <2>3. /\ cache.result # Null => cache.result \in Int
        /\ \A f \in 1..MaxLoads : fetches[f] # Null => fetches[f] \in Int
        /\ \A l \in loads : l.got # Null => l.got \in Int
    BY <1>3 DEF LP!TypeOK, LP!Version, LP!Waiting
  <2> QED BY <1>1, <1>4, <2>1, <2>2, <2>3 DEF PagesTruth, Truthful
<1>7. ForcedSees
  BY <1>1 DEF ForcedSees
<1> QED BY <1>5, <1>6, <1>7 DEF PagesTruth

LEMMA FocusTells ==
  ASSUME LP!LedgerPagesAssumption, PagesFlow, PagesTruth, LP!Focus
  PROVE  PagesTruth' /\ ForcedSees
<1>0. LP!TypeOK /\ view \in LP!View /\ Viewable(view) /\ Len(pageLedger) \in Nat
  BY DEF PagesFlow, LP!TypeOK, PagesTruth
<1>1. UNCHANGED <<pageLedger, cache, fetches, started, starts, loads>>
  BY DEF LP!Focus
<1>2. PICK i \in Item \cup {Null} :
        view' = IF view.page = "anomalies" THEN LP!ResetPage([view EXCEPT !.focus = i])
                ELSE [[view EXCEPT !.focus = i] EXCEPT !.pageNo = 1]
  BY DEF LP!Focus
<1>3. PICK w : w = [view EXCEPT !.focus = i]
  OBVIOUS
<1>4. Viewable(w) /\ w.pageNo = view.pageNo
  BY <1>0, <1>3 DEF Viewable, LP!View
<1>5. Viewable(view)' /\ LP!PageInRange'
  <2>1. CASE view' = LP!ResetPage(w)
    BY <1>0, <1>1, <1>4, <2>1, ViewIsTrue
  <2>2. CASE view' = [w EXCEPT !.pageNo = 1]
    <3>1. PICK u : u = [w EXCEPT !.pageNo = 1]
      OBVIOUS
    <3>2. Viewable(u) /\ u.pageNo = 1
      BY <1>4, <3>1 DEF Viewable, LP!View
    <3>3. LP!PageCount(view)' = LP!PageCount(u)
      <4>1. \A k \in 1..Len(pageLedger) : pageLedger'[k] = pageLedger[k]
        BY <1>1
      <4> QED BY <1>0, <2>2, <3>1, <3>2, <4>1, VersionsStay
    <3>4. LP!PageCount(u) \in Nat \ {0}
      BY <3>2, RowsAreFinite
    <3> QED BY <1>1, <2>2, <3>1, <3>2, <3>3, <3>4 DEF Viewable, LP!PageInRange
  <2> QED BY <1>2, <1>3, <2>1, <2>2
<1>6. PagesTruth'
  BY <1>1, <1>5, HereIsTrue, LeavesTrue
<1>7. ForcedSees
  BY <1>1 DEF ForcedSees
<1> QED BY <1>6, <1>7

LEMMA TurnPageTells ==
  ASSUME LP!LedgerPagesAssumption, PagesFlow, PagesTruth, LP!TurnPage
  PROVE  PagesTruth' /\ ForcedSees
<1>0. LP!TypeOK /\ view \in LP!View /\ Viewable(view) /\ Len(pageLedger) \in Nat
  BY DEF PagesFlow, LP!TypeOK, PagesTruth
<1>1. UNCHANGED <<pageLedger, cache, fetches, started, starts, loads>>
  BY DEF LP!TurnPage
<1>2. PICK n \in {view.pageNo - 1, view.pageNo + 1} \cap 1..LP!PageCount(view) :
        view' = [view EXCEPT !.pageNo = n]
  BY DEF LP!TurnPage
<1>3. PICK w : w = [view EXCEPT !.pageNo = n]
  OBVIOUS
<1>4. /\ Viewable(w) /\ w.pageNo = n /\ n \in 1..LP!PageCount(view)
      /\ w.page = view.page /\ w.shown = view.shown /\ w.focus = view.focus
      /\ w.items = view.items
  <2>1. n \in Nat \ {0}
    BY <1>0, <1>2 DEF LP!View
  <2> QED BY <1>0, <1>2, <1>3, <2>1 DEF Viewable, LP!View
<1>5. LP!PageCount(w) = LP!PageCount(view)
  <2>1. LP!Rows(w) = LP!Rows(view)
    BY <1>4 DEF LP!Rows
  <2> QED BY <2>1 DEF LP!PageCount
<1>6. LP!PageCount(view)' = LP!PageCount(w)
  <2>1. \A k \in 1..Len(pageLedger) : pageLedger'[k] = pageLedger[k]
    BY <1>1
  <2> QED BY <1>0, <1>2, <1>3, <1>4, <2>1, VersionsStay
<1>7. Viewable(view)' /\ LP!PageInRange'
  BY <1>1, <1>2, <1>3, <1>4, <1>5, <1>6 DEF Viewable, LP!PageInRange
<1>8. PagesTruth'
  BY <1>1, <1>7, HereIsTrue, LeavesTrue
<1>9. ForcedSees
  BY <1>1 DEF ForcedSees
<1> QED BY <1>8, <1>9

-----------------------------------------------------------------------------
(* What the pages make of the same events                                  *)

LEMMA SumOfNone == LP!Sum({}) = 0
<1>1. PICK g : g = [k \in {} |-> pageLedger[k].qtyDelta]
  OBVIOUS
<1>2. DOMAIN g = {}
  BY <1>1
<1>3. LP!Sum({}) = Total(g, {})
  BY <1>1, <1>2 DEF LP!Sum, LP!FoldFunction, LP!FoldFunctionOnSet, Total, FoldFunctionOnSet,
                    LP!MapThenFoldSet, MapThenFoldSet
<1> QED BY <1>3, TotalOfNone

\* The sets of events the totals of an item are sums over are one set.
LEMMA CountedAlike ==
  ASSUME LP!LedgerPagesAssumption, NEW v, NEW i \in Item
  PROVE  /\ {k \in LP!Focussed(v, i) : pageLedger[k].qtyDelta # Null} = LP!Counted(v, i)
         /\ {k \in 1..v \ LP!MissingQtyDelta(v) : pageLedger[k].itemId = i} = LP!Counted(v, i)
<1>1. i # Null
  BY DEF LP!LedgerPagesAssumption
<1>2. {k \in LP!Focussed(v, i) : pageLedger[k].qtyDelta # Null} = LP!Counted(v, i)
  BY <1>1 DEF LP!Focussed, LP!Counted
<1>3. {k \in 1..v \ LP!MissingQtyDelta(v) : pageLedger[k].itemId = i} = LP!Counted(v, i)
  BY DEF LP!MissingQtyDelta, LP!Counted
<1> QED BY <1>2, <1>3

\* The snapshot counts an event, or skips it for one of two reasons.
LEMMA CountedOnce ==
  ASSUME LP!LedgerPagesAssumption, LP!TypeOK, NEW v \in 0..Len(pageLedger)
  PROVE  Cardinality(LP!SkippedId(v)) + Cardinality(LP!SkippedQty(v)) +
           Cardinality(UNION {LP!Counted(v, i) : i \in LP!SnapshotRows(v)}) = v
<1>1. PICK A : A = LP!SkippedId(v)
  OBVIOUS
<1>2. PICK B : B = LP!SkippedQty(v)
  OBVIOUS
<1>3. PICK C : C = UNION {LP!Counted(v, i) : i \in LP!SnapshotRows(v)}
  OBVIOUS
<1>4. C = {k \in 1..v : pageLedger[k].itemId # Null /\ pageLedger[k].qtyDelta # Null}
  <2>1. ASSUME NEW k \in 1..v
        PROVE  pageLedger[k].itemId # Null => pageLedger[k].itemId \in Item \cup {Blank}
    <3>1. k \in 1..Len(pageLedger) /\ pageLedger \in Seq(PageEvent)
      BY DEF LP!TypeOK
    <3>2. pageLedger[k] \in PageEvent
      BY <3>1
    <3> QED BY <3>2 DEF LP!LedgerPagesAssumption
  <2>2. ASSUME NEW k \in C
        PROVE  k \in 1..v /\ pageLedger[k].itemId # Null /\ pageLedger[k].qtyDelta # Null
    <3>1. PICK i \in LP!SnapshotRows(v) : k \in LP!Counted(v, i)
      BY <1>3
    <3>2. i # Null
      BY <3>1 DEF LP!SnapshotRows, LP!LedgerPagesAssumption
    <3> QED BY <3>1, <3>2 DEF LP!Counted
  <2>3. ASSUME NEW k \in 1..v, pageLedger[k].itemId # Null, pageLedger[k].qtyDelta # Null
        PROVE  k \in C
    <3>1. PICK i \in Item \cup {Blank} : i = pageLedger[k].itemId
      BY <2>1, <2>3
    <3>2. k \in LP!Counted(v, i)
      BY <2>3, <3>1 DEF LP!Counted
    <3>3. i \in LP!SnapshotRows(v)
      BY <3>2 DEF LP!SnapshotRows
    <3> QED BY <1>3, <3>2, <3>3
  <2> QED BY <2>2, <2>3
<1>5. /\ A = {k \in 1..v : pageLedger[k].itemId = Null}
      /\ B = {k \in 1..v : pageLedger[k].itemId # Null /\ pageLedger[k].qtyDelta = Null}
  BY <1>1, <1>2 DEF LP!SkippedId, LP!SkippedQty
<1>6. IsFiniteSet(1..v) /\ Cardinality(1..v) = v
  BY FS_Interval DEF LP!TypeOK
<1>7. IsFiniteSet(A) /\ IsFiniteSet(B) /\ IsFiniteSet(C)
  <2>1. A \subseteq 1..v /\ B \subseteq 1..v /\ C \subseteq 1..v
    BY <1>4, <1>5
  <2> QED BY <1>6, <2>1, FS_Subset
<1>8. Cardinality(A \cup B) = Cardinality(A) + Cardinality(B) /\ IsFiniteSet(A \cup B)
  <2>1. A \cap B = {}
    BY <1>5
  <2>2. Cardinality(A \cap B) = 0
    BY <2>1, FS_EmptySet
  <2>3. /\ IsFiniteSet(A \cup B)
        /\ Cardinality(A \cup B)
             = Cardinality(A) + Cardinality(B) - Cardinality(A \cap B)
    BY <1>7, FS_Union
  <2>4. Cardinality(A) \in Nat /\ Cardinality(B) \in Nat
    BY <1>7, FS_CardinalityType
  <2> QED BY <2>2, <2>3, <2>4
<1>9. Cardinality((A \cup B) \cup C) = Cardinality(A \cup B) + Cardinality(C)
  <2>1. (A \cup B) \cap C = {}
    BY <1>4, <1>5
  <2>2. PICK D : D = A \cup B
    OBVIOUS
  <2>3. IsFiniteSet(D) /\ IsFiniteSet(C) /\ Cardinality(D \cap C) = 0
    BY <1>7, <1>8, <2>1, <2>2, FS_EmptySet
  <2>4. Cardinality(D \cup C) = Cardinality(D) + Cardinality(C) - Cardinality(D \cap C)
    BY <2>3, FS_Union
  <2>5. Cardinality(D) \in Nat /\ Cardinality(C) \in Nat
    BY <2>3, FS_CardinalityType
  <2> QED BY <2>2, <2>3, <2>4, <2>5
<1>10. (A \cup B) \cup C = 1..v
  BY <1>4, <1>5
<1> QED BY <1>1, <1>2, <1>3, <1>6, <1>8, <1>9, <1>10

LEMMA TotalsAgree ==
  ASSUME LP!LedgerPagesAssumption, LP!TypeOK
  PROVE  LP!PagesAgree
<1> SUFFICES ASSUME NEW v \in 0..Len(pageLedger)
             PROVE  /\ \A i \in Item :
                         /\ LP!SnapshotTotal(v, i) = LP!ItemTotal(v, i)
                         /\ LP!LedgerQty(v, i) = LP!ItemTotal(v, i)
                         /\ i \in LP!NegativeTotals(v) <=>
                              i \in LP!SnapshotRows(v) /\ LP!SnapshotTotal(v, i) < 0
                    /\ LP!Cardinality(LP!SkippedId(v)) + LP!Cardinality(LP!SkippedQty(v)) +
                         LP!Cardinality(UNION {LP!Counted(v, i) : i \in LP!SnapshotRows(v)}) = v
  BY DEF LP!PagesAgree
<1>1. ASSUME NEW i \in Item
      PROVE  /\ LP!SnapshotTotal(v, i) = LP!ItemTotal(v, i)
             /\ LP!LedgerQty(v, i) = LP!ItemTotal(v, i)
             /\ i \in LP!NegativeTotals(v) <=>
                  i \in LP!SnapshotRows(v) /\ LP!SnapshotTotal(v, i) < 0
  <2>1. LP!SnapshotTotal(v, i) = LP!ItemTotal(v, i)
    BY CountedAlike DEF LP!SnapshotTotal, LP!ItemTotal
  <2>2. i \in LP!SnapshotRows(v) <=> LP!Counted(v, i) # {}
    BY DEF LP!SnapshotRows
  <2>3. LP!Counted(v, i) = {} => LP!SnapshotTotal(v, i) = 0
    BY SumOfNone DEF LP!SnapshotTotal
  <2>4. i \in LP!NegativeTotals(v) <=> LP!SnapshotTotal(v, i) < 0
    BY CountedAlike DEF LP!NegativeTotals, LP!SnapshotTotal
  <2>5. LP!LedgerQty(v, i) = LP!ItemTotal(v, i)
    BY <2>1, <2>2, <2>3 DEF LP!LedgerQty
  <2> QED BY <2>1, <2>2, <2>3, <2>4, <2>5
<1>2. LP!Cardinality(LP!SkippedId(v)) + LP!Cardinality(LP!SkippedQty(v)) +
        LP!Cardinality(UNION {LP!Counted(v, i) : i \in LP!SnapshotRows(v)}) = v
  BY CountedOnce, SameCount
<1> QED BY <1>1, <1>2

-----------------------------------------------------------------------------
(* The pages                                                               *)

PagesIInv == PagesFlow /\ PagesTruth

\* The tab has just been loaded.
LEMMA PagesStarts == LP!Init => PagesIInv
<1> SUFFICES ASSUME LP!Init PROVE PagesIInv
  OBVIOUS
<1>0. LP!LedgerPagesAssumption
  BY ServicesAssumption
<1>1. PagesFlow
  BY <1>0, PagesStart
<1>2. /\ pageLedger = << >> /\ cache = [LP!NoCache EXCEPT !.promise = 1]
      /\ fetches = [f \in 1..MaxLoads |-> IF f = 1 THEN 0 ELSE Null]
      /\ started = 1 /\ view = LP!Fresh("snapshot", 1, Null)
      /\ loads = {[id |-> 1, force |-> FALSE, pressed |-> 0, fetch |-> 1,
                   got |-> Null, needs |-> FALSE, items |-> {}]}
  BY DEF LP!Init
<1>3. IsFiniteSet({})
  BY FS_EmptySet
<1>4. Truthful(LP!Here)
  <2>1. LP!Here = [cache |-> cache, fetches |-> fetches, starts |-> starts, loads |-> loads]
    BY DEF LP!Here, LP!Tab
  <2>2. cache.result = Null /\ Len(pageLedger) = 0
    BY <1>2 DEF LP!NoCache
  <2>3. \A f \in 1..MaxLoads : fetches[f] # Null => fetches[f] <= Len(pageLedger)
    BY <1>2, <2>2
  <2>4. \A l \in loads : l.got = Null /\ ~l.force /\ l.items = {}
    BY <1>2
  <2> QED BY <1>3, <2>1, <2>2, <2>3, <2>4 DEF Truthful
<1>5. Viewable(view) /\ view.pageNo = 1
  <2>1. view.items = {} /\ view.shown = Null /\ view.pageNo = 1
    BY <1>2 DEF LP!Fresh
  <2> QED BY <1>1, <1>3, <2>1 DEF Viewable, PagesFlow, LP!TypeOK
<1>6. LP!PageInRange
  <2>1. LP!PageCount(view) \in Nat \ {0}
    BY <1>0, <1>5, RowsAreFinite
  <2> QED BY <1>5, <2>1 DEF LP!PageInRange
<1> QED BY <1>1, <1>4, <1>5, <1>6 DEF PagesIInv, PagesTruth

LEMMA PagesKeep == PagesIInv /\ [LP!Next]_pageVars => PagesIInv' /\ ForcedSees
<1> SUFFICES ASSUME PagesIInv, [LP!Next]_pageVars PROVE PagesIInv' /\ ForcedSees
  OBVIOUS
<1>0. LP!LedgerPagesAssumption /\ PagesFlow /\ PagesTruth /\ LP!TypeOK
  BY ServicesAssumption DEF PagesIInv, PagesFlow
<1>1. CASE UNCHANGED pageVars
  <2>1. UNCHANGED <<pageLedger, cache, fetches, started, starts, loads, view>>
    BY <1>1 DEF pageVars
  <2>2. PagesFlow'
    BY <1>0, <2>1, PagesLookKeeps DEF LP!TypeOK
  <2>3. Viewable(view)' /\ LP!PageInRange'
    <3>1. /\ Len(pageLedger') \in Nat /\ Len(pageLedger') >= Len(pageLedger)
          /\ \A k \in 1..Len(pageLedger) : pageLedger'[k] = pageLedger[k]
      BY <1>0, <2>1 DEF LP!TypeOK
    <3> QED BY <1>0, <2>1, <3>1, ViewStaysTrue
  <2>4. PagesTruth'
    BY <1>0, <2>1, <2>3, HereIsTrue, LeavesTrue
  <2> QED BY <2>1, <2>2, <2>4 DEF PagesIInv, ForcedSees
<1>2. CASE LP!Answer
  BY <1>0, <1>2, FetchSucceedsKeeps, FetchFailsKeeps, ItemsArriveKeeps, ItemsFailKeeps,
     FetchSucceedsTells, FetchFailsTells, ItemsArriveTells, ItemsFailTells
     DEF LP!Answer, PagesIInv
<1>3. CASE \E force \in BOOLEAN :
             LP!LoadSnapshot(force) \/ LP!LoadAnomalies(force) \/ LP!LoadMovements(force)
               \/ LP!LoadItem(force)
  <2>1. PICK force \in BOOLEAN : LP!Load(force, FALSE)
    BY <1>3 DEF LP!LoadSnapshot, LP!LoadAnomalies, LP!LoadMovements, LP!LoadItem
  <2> QED BY <1>0, <2>1, PagesLoadKeeps, LoadTells DEF PagesIInv
<1>4. CASE LP!LoadReconciliation
  <2>1. LP!Load(FALSE, TRUE)
    BY <1>4 DEF LP!LoadReconciliation
  <2> QED BY <1>0, <2>1, PagesLoadKeeps, LoadTells DEF PagesIInv
<1>5. CASE LP!LoadSummary \/ LP!LoadItems
  <2>1. PICK w : w = LP!Begins
    OBVIOUS
  <2>2. PICK t : t = LP!Here
    OBVIOUS
  <2>3. /\ LP!GetItems(w, t) /\ w \in LP!View /\ TabIsSound(t) /\ Truthful(t)
        /\ Viewable(w) /\ w.pageNo \in {1, view.pageNo} /\ t.loads = loads
    BY <1>0, <1>5, <2>1, <2>2, BeginsIsView, BeginsIsViewable, TabsAreSound, TabsAreTrue
       DEF LP!LoadSummary, LP!LoadItems, LP!Here, LP!Tab
  <2>4. PagesFlow'
    BY <1>0, <2>3, PagesGetItemsKeeps
  <2>5. PagesTruth' /\ loads \subseteq loads'
    BY <1>0, <2>3, GetItemsTells
  <2> QED BY <2>4, <2>5 DEF PagesIInv, ForcedSees
<1>6. CASE \E p \in LP!Page : LP!Navigate(p)
  BY <1>0, <1>6, TabsAreSound, TabsAreTrue, PagesOpensKeeps, OpensTells
     DEF LP!Navigate, PagesIInv
<1>7. CASE LP!HardRefresh
  <2>1. view.page \in LP!Page
    BY <1>0 DEF LP!TypeOK, LP!View
  <2> QED BY <1>0, <1>7, <2>1, TabsAreSound, TabsAreTrue, PagesOpensKeeps, OpensTells
          DEF LP!HardRefresh, PagesIInv
<1>8. CASE LP!Grow \/ LP!Focus \/ LP!TurnPage
  BY <1>0, <1>8, PagesGrowKeeps, PagesFocusKeeps, TurnPageKeeps, PagesGrowTells,
     FocusTells, TurnPageTells DEF PagesIInv
<1> QED BY <1>1, <1>2, <1>3, <1>4, <1>5, <1>6, <1>7, <1>8 DEF LP!Next

LEMMA PagesSound == PagesIInv => LP!TypeOK /\ PagesTellTheTruth
BY ServicesAssumption, TotalsAgree
   DEF PagesIInv, PagesFlow, PagesTruth, PagesTellTheTruth

-----------------------------------------------------------------------------
-----------------------------------------------------------------------------
(* The reports (Reports)                                                   *)

\* The reports' sets are counted as any other.
LEMMA SameReportCount ==
  ASSUME NEW S
  PROVE  RP!Cardinality(S) = Cardinality(S)
BY DEF RP!Cardinality, Cardinality

\* A set that is the image of a finite one is finite.
LEMMA ImageIsFinite ==
  ASSUME NEW K, IsFiniteSet(K), NEW g, NEW T, T = {g[x] : x \in K}
  PROVE  IsFiniteSet(T)
<1>1. PICK h : h = [x \in K |-> g[x]]
  OBVIOUS
<1>2. h \in Surjection(K, T)
  BY <1>1 DEF Surjection
<1> QED BY <1>2, FS_Surjection

\* The lines of the ledger's events are finitely many.
LEMMA LinesAreFinite ==
  ASSUME RP!ReportsAssumption, RP!TypeOK, NEW K, K \subseteq DOMAIN reportLedger
  PROVE  IsFiniteSet(RP!Lines(K))
<1>1. reportLedger \in Seq(ReportEvent) /\ DOMAIN reportLedger = 1..Len(reportLedger)
      /\ Len(reportLedger) \in Nat
  BY DEF RP!TypeOK
<1>2. IsFiniteSet(K)
  <2>1. IsFiniteSet(1..Len(reportLedger))
    BY <1>1, FS_Interval
  <2> QED BY <1>1, <2>1, FS_Subset
<1>3. PICK g : g = [k \in K |-> {<<k, j>> : j \in {j \in DOMAIN reportLedger[k].lines :
                                          reportLedger[k].lines[j].item # Null}}]
  OBVIOUS
<1>4. ASSUME NEW k \in K PROVE IsFiniteSet(g[k])
  <2>1. PICK J : J = {j \in DOMAIN reportLedger[k].lines :
                        reportLedger[k].lines[j].item # Null}
    OBVIOUS
  <2>2. reportLedger[k].lines \in Seq(RP!Line)
    BY <1>1 DEF RP!ReportsAssumption
  <2>3. /\ J \subseteq 1..Len(reportLedger[k].lines)
        /\ Len(reportLedger[k].lines) \in Nat
    BY <2>1, <2>2
  <2>4. IsFiniteSet(J)
    <3>1. IsFiniteSet(1..Len(reportLedger[k].lines))
      BY <2>3, FS_Interval
    <3> QED BY <2>3, <3>1, FS_Subset
  <2>5. PICK h : h = [j \in J |-> <<k, j>>]
    OBVIOUS
  <2>6. g[k] = {h[j] : j \in J}
    BY <1>3, <2>1, <2>5
  <2> QED BY <2>4, <2>6, ImageIsFinite
<1>5. PICK T : T = {g[k] : k \in K}
  OBVIOUS
<1>6. IsFiniteSet(T) /\ \A S \in T : IsFiniteSet(S)
  BY <1>2, <1>4, <1>5, ImageIsFinite
<1>7. RP!Lines(K) = UNION T
  BY <1>3, <1>5 DEF RP!Lines
<1> QED BY <1>6, <1>7, FS_UNION

\* So are the lines under a filter, and the rows made of some of them.
LEMMA SelectedIsFinite ==
  ASSUME RP!ReportsAssumption, RP!TypeOK, NEW f
  PROVE  /\ IsFiniteSet(RP!Selected(f))
         /\ \A X : X \subseteq RP!Selected(f) => IsFiniteSet(RP!Keys(X))
<1>1. IsFiniteSet(RP!Selected(f))
  <2>1. PICK K : K = {k \in RP!LoadLedger : RP!InRange(reportLedger[k].at, f)}
    OBVIOUS
  <2>2. K \subseteq DOMAIN reportLedger
    BY <2>1 DEF RP!LoadLedger
  <2>3. IsFiniteSet(RP!Lines(K))
    BY <2>2, LinesAreFinite
  <2>4. RP!Selected(f) \subseteq RP!Lines(K)
    BY <2>1 DEF RP!Selected, RP!ApplyCommonFilters
  <2> QED BY <2>3, <2>4, FS_Subset
<1>2. ASSUME NEW X, X \subseteq RP!Selected(f) PROVE IsFiniteSet(RP!Keys(X))
  <2>1. IsFiniteSet(X)
    BY <1>1, <1>2, FS_Subset
  <2>2. PICK g : g = [x \in X |-> RP!RowKey(x)]
    OBVIOUS
  <2>3. RP!Keys(X) = {g[x] : x \in X}
    BY <2>2 DEF RP!Keys
  <2> QED BY <2>1, <2>3, ImageIsFinite
<1> QED BY <1>1, <1>2

LEMMA SizeIsNat ==
  ASSUME RP!ReportsAssumption, RP!TypeOK, NEW report \in RP!Report, NEW f
  PROVE  RP!Size(report, f) \in Nat
<1>1. IsFiniteSet(RP!BuildMovements(f))
  <2>1. PICK g : g = [x \in RP!Selected(f) |->
                        [line |-> x, at |-> RP!At(x), key |-> RP!RowKey(x),
                         qtyDelta |-> RP!LineOf(x).qtyDelta]]
    OBVIOUS
  <2>2. RP!BuildMovements(f) = {g[x] : x \in RP!Selected(f)}
    BY <2>1 DEF RP!BuildMovements
  <2> QED BY <2>2, SelectedIsFinite, ImageIsFinite
<1>2. ASSUME report # "movements"
      PROVE  IsFiniteSet(DOMAIN RP!Rows(report, f))
  <2>1. \E X : X \subseteq RP!Selected(f) /\ DOMAIN RP!Rows(report, f) = RP!Keys(X)
    <3>1. CASE report = "stock"
      BY <3>1 DEF RP!Rows, RP!BuildStock
    <3>2. CASE report = "valuation"
      BY <3>2 DEF RP!Rows, RP!BuildValuation
    <3>3. CASE report = "receiving"
      <4>1. PICK X : X = {x \in RP!Selected(f) : RP!Is(x, "receiving")
                                                 /\ RP!LineOf(x).qtyDelta > 0}
        OBVIOUS
      <4>2. DOMAIN RP!Rows(report, f) = RP!Keys(X)
        BY <3>3, <4>1 DEF RP!Rows, RP!BuildReceiving
      <4> QED BY <4>1, <4>2
    <3>4. CASE report = "shrink"
      <4>1. PICK X : X = {x \in RP!Selected(f) : RP!Is(x, "adjustment")
                                                 /\ RP!LineOf(x).qtyDelta < 0}
        OBVIOUS
      <4>2. DOMAIN RP!Rows(report, f) = RP!Keys(X)
        BY <3>4, <4>1 DEF RP!Rows, RP!BuildShrink
      <4> QED BY <4>1, <4>2
    <3> QED BY <1>2, <3>1, <3>2, <3>3, <3>4 DEF RP!Report
  <2> QED BY <2>1, SelectedIsFinite
<1>3. CASE report = "movements"
  BY <1>1, <1>3, SameReportCount, FS_CardinalityType DEF RP!Size
<1>4. CASE report # "movements"
  BY <1>2, <1>4, SameReportCount, FS_CardinalityType DEF RP!Size
<1> QED BY <1>3, <1>4

LEMMA ReportsStart == RP!Init => RP!TypeOK
BY ServicesAssumption DEF RP!Init, RP!TypeOK, RP!NoAnswer, RP!ReportsAssumption

LEMMA ReportsKeep == RP!TypeOK /\ [RP!Next]_reportVars => RP!TypeOK'
<1> SUFFICES ASSUME RP!TypeOK, [RP!Next]_reportVars PROVE RP!TypeOK'
  OBVIOUS
<1>0. RP!ReportsAssumption
  BY ServicesAssumption
<1>1. CASE UNCHANGED reportVars
  BY <1>1 DEF reportVars, RP!TypeOK
<1>2. ASSUME NEW report \in RP!Report, NEW f \in RP!Filters,
             RP!View(report, f) \/ RP!Export(report, f)
      PROVE  RP!TypeOK'
  <2>1. PICK size : size = RP!Size(report, f)
    OBVIOUS
  <2>2. size \in Nat
    BY <1>0, <2>1, SizeIsNat
  <2>3. \/ RP!Answers("json", 400, report, 0, FALSE)
        \/ RP!Answers("json", 200, report, size, TRUE)
        \/ RP!Answers("csv", 400, report, 0, FALSE)
        \/ RP!Answers("csv", 200, report, size, TRUE)
    BY <1>2, <2>1 DEF RP!View, RP!Export
  <2>4. reportAnswer' \in [status : {0, 200, 400}, form : {"json", "csv", Null},
                           report : RP!Report \cup {Null}, size : Nat, audited : BOOLEAN]
    <3>1. CASE RP!Answers("json", 400, report, 0, FALSE)
      BY <2>2, <3>1 DEF RP!Answers
    <3>2. CASE RP!Answers("json", 200, report, size, TRUE)
      BY <2>2, <3>2 DEF RP!Answers
    <3>3. CASE RP!Answers("csv", 400, report, 0, FALSE)
      BY <2>2, <3>3 DEF RP!Answers
    <3>4. CASE RP!Answers("csv", 200, report, size, TRUE)
      BY <2>2, <3>4 DEF RP!Answers
    <3> QED BY <2>3, <3>1, <3>2, <3>3, <3>4
  <2>5. UNCHANGED reportLedger
    BY <2>3 DEF RP!Answers
  <2> QED BY <2>4, <2>5 DEF RP!TypeOK
<1>3. CASE RP!Grow
  <2>1. PICK e \in ReportEvent : reportLedger' = Append(reportLedger, e)
    BY <1>3 DEF RP!Grow
  <2> QED BY <1>0, <1>3, <2>1 DEF RP!Grow, RP!TypeOK, RP!ReportsAssumption
<1> QED BY <1>1, <1>2, <1>3 DEF RP!Next

-----------------------------------------------------------------------------
(* What the reports' tables add up to                                      *)

\* The lines of the events that have a time, and what one of them moves.
AllLines == RP!Lines(RP!LoadLedger)
LineQty  == [x \in AllLines |-> RP!LineOf(x).qtyDelta]

\* The lines of one item in one place between two times.
InWindow(a, b, r) == RP!With(RP!Selected(RP!Window(a, b)), r)

\* The reports' sums are sums.
LEMMA ReportSum == ASSUME NEW f PROVE RP!SumFunction(f) = Total(f, DOMAIN f)
BY DEF RP!SumFunction, RP!SumFunctionOnSet, RP!FoldFunctionOnSet, Total, FoldFunctionOnSet,
       RP!MapThenFoldSet, MapThenFoldSet

\* Every one of these lines is a line with an item and a time.
LEMMA LinesTyped ==
  ASSUME RP!ReportsAssumption, RP!TypeOK
  PROVE  /\ IsFiniteSet(AllLines)
         /\ \A x \in AllLines :
              /\ x[1] \in RP!LoadLedger /\ reportLedger[x[1]] \in ReportEvent
              /\ RP!LineOf(x).item \in Item /\ RP!LineOf(x).qtyDelta \in Int
              /\ RP!LineOf(x).unitCost \in Nat \cup {Null}
              /\ RP!LineOf(x).place \in Place
              /\ RP!At(x) \in Time /\ RP!At(x) \in Nat /\ RP!At(x) # Null
<1>1. RP!LoadLedger \subseteq DOMAIN reportLedger
  BY DEF RP!LoadLedger
<1>2. IsFiniteSet(AllLines)
  BY <1>1, LinesAreFinite DEF AllLines
<1>3. ASSUME NEW x \in AllLines
      PROVE  /\ x[1] \in RP!LoadLedger /\ reportLedger[x[1]] \in ReportEvent
             /\ RP!LineOf(x) \in RP!Line /\ RP!LineOf(x).item # Null
             /\ RP!At(x) \in Time /\ RP!At(x) # Null
  <2>0. PICK k \in RP!LoadLedger : \E j \in DOMAIN reportLedger[k].lines :
          x = <<k, j>> /\ reportLedger[k].lines[j].item # Null
    BY DEF AllLines, RP!Lines
  <2>1. PICK j \in DOMAIN reportLedger[k].lines :
          x = <<k, j>> /\ reportLedger[k].lines[j].item # Null
    BY <2>0
  <2>2. reportLedger[k] \in ReportEvent
    BY <1>1 DEF RP!TypeOK
  <2>3. reportLedger[k].lines \in Seq(RP!Line)
    BY <2>2 DEF RP!ReportsAssumption
  <2>4. reportLedger[k].lines[j] \in RP!Line
    BY <2>3
  <2>5. RP!LineOf(x) = reportLedger[k].lines[j] /\ RP!At(x) = reportLedger[k].at /\ x[1] = k
    BY <2>1 DEF RP!LineOf, RP!At
  <2>6. reportLedger[k].at \in Time /\ reportLedger[k].at # Null
    BY <2>2 DEF RP!ReportsAssumption, RP!LoadLedger
  <2> QED BY <2>1, <2>2, <2>4, <2>5, <2>6
<1>4. \A line \in RP!Line : line.item # Null =>
        /\ line.item \in Item /\ line.qtyDelta \in Int
        /\ line.unitCost \in Nat \cup {Null} /\ line.place \in Place
  BY DEF RP!Line
<1>5. \A t \in Time : t \in Nat
  BY DEF RP!ReportsAssumption
<1> QED BY <1>2, <1>3, <1>4, <1>5

\* What some of these lines move.
LEMMA QtyIsTotal ==
  ASSUME RP!ReportsAssumption, RP!TypeOK, NEW X, X \subseteq AllLines
  PROVE  /\ IsFiniteSet(X) /\ RP!Qty(X) = Total(LineQty, X) /\ RP!Qty(X) \in Int
         /\ \A x \in X : LineQty[x] = RP!LineOf(x).qtyDelta /\ LineQty[x] \in Int
<1>1. IsFiniteSet(X)
  BY LinesTyped, FS_Subset
<1>2. \A x \in X : LineQty[x] = RP!LineOf(x).qtyDelta /\ LineQty[x] \in Int
  BY LinesTyped DEF LineQty
<1>3. PICK g : g = [x \in X |-> RP!LineOf(x).qtyDelta]
  OBVIOUS
<1>4. RP!Qty(X) = Total(g, X)
  BY <1>3, ReportSum DEF RP!Qty
<1>5. Total(g, X) = Total(LineQty, X)
  BY <1>1, <1>2, <1>3, TotalOfSame
<1>6. Total(LineQty, X) \in Int
  BY <1>1, <1>2, TotalIsInt
<1> QED BY <1>1, <1>2, <1>4, <1>5, <1>6

\* The lines a report is made of are these lines under its filters.
LEMMA SelectedLines ==
  ASSUME NEW f
  PROVE  RP!Selected(f) = {x \in AllLines : /\ RP!InRange(RP!At(x), f)
                                            /\ f.item \in {Null, RP!LineOf(x).item}
                                            /\ f.place \in {Null, RP!LineOf(x).place}}
<1> DEFINE K == {k \in RP!LoadLedger : RP!InRange(reportLedger[k].at, f)}
<1>1. RP!Lines(K) = {x \in AllLines : RP!InRange(RP!At(x), f)}
  BY DEF RP!Lines, AllLines, RP!At
<1>2. RP!Selected(f) = RP!ApplyCommonFilters(RP!Lines(K), f)
  BY DEF RP!Selected
<1> HIDE DEF K
<1> QED BY <1>1, <1>2 DEF RP!ApplyCommonFilters

LEMMA WindowLines ==
  ASSUME NEW a, NEW b, NEW r
  PROVE  InWindow(a, b, r) = {x \in AllLines : /\ RP!RowKey(x) = r
                                               /\ a # Null => RP!At(x) >= a
                                               /\ b # Null => RP!At(x) <= b}
<1>1. RP!Window(a, b).from = a /\ RP!Window(a, b).to = b
      /\ RP!Window(a, b).item = Null /\ RP!Window(a, b).place = Null
  BY DEF RP!Window, RP!Everything
<1>2. RP!Selected(RP!Window(a, b)) = {x \in AllLines : RP!InRange(RP!At(x), RP!Window(a, b))}
  BY <1>1, SelectedLines
<1> QED BY <1>1, <1>2 DEF InWindow, RP!With, RP!InRange

\* A row of the stock report is the sum of its lines; there is none where there
\* are no lines.
LEMMA InStockIsQty ==
  ASSUME NEW f, NEW r
  PROVE  RP!InStock(f, r) = RP!Qty(RP!With(RP!Selected(f), r))
<1> DEFINE X == RP!With(RP!Selected(f), r)
<1>1. r \in RP!Keys(RP!Selected(f)) <=> X # {}
  BY DEF RP!Keys, RP!With
<1>2. DOMAIN RP!BuildStock(f) = RP!Keys(RP!Selected(f))
  BY DEF RP!BuildStock
<1>3. CASE X # {}
  <2>1. r \in RP!Keys(RP!Selected(f))
    BY <1>1, <1>3
  <2>2. RP!BuildStock(f)[r] = RP!Qty(X)
    BY <2>1 DEF RP!BuildStock
  <2> HIDE DEF X
  <2> QED BY <1>2, <2>1, <2>2 DEF RP!InStock, X
<1>4. CASE X = {}
  <2>1. RP!InStock(f, r) = 0
    BY <1>1, <1>2, <1>4 DEF RP!InStock
  <2>2. PICK g : g = [x \in {} |-> RP!LineOf(x).qtyDelta]
    OBVIOUS
  <2>3. RP!Qty({}) = Total(g, {})
    <3>1. DOMAIN g = {}
      BY <2>2
    <3> QED BY <2>2, <3>1, ReportSum DEF RP!Qty
  <2> QED BY <1>4, <2>1, <2>3, TotalOfNone
<1> QED BY <1>3, <1>4

LEMMA WindowStock ==
  ASSUME RP!ReportsAssumption, RP!TypeOK, NEW a, NEW b, NEW r
  PROVE  /\ InWindow(a, b, r) \subseteq AllLines /\ IsFiniteSet(InWindow(a, b, r))
         /\ \A x \in InWindow(a, b, r) : LineQty[x] \in Int
         /\ RP!InStock(RP!Window(a, b), r) = Total(LineQty, InWindow(a, b, r))
<1>1. InWindow(a, b, r) \subseteq AllLines
  BY WindowLines
<1>2. RP!InStock(RP!Window(a, b), r) = RP!Qty(InWindow(a, b, r))
  BY InStockIsQty DEF InWindow
<1> QED BY <1>1, <1>2, QtyIsTotal

\* WindowsAddUp holds of every ledger: what two adjacent windows share is what
\* happened at the boundary, and the times of the ledger part its lines.
LEMMA WindowsAdd == RP!ReportsAssumption /\ RP!TypeOK => RP!WindowsAddUp
<1> SUFFICES ASSUME RP!ReportsAssumption, RP!TypeOK, NEW r \in Item \X Place
             PROVE  /\ \A a, b, c \in Time : a <= b /\ b <= c =>
                         RP!InStock(RP!Window(a, c), r) =
                           RP!InStock(RP!Window(a, b), r) + RP!InStock(RP!Window(b, c), r)
                             - RP!InStock(RP!Window(b, b), r)
                    /\ RP!InStock(RP!Everything, r) =
                         RP!SumFunction([t \in {reportLedger[k].at : k \in RP!LoadLedger} |->
                                           RP!InStock(RP!Window(t, t), r)])
  BY DEF RP!WindowsAddUp
<1>1. ASSUME NEW a \in Time, NEW b \in Time, NEW c \in Time, a <= b, b <= c
      PROVE  RP!InStock(RP!Window(a, c), r) =
               RP!InStock(RP!Window(a, b), r) + RP!InStock(RP!Window(b, c), r)
                 - RP!InStock(RP!Window(b, b), r)
  <2> DEFINE L == InWindow(a, b, r)
             R == InWindow(b, c, r)
             M == InWindow(b, b, r)
             N == R \ M
  <2>1. a \in Nat /\ b \in Nat /\ c \in Nat /\ a # Null /\ b # Null /\ c # Null
    BY DEF RP!ReportsAssumption
  <2>2. \A x \in AllLines : RP!At(x) \in Nat
    BY LinesTyped
  <2>3. /\ L = {x \in AllLines : RP!RowKey(x) = r /\ RP!At(x) >= a /\ RP!At(x) <= b}
        /\ R = {x \in AllLines : RP!RowKey(x) = r /\ RP!At(x) >= b /\ RP!At(x) <= c}
        /\ M = {x \in AllLines : RP!RowKey(x) = r /\ RP!At(x) >= b /\ RP!At(x) <= b}
        /\ InWindow(a, c, r) =
             {x \in AllLines : RP!RowKey(x) = r /\ RP!At(x) >= a /\ RP!At(x) <= c}
    BY <2>1, WindowLines
  <2> HIDE DEF L, R, M
  <2>4. N = {x \in AllLines : RP!RowKey(x) = r /\ RP!At(x) > b /\ RP!At(x) <= c}
    BY <1>1, <2>1, <2>2, <2>3
  <2>5. InWindow(a, c, r) = L \cup N /\ L \cap N = {} /\ R = M \cup N /\ M \cap N = {}
    BY <1>1, <2>1, <2>2, <2>3, <2>4
  <2>6. /\ IsFiniteSet(L) /\ IsFiniteSet(N) /\ IsFiniteSet(M)
        /\ \A x \in L \cup N : LineQty[x] \in Int
        /\ \A x \in M \cup N : LineQty[x] \in Int
    BY <2>5, WindowStock, FS_Subset DEF L, R, M
  <2>7. Total(LineQty, L \cup N) = Total(LineQty, L) + Total(LineQty, N)
    BY <2>5, <2>6, TotalOfUnion
  <2>8. Total(LineQty, M \cup N) = Total(LineQty, M) + Total(LineQty, N)
    BY <2>5, <2>6, TotalOfUnion
  <2>9. /\ Total(LineQty, L) \in Int /\ Total(LineQty, M) \in Int /\ Total(LineQty, N) \in Int
    BY <2>6, TotalIsInt
  <2>10. /\ RP!InStock(RP!Window(a, c), r) = Total(LineQty, L \cup N)
         /\ RP!InStock(RP!Window(a, b), r) = Total(LineQty, L)
         /\ RP!InStock(RP!Window(b, c), r) = Total(LineQty, M \cup N)
         /\ RP!InStock(RP!Window(b, b), r) = Total(LineQty, M)
    BY <2>5, WindowStock DEF L, R, M
  <2> QED BY <2>7, <2>8, <2>9, <2>10
<1>2. RP!InStock(RP!Everything, r) =
        RP!SumFunction([t \in {reportLedger[k].at : k \in RP!LoadLedger} |->
                          RP!InStock(RP!Window(t, t), r)])
  <2>1. PICK T : T = {reportLedger[k].at : k \in RP!LoadLedger}
    OBVIOUS
  <2>2. PICK g : g = [t \in T |-> RP!InStock(RP!Window(t, t), r)]
    OBVIOUS
  <2>3. PICK S : S = InWindow(Null, Null, r)
    OBVIOUS
  <2>4. PICK key : key = [x \in S |-> RP!At(x)]
    OBVIOUS
  <2>5. PICK Of : Of = [t \in T |-> InWindow(t, t, r)]
    OBVIOUS
  <2>6. S = {x \in AllLines : RP!RowKey(x) = r}
    BY <2>3, WindowLines
  <2>7. IsFiniteSet(S) /\ \A x \in S : LineQty[x] \in Int
    BY <2>3, WindowStock
  <2>8. IsFiniteSet(T)
    <3>1. RP!LoadLedger \subseteq 1..Len(reportLedger) /\ Len(reportLedger) \in Nat
      BY DEF RP!LoadLedger, RP!TypeOK
    <3>2. IsFiniteSet(RP!LoadLedger)
      <4>1. IsFiniteSet(1..Len(reportLedger))
        BY <3>1, FS_Interval
      <4> QED BY <3>1, <4>1, FS_Subset
    <3>3. PICK h : h = [k \in RP!LoadLedger |-> reportLedger[k].at]
      OBVIOUS
    <3>4. T = {h[k] : k \in RP!LoadLedger}
      BY <2>1, <3>3
    <3> QED BY <3>2, <3>4, ImageIsFinite
  <2>9. \A x \in S : key[x] \in T
    BY <2>1, <2>4, <2>6, LinesTyped DEF RP!At
  <2>10. \A t \in T : Of[t] = {x \in S : key[x] = t}
    <3> TAKE t \in T
    <3>1. t \in Nat /\ t # Null
      <4>1. PICK k \in RP!LoadLedger : t = reportLedger[k].at
        BY <2>1
      <4>2. reportLedger[k] \in ReportEvent /\ reportLedger[k].at # Null
        BY DEF RP!LoadLedger, RP!TypeOK
      <4> QED BY <4>1, <4>2 DEF RP!ReportsAssumption
    <3>2. \A x \in AllLines : RP!At(x) \in Nat
      BY LinesTyped
    <3>3. Of[t] = {x \in AllLines : RP!RowKey(x) = r /\ RP!At(x) >= t /\ RP!At(x) <= t}
      BY <2>5, <3>1, WindowLines
    <3> QED BY <2>4, <2>6, <3>1, <3>2, <3>3
  <2>11. key \in [S -> T] /\ Of \in [T -> SUBSET S]
    BY <2>4, <2>5, <2>9, <2>10
  <2>12. \A t \in T : g[t] = Total(LineQty, Of[t])
    BY <2>2, <2>5, WindowStock
  <2>13. Total(g, T) = Total(LineQty, S)
    BY <2>7, <2>8, <2>10, <2>12, <2>11, TotalByClasses
  <2>14. RP!SumFunction(g) = Total(g, T)
    BY <2>2, ReportSum
  <2>15. RP!With(RP!Selected(RP!Everything), r) = S
    <3>1. RP!Everything.item = Null /\ RP!Everything.place = Null
          /\ RP!Everything.from = Null /\ RP!Everything.to = Null
      BY DEF RP!Everything
    <3> QED BY <2>6, <3>1, SelectedLines DEF RP!With, RP!InRange
  <2>16. RP!InStock(RP!Everything, r) = Total(LineQty, S)
    <3>1. RP!InStock(RP!Everything, r) = RP!Qty(S)
      BY <2>15, InStockIsQty
    <3>2. S \subseteq AllLines
      BY <2>6
    <3> QED BY <3>1, <3>2, QtyIsTotal
  <2> QED BY <2>1, <2>2, <2>13, <2>14, <2>16
<1> QED BY <1>1, <1>2

-----------------------------------------------------------------------------
\* The rows of the movements report, one for a line.
MovementOf(x) == [line |-> x, at |-> RP!At(x), key |-> RP!RowKey(x),
                  qtyDelta |-> RP!LineOf(x).qtyDelta]

LEMMA SumOfMovements ==
  ASSUME NEW V, IsFiniteSet(V), NEW g, \A x \in V : g[x] \in Int,
         NEW R, R = {MovementOf(x) : x \in V},
         NEW h, \A x \in V : h[MovementOf(x)] = g[x]
  PROVE  Total(h, R) = Total(g, V)
<1> DEFINE e == [x \in V |-> MovementOf(x)]
<1>1. \A x \in V : \A y \in V : e[x] = e[y] => x = y
  <2> TAKE x \in V
  <2> TAKE y \in V
  <2>1. MovementOf(x).line = x /\ MovementOf(y).line = y
    BY DEF MovementOf
  <2> QED BY <2>1
<1>2. e \in Bijection(V, R)
  BY <1>1 DEF Bijection, Injection, IsInjective, Surjection
<1>3. \A x \in V : h[e[x]] = g[x]
  OBVIOUS
<1> HIDE DEF e
<1> QED BY <1>2, <1>3, TotalOfImage

\* What some lines of a row moved one way is positive and no more than what all
\* movements of the row that way come to.
LEMMA PartIsMoved ==
  ASSUME RP!ReportsAssumption, RP!TypeOK, NEW f, NEW r, NEW c \in {1, -1},
         NEW P, P \subseteq RP!With(RP!Selected(f), r), P # {},
         \A x \in P : c * RP!LineOf(x).qtyDelta > 0,
         NEW R, R = {m \in RP!BuildMovements(f) : m.key = r /\ c * m.qtyDelta > 0},
         NEW h, \A m \in R : h[m] = c * m.qtyDelta
  PROVE  c * RP!Qty(P) \in 1..Total(h, R)
<1> DEFINE V == {x \in RP!With(RP!Selected(f), r) : c * RP!LineOf(x).qtyDelta > 0}
<1>1. V \subseteq AllLines /\ P \subseteq V /\ P \subseteq AllLines
  BY SelectedLines DEF RP!With
<1>2. PICK g : g = [x \in V |-> c * LineQty[x]]
  OBVIOUS
<1>3. \A x \in V : /\ LineQty[x] = RP!LineOf(x).qtyDelta /\ LineQty[x] \in Int
                   /\ g[x] = c * RP!LineOf(x).qtyDelta /\ g[x] \in Nat /\ g[x] \in Int
                   /\ g[x] > 0
  <2> TAKE x \in V
  <2>1. LineQty[x] = RP!LineOf(x).qtyDelta /\ LineQty[x] \in Int
    BY <1>1, QtyIsTotal
  <2>2. c * RP!LineOf(x).qtyDelta > 0 /\ g[x] = c * RP!LineOf(x).qtyDelta
    BY <1>2, <2>1
  <2>3. c * RP!LineOf(x).qtyDelta \in Int
    BY <2>1
  <2> HIDE DEF V
  <2> QED BY <2>1, <2>2, <2>3
<1>4. IsFiniteSet(V) /\ IsFiniteSet(P)
  BY <1>1, QtyIsTotal
<1>5. Total(g, V) = Total(h, R)
  <2>1. R = {MovementOf(x) : x \in V}
    <3>1. RP!BuildMovements(f) = {MovementOf(x) : x \in RP!Selected(f)}
      BY DEF RP!BuildMovements, MovementOf
    <3>2. \A x : MovementOf(x).key = RP!RowKey(x)
                 /\ MovementOf(x).qtyDelta = RP!LineOf(x).qtyDelta
      BY DEF MovementOf
    <3> QED BY <3>1, <3>2 DEF RP!With
  <2>2. \A x \in V : h[MovementOf(x)] = g[x]
    <3> TAKE x \in V
    <3>1. MovementOf(x) \in R /\ MovementOf(x).qtyDelta = RP!LineOf(x).qtyDelta
      BY <2>1 DEF MovementOf
    <3> HIDE DEF V
    <3> QED BY <1>3, <3>1
  <2>3. \A x \in V : g[x] \in Int
    BY <1>3
  <2> HIDE DEF V
  <2> QED BY <1>4, <2>1, <2>2, <2>3, SumOfMovements
<1> HIDE DEF V
<1>6. Total(g, P) = c * RP!Qty(P)
  <2>1. \A x \in P : LineQty[x] \in Int /\ g[x] = c * LineQty[x]
    BY <1>1, <1>3
  <2>2. c \in Int
    OBVIOUS
  <2>3. Total(g, P) = c * Total(LineQty, P)
    BY <1>4, <2>1, <2>2, TotalOfMultiple
  <2> QED BY <1>1, <2>3, QtyIsTotal
<1>7. Total(g, P) \in 0..Total(g, V)
  BY <1>1, <1>3, <1>4, TotalOfPart
<1>8. Total(g, P) > 0
  <2>1. PICK x : x \in P
    OBVIOUS
  <2>2. Total(g, {x}) \in 0..Total(g, P)
    BY <1>1, <1>3, <1>4, <2>1, TotalOfPart
  <2>3. Total(g, {x}) = g[x] /\ g[x] > 0 /\ g[x] \in Nat
    <3>1. g[x] > 0 /\ g[x] \in Nat /\ g[x] \in Int
      BY <1>1, <1>3, <2>1
    <3> QED BY <3>1, TotalOfOne
  <2> QED BY <1>7, <2>2, <2>3
<1> QED BY <1>5, <1>6, <1>7, <1>8

\* The dates of some selected lines are in order and inside the window.
LEMMA DatesAreIn ==
  ASSUME RP!ReportsAssumption, RP!TypeOK, NEW f, NEW P, P \subseteq RP!Selected(f), P # {}
  PROVE  /\ RP!First(P) <= RP!Last(P)
         /\ RP!InRange(RP!First(P), f) /\ RP!InRange(RP!Last(P), f)
<1> DEFINE D == {RP!At(x) : x \in P}
<1>1. P \subseteq AllLines /\ \A x \in P : RP!InRange(RP!At(x), f)
  BY SelectedLines
<1>2. D # {} /\ \A t \in D : t \in Int /\ RP!InRange(t, f)
  BY <1>1, LinesTyped
<1>3. IsFiniteSet(D)
  <2>1. IsFiniteSet(P)
    BY <1>1, QtyIsTotal
  <2>2. PICK g : g = [x \in P |-> RP!At(x)]
    OBVIOUS
  <2>3. D = {g[x] : x \in P}
    BY <2>2
  <2> HIDE DEF D
  <2> QED BY <2>1, <2>3, ImageIsFinite
<1>4. RP!First(P) = RP!Min(D) /\ RP!Last(P) = RP!Max(D)
  BY DEF RP!First, RP!Last
<1> HIDE DEF D
<1>5. D \subseteq Int
  BY <1>2
<1>6. /\ \E x \in D : \A y \in D : x <= y
      /\ \E x \in D : \A y \in D : x >= y
  BY <1>2, <1>3, <1>5, FiniteSetHasEnds
<1>7. RP!Min(D) \in D /\ \A y \in D : RP!Min(D) <= y
  BY <1>6 DEF RP!Min
<1>8. RP!Max(D) \in D /\ \A y \in D : RP!Max(D) >= y
  BY <1>6 DEF RP!Max
<1> QED BY <1>2, <1>4, <1>7, <1>8

LEMMA ActivityMoves == RP!ReportsAssumption /\ RP!TypeOK => RP!ActivityIsMovement
<1> SUFFICES ASSUME RP!ReportsAssumption, RP!TypeOK, NEW f \in RP!Filters, NEW r
             PROVE  LET M    == {m \in RP!BuildMovements(f) : m.key = r}
                        up   == RP!SumFunction([m \in {m \in M : m.qtyDelta > 0} |-> m.qtyDelta])
                        down == RP!SumFunction([m \in {m \in M : m.qtyDelta < 0} |-> - m.qtyDelta])
                        Dated(row) == row.first <= row.last /\ RP!InRange(row.first, f)
                                        /\ RP!InRange(row.last, f)
                    IN  /\ r \in DOMAIN RP!BuildReceiving(f) =>
                             RP!BuildReceiving(f)[r].qty \in 1..up
                             /\ Dated(RP!BuildReceiving(f)[r])
                        /\ r \in DOMAIN RP!BuildShrink(f) =>
                             RP!BuildShrink(f)[r].qty \in 1..down
                             /\ Dated(RP!BuildShrink(f)[r])
  BY DEF RP!ActivityIsMovement
<1> DEFINE M    == {m \in RP!BuildMovements(f) : m.key = r}
           up   == RP!SumFunction([m \in {m \in M : m.qtyDelta > 0} |-> m.qtyDelta])
           down == RP!SumFunction([m \in {m \in M : m.qtyDelta < 0} |-> - m.qtyDelta])
           Dated(row) == row.first <= row.last /\ RP!InRange(row.first, f)
                           /\ RP!InRange(row.last, f)
<1>0. ASSUME NEW m \in M PROVE m.qtyDelta \in Int
  <2>1. PICK x \in RP!Selected(f) : m.qtyDelta = RP!LineOf(x).qtyDelta
    BY DEF RP!BuildMovements
  <2> QED BY <2>1, SelectedLines, LinesTyped
<1>1. ASSUME r \in DOMAIN RP!BuildReceiving(f)
      PROVE  RP!BuildReceiving(f)[r].qty \in 1..up /\ Dated(RP!BuildReceiving(f)[r])
  <2>1. PICK X : X = {x \in RP!Selected(f) : RP!Is(x, "receiving")
                                             /\ RP!LineOf(x).qtyDelta > 0}
    OBVIOUS
  <2>2. PICK P : P = RP!With(X, r)
    OBVIOUS
  <2>3. RP!BuildReceiving(f) =
          [s \in RP!Keys(X) |-> [qty |-> RP!Qty(RP!With(X, s)),
                                cost |-> RP!Cost(RP!Costed(RP!With(X, s))),
                                first |-> RP!First(RP!With(X, s)),
                                last |-> RP!Last(RP!With(X, s))]]
    BY <2>1 DEF RP!BuildReceiving
  <2>4. /\ RP!BuildReceiving(f)[r].qty = RP!Qty(P)
        /\ RP!BuildReceiving(f)[r].first = RP!First(P)
        /\ RP!BuildReceiving(f)[r].last = RP!Last(P)
        /\ r \in RP!Keys(X)
    BY <1>1, <2>2, <2>3
  <2>5. /\ P # {} /\ P \subseteq RP!Selected(f) /\ P \subseteq RP!With(RP!Selected(f), r)
        /\ P \subseteq AllLines /\ \A x \in P : RP!LineOf(x).qtyDelta > 0
    BY <2>1, <2>2, <2>4, SelectedLines DEF RP!With, RP!Keys
  <2>6. Dated(RP!BuildReceiving(f)[r])
    BY <2>4, <2>5, DatesAreIn
  <2>7. RP!Qty(P) \in 1..up
    <3> DEFINE R == {m \in M : m.qtyDelta > 0}
    <3>1. PICK h : h = [m \in R |-> m.qtyDelta]
      OBVIOUS
    <3>2. up = Total(h, R)
      BY <3>1, ReportSum
    <3>3. R = {m \in RP!BuildMovements(f) : m.key = r /\ 1 * m.qtyDelta > 0}
      BY <1>0
    <3>4. \A m \in R : h[m] = 1 * m.qtyDelta
      BY <1>0, <3>1
    <3>5. \A x \in P : 1 * RP!LineOf(x).qtyDelta > 0
      BY <2>5, LinesTyped
    <3> HIDE DEF R, M, up
    <3>6. 1 * RP!Qty(P) \in 1..Total(h, R)
      BY <2>5, <3>3, <3>4, <3>5, PartIsMoved
    <3>7. RP!Qty(P) \in Int
      BY <2>5, QtyIsTotal
    <3> QED BY <3>2, <3>6, <3>7
  <2> QED BY <2>4, <2>6, <2>7
<1>2. ASSUME r \in DOMAIN RP!BuildShrink(f)
      PROVE  RP!BuildShrink(f)[r].qty \in 1..down /\ Dated(RP!BuildShrink(f)[r])
  <2>1. PICK X : X = {x \in RP!Selected(f) : RP!Is(x, "adjustment")
                                             /\ RP!LineOf(x).qtyDelta < 0}
    OBVIOUS
  <2>2. PICK P : P = RP!With(X, r)
    OBVIOUS
  <2>3. RP!BuildShrink(f) =
          [s \in RP!Keys(X) |-> [qty |-> - RP!Qty(RP!With(X, s)),
                                events |-> RP!Cardinality(RP!With(X, s)),
                                first |-> RP!First(RP!With(X, s)),
                                last |-> RP!Last(RP!With(X, s))]]
    BY <2>1 DEF RP!BuildShrink
  <2>4. /\ RP!BuildShrink(f)[r].qty = - RP!Qty(P)
        /\ RP!BuildShrink(f)[r].first = RP!First(P)
        /\ RP!BuildShrink(f)[r].last = RP!Last(P)
        /\ r \in RP!Keys(X)
    BY <1>2, <2>2, <2>3
  <2>5. /\ P # {} /\ P \subseteq RP!Selected(f) /\ P \subseteq RP!With(RP!Selected(f), r)
        /\ P \subseteq AllLines /\ \A x \in P : RP!LineOf(x).qtyDelta < 0
    BY <2>1, <2>2, <2>4, SelectedLines DEF RP!With, RP!Keys
  <2>6. Dated(RP!BuildShrink(f)[r])
    BY <2>4, <2>5, DatesAreIn
  <2>7. - RP!Qty(P) \in 1..down
    <3> DEFINE R == {m \in M : m.qtyDelta < 0}
    <3>1. PICK h : h = [m \in R |-> - m.qtyDelta]
      OBVIOUS
    <3>2. down = Total(h, R)
      BY <3>1, ReportSum
    <3>3. R = {m \in RP!BuildMovements(f) : m.key = r /\ (-1) * m.qtyDelta > 0}
      BY <1>0
    <3>4. \A m \in R : h[m] = (-1) * m.qtyDelta
      BY <1>0, <3>1
    <3>5. \A x \in P : (-1) * RP!LineOf(x).qtyDelta > 0
      BY <2>5, LinesTyped
    <3> HIDE DEF R, M, down
    <3>6. (-1) * RP!Qty(P) \in 1..Total(h, R)
      BY <2>5, <3>3, <3>4, <3>5, PartIsMoved
    <3>7. RP!Qty(P) \in Int
      BY <2>5, QtyIsTotal
    <3> QED BY <3>2, <3>6, <3>7
  <2> QED BY <2>4, <2>6, <2>7
<1> QED BY <1>1, <1>2

-----------------------------------------------------------------------------
\* What one of these lines cost in all.
LineCost == [x \in AllLines |-> RP!LineOf(x).qtyDelta * RP!LineOf(x).unitCost]

\* The cost of some lines that have one.
LEMMA CostIsTotal ==
  ASSUME RP!ReportsAssumption, RP!TypeOK, NEW X, X \subseteq RP!Costed(AllLines)
  PROVE  /\ RP!Cost(X) = Total(LineCost, X)
         /\ \A x \in X : /\ LineCost[x] = RP!LineOf(x).qtyDelta * RP!LineOf(x).unitCost
                         /\ LineCost[x] \in Int /\ RP!LineOf(x).unitCost \in Nat
<1>1. X \subseteq AllLines /\ \A x \in X : RP!LineOf(x).unitCost # Null
  BY DEF RP!Costed
<1>2. \A x \in X : RP!LineOf(x).unitCost \in Nat /\ RP!LineOf(x).qtyDelta \in Int
  BY <1>1, LinesTyped
<1>3. \A x \in X : /\ LineCost[x] = RP!LineOf(x).qtyDelta * RP!LineOf(x).unitCost
                   /\ LineCost[x] \in Int
  BY <1>1, <1>2 DEF LineCost
<1>4. PICK g : g = [x \in X |-> RP!LineOf(x).qtyDelta * RP!LineOf(x).unitCost]
  OBVIOUS
<1>5. RP!Cost(X) = Total(g, X)
  BY <1>4, ReportSum DEF RP!Cost
<1>6. IsFiniteSet(X) /\ \A x \in X : g[x] = LineCost[x]
  BY <1>1, <1>3, <1>4, QtyIsTotal
<1> QED BY <1>2, <1>3, <1>5, <1>6, TotalOfSame

\* The costed goods that came in, of one item.
LEMMA InboundLines ==
  ASSUME NEW f, NEW i
  PROVE  {x \in RP!Inbound(f) : RP!LineOf(x).item = i} =
           {x \in RP!Costed(AllLines) : /\ RP!LineOf(x).item = i
                                       /\ RP!LineOf(x).qtyDelta > 0
                                       /\ x \in RP!Selected([f EXCEPT !.place = Null])}
<1>1. PICK S : S = RP!Selected([f EXCEPT !.place = Null])
  OBVIOUS
<1>2. S \subseteq AllLines
  BY <1>1, SelectedLines
<1>3. RP!Inbound(f) = {x \in RP!Costed(S) : RP!LineOf(x).qtyDelta > 0}
  BY <1>1 DEF RP!Inbound
<1> QED BY <1>1, <1>2, <1>3 DEF RP!Costed

LEMMA Times ==
  ASSUME NEW q \in Nat, NEW a \in Int, NEW b \in Int, a <= b
  PROVE  a * q <= q * b
OBVIOUS

\* An average of costs lies between the least and the greatest.
LEMMA AverageIsBetween ==
  ASSUME RP!ReportsAssumption, RP!TypeOK, NEW X, X \subseteq RP!Costed(AllLines),
         \A x \in X : RP!LineOf(x).qtyDelta > 0,
         NEW lo \in Int, NEW hi \in Int,
         \A x \in X : lo <= RP!LineOf(x).unitCost /\ RP!LineOf(x).unitCost <= hi
  PROVE  RP!Cost(X) >= RP!Qty(X) * lo /\ RP!Cost(X) <= RP!Qty(X) * hi
<1>1. X \subseteq AllLines
  BY DEF RP!Costed
<1>2. /\ IsFiniteSet(X) /\ RP!Qty(X) = Total(LineQty, X) /\ RP!Qty(X) \in Int
      /\ \A x \in X : LineQty[x] = RP!LineOf(x).qtyDelta /\ LineQty[x] \in Int
  BY <1>1, QtyIsTotal
<1>3. /\ RP!Cost(X) = Total(LineCost, X)
      /\ \A x \in X : /\ LineCost[x] = RP!LineOf(x).qtyDelta * RP!LineOf(x).unitCost
                      /\ LineCost[x] \in Int /\ RP!LineOf(x).unitCost \in Nat
  BY CostIsTotal
<1>4. PICK low : low = [x \in X |-> lo * LineQty[x]]
  OBVIOUS
<1>5. PICK high : high = [x \in X |-> hi * LineQty[x]]
  OBVIOUS
<1>6. Total(low, X) = lo * Total(LineQty, X) /\ Total(high, X) = hi * Total(LineQty, X)
  BY <1>2, <1>4, <1>5, TotalOfMultiple
<1>7. ASSUME NEW x \in X
      PROVE  /\ low[x] \in Int /\ high[x] \in Int /\ LineCost[x] \in Int
             /\ low[x] <= LineCost[x] /\ LineCost[x] <= high[x]
  <2>1. PICK q, u : q = RP!LineOf(x).qtyDelta /\ u = RP!LineOf(x).unitCost
    OBVIOUS
  <2>2. q \in Nat /\ u \in Int /\ lo <= u /\ u <= hi
    BY <1>2, <1>3, <2>1
  <2>3. low[x] = lo * q /\ high[x] = hi * q /\ LineCost[x] = q * u /\ LineCost[x] \in Int
    BY <1>2, <1>3, <1>4, <1>5, <2>1
  <2>4. lo * q <= q * u
    BY <2>2, Times
  <2>5. u * q <= q * hi /\ u * q = q * u /\ q * hi = hi * q
    BY <2>2, Times
  <2>6. lo * q \in Int /\ hi * q \in Int
    BY <2>2
  <2> QED BY <2>3, <2>4, <2>5, <2>6
<1>8. Total(low, X) <= Total(LineCost, X)
  BY <1>2, <1>7, TotalIsMonotonic
<1>9. Total(LineCost, X) <= Total(high, X)
  BY <1>2, <1>7, TotalIsMonotonic
<1>10. lo * RP!Qty(X) = RP!Qty(X) * lo /\ hi * RP!Qty(X) = RP!Qty(X) * hi
  BY <1>2
<1>11. RP!Cost(X) \in Int /\ RP!Qty(X) * lo \in Int /\ RP!Qty(X) * hi \in Int
  <2>1. RP!Cost(X) \in Int
    BY <1>2, <1>3, TotalIsInt
  <2> QED BY <1>2, <2>1
<1> QED BY <1>2, <1>3, <1>6, <1>8, <1>9, <1>10, <1>11

LEMMA ValuesAgree == RP!ReportsAssumption /\ RP!TypeOK => RP!ValuedAlike
<1> SUFFICES ASSUME RP!ReportsAssumption, RP!TypeOK, NEW f \in RP!Filters,
                    NEW r \in DOMAIN RP!BuildValuation(f)
             PROVE  LET row == RP!BuildValuation(f)[r]
                        costs == {RP!LineOf(x).unitCost :
                                    x \in {x \in RP!Costed(RP!Lines(RP!LoadLedger)) :
                                             RP!LineOf(x).item = r[1]}}
                    IN  /\ row = RP!BuildValuation([f EXCEPT !.place = Null])[r]
                        /\ row.over > 0 => /\ row.cost >= row.over * RP!Min(costs)
                                           /\ row.cost <= row.over * RP!Max(costs)
  BY DEF RP!ValuedAlike
<1>1. PICK g : g = [f EXCEPT !.place = Null]
  OBVIOUS
<1>2. PICK X : X = {x \in RP!Inbound(f) : RP!LineOf(x).item = r[1]}
  OBVIOUS
<1>3. PICK costs : costs = {RP!LineOf(x).unitCost :
                              x \in {u \in RP!Costed(AllLines) : RP!LineOf(u).item = r[1]}}
  OBVIOUS
<1>4. g.place = Null /\ g.item = f.item /\ g.from = f.from /\ g.to = f.to
      /\ [g EXCEPT !.place = Null].place = Null /\ [g EXCEPT !.place = Null].item = f.item
      /\ [g EXCEPT !.place = Null].from = f.from /\ [g EXCEPT !.place = Null].to = f.to
  BY <1>1 DEF RP!Filters
<1>5. RP!Selected([g EXCEPT !.place = Null]) = RP!Selected(g)
  BY <1>4, SelectedLines DEF RP!InRange
<1>6. {x \in RP!Inbound(g) : RP!LineOf(x).item = r[1]} = X
  BY <1>1, <1>2, <1>5, InboundLines
<1>7. r \in RP!Keys(RP!Selected(f))
  BY DEF RP!BuildValuation
<1>8. PICK z \in RP!Selected(f) : r = RP!RowKey(z)
  BY <1>7 DEF RP!Keys
<1>9. RP!With(RP!Selected(g), r) = RP!With(RP!Selected(f), r)
  <2>1. f.place \in {Null, r[2]}
    BY <1>8, SelectedLines DEF RP!RowKey
  <2>2. \A x : RP!RowKey(x) = r => RP!LineOf(x).place = r[2]
    BY DEF RP!RowKey
  <2>3. RP!Selected(f) = {x \in AllLines : /\ RP!InRange(RP!At(x), f)
                                           /\ f.item \in {Null, RP!LineOf(x).item}
                                           /\ f.place \in {Null, RP!LineOf(x).place}}
    BY SelectedLines
  <2>4. RP!Selected(g) = {x \in AllLines : /\ RP!InRange(RP!At(x), f)
                                           /\ f.item \in {Null, RP!LineOf(x).item}}
    BY <1>4, SelectedLines DEF RP!InRange
  <2> QED BY <2>1, <2>2, <2>3, <2>4 DEF RP!With
<1>10. r \in RP!Keys(RP!Selected(g))
  BY <1>8, <1>9 DEF RP!Keys, RP!With
<1>11. /\ RP!BuildValuation(f)[r] = [qty |-> RP!Qty(RP!With(RP!Selected(f), r)),
                                    cost |-> RP!Cost(RP!Costed(X)), over |-> RP!Qty(X)]
       /\ RP!BuildValuation(g)[r] = [qty |-> RP!Qty(RP!With(RP!Selected(g), r)),
                                    cost |-> RP!Cost(RP!Costed(X)), over |-> RP!Qty(X)]
  BY <1>2, <1>6, <1>7, <1>10 DEF RP!BuildValuation
<1>12. RP!BuildValuation(f)[r] = RP!BuildValuation(g)[r]
  BY <1>9, <1>11
<1>13. ASSUME RP!Qty(X) > 0
       PROVE  /\ RP!Cost(RP!Costed(X)) >= RP!Qty(X) * RP!Min(costs)
              /\ RP!Cost(RP!Costed(X)) <= RP!Qty(X) * RP!Max(costs)
  <2>1. /\ X \subseteq RP!Costed(AllLines)
        /\ \A x \in X : RP!LineOf(x).qtyDelta > 0 /\ RP!LineOf(x).unitCost \in costs
    <3>1. X = {x \in RP!Costed(AllLines) : /\ RP!LineOf(x).item = r[1]
                                            /\ RP!LineOf(x).qtyDelta > 0
                                            /\ x \in RP!Selected(g)}
      BY <1>1, <1>2, InboundLines
    <3> QED BY <1>3, <3>1
  <2>2. RP!Costed(X) = X /\ X \subseteq AllLines
    BY <2>1 DEF RP!Costed
  <2>3. X # {}
    <3>1. X = {} => RP!Qty(X) = Total(LineQty, {})
      BY <2>2, QtyIsTotal
    <3> QED BY <1>13, <3>1, TotalOfNone
  <2>4. IsFiniteSet(costs) /\ costs # {} /\ costs \subseteq Int
    <3>1. PICK Y : Y = {x \in RP!Costed(AllLines) : RP!LineOf(x).item = r[1]}
      OBVIOUS
    <3>2. Y \subseteq AllLines /\ \A x \in Y : RP!LineOf(x).unitCost \in Nat
      BY <3>1, LinesTyped DEF RP!Costed
    <3>3. PICK h : h = [x \in Y |-> RP!LineOf(x).unitCost]
      OBVIOUS
    <3>4. costs = {h[x] : x \in Y}
      BY <1>3, <3>1, <3>3
    <3>5. IsFiniteSet(costs)
      <4>1. IsFiniteSet(Y)
        BY <3>2, QtyIsTotal
      <4> QED BY <3>4, <4>1, ImageIsFinite
    <3>6. costs \subseteq Int
      BY <3>2, <3>3, <3>4
    <3> QED BY <2>1, <2>3, <3>5, <3>6
  <2>5. /\ \E x \in costs : \A y \in costs : x <= y
        /\ \E x \in costs : \A y \in costs : x >= y
    BY <2>4, FiniteSetHasEnds
  <2>6. RP!Min(costs) \in costs /\ \A y \in costs : RP!Min(costs) <= y
    BY <2>5 DEF RP!Min
  <2>7. RP!Max(costs) \in costs /\ \A y \in costs : RP!Max(costs) >= y
    BY <2>5 DEF RP!Max
  <2>8. PICK lo, hi : lo = RP!Min(costs) /\ hi = RP!Max(costs)
    OBVIOUS
  <2>9. /\ lo \in Int /\ hi \in Int
        /\ \A x \in X : lo <= RP!LineOf(x).unitCost /\ RP!LineOf(x).unitCost <= hi
    BY <2>1, <2>4, <2>6, <2>7, <2>8
  <2>10. RP!Cost(X) >= RP!Qty(X) * lo /\ RP!Cost(X) <= RP!Qty(X) * hi
    BY <2>1, <2>9, AverageIsBetween
  <2> QED BY <2>2, <2>8, <2>10
<1> QED BY <1>1, <1>3, <1>11, <1>12, <1>13 DEF AllLines

-----------------------------------------------------------------------------
\* The lines of an item, and those its average cost is taken over.
ItemLines(i) == {x \in AllLines : RP!LineOf(x).item = i}
Bought(i) == {x \in RP!Costed(AllLines) : RP!LineOf(x).item = i /\ RP!LineOf(x).qtyDelta > 0}

\* What an item is worth, whether or not it has rows.
WorthTold ==
  RP!ReportsAssumption /\ RP!TypeOK =>
    \A i \in Item : RP!Worth(i) = <<RP!Qty(ItemLines(i)), RP!Cost(Bought(i)), RP!Qty(Bought(i))>>

LEMMA WorthIs == WorthTold
<1> SUFFICES ASSUME RP!ReportsAssumption, RP!TypeOK, NEW i \in Item
             PROVE  RP!Worth(i) =
                      <<RP!Qty(ItemLines(i)), RP!Cost(Bought(i)), RP!Qty(Bought(i))>>
  BY DEF WorthTold
<1>1. PICK f : f = RP!Everything
  OBVIOUS
<1>2. PICK V : V = RP!BuildValuation(f)
  OBVIOUS
<1>3. PICK R : R = {r \in DOMAIN V : r[1] = i}
  OBVIOUS
<1>4. f.place = Null /\ f.item = Null /\ f.from = Null /\ f.to = Null
      /\ [f EXCEPT !.place = Null].place = Null /\ [f EXCEPT !.place = Null].item = Null
      /\ [f EXCEPT !.place = Null].from = Null /\ [f EXCEPT !.place = Null].to = Null
  BY <1>1 DEF RP!Everything
<1>5. RP!Selected(f) = AllLines /\ RP!Selected([f EXCEPT !.place = Null]) = AllLines
  BY <1>4, SelectedLines DEF RP!InRange
<1>6. {x \in RP!Inbound(f) : RP!LineOf(x).item = i} = Bought(i) /\ RP!Costed(Bought(i)) = Bought(i)
  <2>1. {x \in RP!Inbound(f) : RP!LineOf(x).item = i} = Bought(i)
    BY <1>5, InboundLines DEF Bought, RP!Costed
  <2> QED BY <2>1 DEF Bought, RP!Costed
<1>7. DOMAIN V = {RP!RowKey(x) : x \in AllLines}
  BY <1>2, <1>5 DEF RP!BuildValuation, RP!Keys
<1>8. \A r \in DOMAIN V :
        V[r] = [qty |-> RP!Qty(RP!With(AllLines, r)),
                cost |-> RP!Cost(RP!Costed({x \in RP!Inbound(f) : RP!LineOf(x).item = r[1]})),
                over |-> RP!Qty({x \in RP!Inbound(f) : RP!LineOf(x).item = r[1]})]
  BY <1>2, <1>5 DEF RP!BuildValuation
<1>9. \A r \in R : /\ V[r].qty = RP!Qty(RP!With(AllLines, r))
                   /\ V[r].cost = RP!Cost(Bought(i)) /\ V[r].over = RP!Qty(Bought(i))
  BY <1>3, <1>6, <1>8
<1>10. \A x : RP!RowKey(x)[1] = RP!LineOf(x).item
  BY DEF RP!RowKey
<1>11. RP!Worth(i) = IF R = {} THEN <<0, 0, 0>>
                     ELSE <<RP!SumFunction([r \in R |-> V[r].qty]),
                            V[CHOOSE r \in R : TRUE].cost, V[CHOOSE r \in R : TRUE].over>>
  BY <1>1, <1>2, <1>3 DEF RP!Worth
<1>12. CASE R = {}
  <2>1. ItemLines(i) = {}
    BY <1>3, <1>7, <1>10, <1>12 DEF ItemLines
  <2>2. Bought(i) = {}
    BY <2>1 DEF ItemLines, Bought, RP!Costed
  <2>3. RP!Qty({}) = 0
    <3>1. {} \subseteq AllLines
      OBVIOUS
    <3> QED BY <3>1, QtyIsTotal, TotalOfNone
  <2>4. RP!Cost({}) = 0
    <3>1. {} \subseteq RP!Costed(AllLines)
      OBVIOUS
    <3> QED BY <3>1, CostIsTotal, TotalOfNone
  <2> QED BY <1>11, <1>12, <2>1, <2>2, <2>3, <2>4
<1>13. CASE R # {}
  <2>1. (CHOOSE r \in R : TRUE) \in R
    BY <1>13
  <2>2. PICK g : g = [r \in R |-> V[r].qty]
    OBVIOUS
  <2>3. RP!SumFunction(g) = Total(g, R)
    BY <2>2, ReportSum
  <2>4. Total(g, R) = RP!Qty(ItemLines(i))
    <3>1. PICK S : S = ItemLines(i)
      OBVIOUS
    <3>2. S \subseteq AllLines
      BY <3>1 DEF ItemLines
    <3>3. IsFiniteSet(S) /\ RP!Qty(S) = Total(LineQty, S) /\ \A x \in S : LineQty[x] \in Int
      BY <3>2, QtyIsTotal
    <3>4. PICK key : key = [x \in S |-> RP!RowKey(x)]
      OBVIOUS
    <3>5. PICK Of : Of = [r \in R |-> RP!With(AllLines, r)]
      OBVIOUS
    <3>6. (\A x \in S : key[x] \in R) /\ R = {key[x] : x \in S}
      BY <1>3, <1>7, <1>10, <3>1, <3>4 DEF ItemLines
    <3>7. IsFiniteSet(R)
      BY <3>3, <3>6, ImageIsFinite
    <3>8. \A r \in R : Of[r] = {x \in S : key[x] = r}
      BY <1>3, <1>10, <3>1, <3>4, <3>5 DEF ItemLines, RP!With
    <3>9. \A r \in R : g[r] = Total(LineQty, Of[r])
      <4> TAKE r \in R
      <4>1. g[r] = RP!Qty(Of[r])
        BY <1>9, <2>2, <3>5
      <4>2. Of[r] \subseteq AllLines
        BY <3>5 DEF RP!With
      <4> QED BY <4>1, <4>2, QtyIsTotal
    <3>10. Total(g, R) = Total(LineQty, S)
      <4>1. key \in [S -> R] /\ Of \in [R -> SUBSET S]
        BY <3>4, <3>5, <3>6, <3>8
      <4> QED BY <3>3, <3>7, <3>8, <3>9, <4>1, TotalByClasses
    <3> QED BY <3>1, <3>3, <3>10
  <2> QED BY <1>9, <1>11, <1>13, <2>1, <2>2, <2>3, <2>4
<1> QED BY <1>12, <1>13

\* What a line is: a place in an event that has a time, where an item is named.
LinesTold ==
  \A x : x \in AllLines <=> \E k \in RP!LoadLedger : \E j \in DOMAIN reportLedger[k].lines :
                              x = <<k, j>> /\ reportLedger[k].lines[j].item # Null

LEMMA LinesListed == LinesTold
BY DEF LinesTold, AllLines, RP!Lines

\* What an event that is added makes of the lines.
LEMMA LinesGrow ==
  ASSUME RP!ReportsAssumption, RP!TypeOK, NEW e \in ReportEvent,
         reportLedger' = Append(reportLedger, e), NEW n, n = Len(reportLedger) + 1
  PROVE  /\ AllLines' = AllLines \cup
                          {<<n, j>> : j \in {j \in DOMAIN e.lines : e.at # Null
                                                                 /\ e.lines[j].item # Null}}
         /\ \A x \in AllLines : RP!LineOf(x)' = RP!LineOf(x)
         /\ \A j : RP!LineOf(<<n, j>>)' = e.lines[j] /\ <<n, j>> \notin AllLines
<1>1. /\ DOMAIN reportLedger = 1..Len(reportLedger) /\ Len(reportLedger) \in Nat
      /\ n \in Nat /\ n \notin DOMAIN reportLedger
  BY DEF RP!TypeOK
<1>2. /\ DOMAIN reportLedger' = DOMAIN reportLedger \cup {n}
      /\ reportLedger'[n] = e
      /\ \A k \in DOMAIN reportLedger : reportLedger'[k] = reportLedger[k]
  BY <1>1 DEF RP!TypeOK
<1>3. RP!LoadLedger' = RP!LoadLedger \cup (IF e.at # Null THEN {n} ELSE {})
  BY <1>1, <1>2 DEF RP!LoadLedger
<1>4. \A k \in RP!LoadLedger : k \in DOMAIN reportLedger /\ reportLedger'[k] = reportLedger[k]
  BY <1>2 DEF RP!LoadLedger
<1>5. \A x : x \in AllLines <=> \E k \in RP!LoadLedger : \E j \in DOMAIN reportLedger[k].lines :
                                  x = <<k, j>> /\ reportLedger[k].lines[j].item # Null
  BY LinesListed DEF LinesTold
<1>6. \A x : x \in AllLines' <=> \E k \in RP!LoadLedger' : \E j \in DOMAIN reportLedger'[k].lines :
                                  x = <<k, j>> /\ reportLedger'[k].lines[j].item # Null
  <2>1. LinesTold'
    BY LinesListed, PTL
  <2> QED BY <2>1 DEF LinesTold
<1>7. \A x \in AllLines : x[1] \in RP!LoadLedger
  BY <1>5
<1>8. \A x \in AllLines : RP!LineOf(x)' = RP!LineOf(x)
  BY <1>4, <1>7 DEF RP!LineOf
<1>9. \A j : RP!LineOf(<<n, j>>)' = e.lines[j] /\ <<n, j>> \notin AllLines
  BY <1>1, <1>2, <1>4, <1>7 DEF RP!LineOf
<1>10. AllLines' = AllLines \cup {<<n, j>> : j \in {j \in DOMAIN e.lines :
                                                   e.at # Null /\ e.lines[j].item # Null}}
  BY <1>2, <1>3, <1>4, <1>5, <1>6
<1> QED BY <1>8, <1>9, <1>10

\* The step of TransferKeepsWorth.
WorthStays ==
  (reportLedger' # reportLedger /\ RP!Transfer(reportLedger'[Len(reportLedger')]))
    => \A i \in Item : RP!Worth(i)' = RP!Worth(i)

\* A transfer adds lines of an item that cancel out, and none that is costed.
LEMMA TransferKeeps ==
  RP!TypeOK /\ RP!TypeOK' /\ [RP!Next]_reportVars => WorthStays
<1> SUFFICES ASSUME RP!ReportsAssumption, RP!TypeOK, RP!TypeOK', [RP!Next]_reportVars,
                    reportLedger' # reportLedger,
                    RP!Transfer(reportLedger'[Len(reportLedger')]), NEW i \in Item
             PROVE  RP!Worth(i)' = RP!Worth(i)
  BY ServicesAssumption DEF WorthStays
<1>1. PICK e \in ReportEvent : reportLedger' = Append(reportLedger, e)
  BY DEF RP!Next, RP!View, RP!Export, RP!Answers, RP!Grow, reportVars
<1>2. RP!Transfer(e) /\ Len(reportLedger) \in Nat
  BY <1>1 DEF RP!TypeOK
<1>3. PICK n : n = Len(reportLedger) + 1
  OBVIOUS
<1>4. PICK J : J = {j \in DOMAIN e.lines : e.lines[j].item = i}
  OBVIOUS
<1>5. PICK N : N = IF e.at # Null THEN {<<n, j>> : j \in J} ELSE {}
  OBVIOUS
<1>6. /\ AllLines' = AllLines \cup
                       {<<n, j>> : j \in {j \in DOMAIN e.lines : e.at # Null
                                                              /\ e.lines[j].item # Null}}
      /\ \A x \in AllLines : RP!LineOf(x)' = RP!LineOf(x)
      /\ \A j : RP!LineOf(<<n, j>>)' = e.lines[j] /\ <<n, j>> \notin AllLines
  BY <1>1, <1>3, LinesGrow
<1>7. i # Null
  BY DEF RP!ReportsAssumption
<1>8. ItemLines(i)' = ItemLines(i) \cup N /\ ItemLines(i) \cap N = {}
  BY <1>4, <1>5, <1>6, <1>7 DEF ItemLines
<1>9. Bought(i)' = Bought(i)
  <2>1. \A j \in DOMAIN e.lines : e.lines[j].unitCost = Null
    BY <1>2 DEF RP!Transfer
  <2> QED BY <1>6, <2>1 DEF Bought, RP!Costed
<1>10. \A x \in Bought(i) : RP!LineOf(x)' = RP!LineOf(x)
  BY <1>6 DEF Bought, RP!Costed
<1>11. RP!Cost(Bought(i))' = RP!Cost(Bought(i)) /\ RP!Qty(Bought(i))' = RP!Qty(Bought(i))
  BY <1>9, <1>10 DEF RP!Cost, RP!Qty
<1>12. RP!Qty(ItemLines(i))' = RP!Qty(ItemLines(i))
  <2>1. PICK g : g = [x \in ItemLines(i)' |-> RP!LineOf(x)'.qtyDelta]
    OBVIOUS
  <2>2. RP!Qty(ItemLines(i))' = Total(g, ItemLines(i)')
    BY <2>1, ReportSum DEF RP!Qty
  <2>3. /\ IsFiniteSet(ItemLines(i)) /\ RP!Qty(ItemLines(i)) = Total(LineQty, ItemLines(i))
        /\ \A x \in ItemLines(i) : g[x] = LineQty[x] /\ LineQty[x] \in Int
    <3>1. ItemLines(i) \subseteq AllLines
      BY DEF ItemLines
    <3> QED BY <1>6, <1>8, <2>1, <3>1, QtyIsTotal
  <2>4. PICK q : q = [j \in J |-> e.lines[j].qtyDelta]
    OBVIOUS
  <2>5. IsFiniteSet(J) /\ \A j \in J : q[j] \in Int
    <3>1. e.lines \in Seq(RP!Line)
      BY DEF RP!ReportsAssumption
    <3>2. J \subseteq 1..Len(e.lines) /\ Len(e.lines) \in Nat
      BY <1>4, <3>1
    <3>3. IsFiniteSet(1..Len(e.lines))
      BY <3>2, FS_Interval
    <3>4. IsFiniteSet(J)
      BY <3>2, <3>3, FS_Subset
    <3>5. \A j \in J : e.lines[j] \in RP!Line
      BY <1>4, <3>1
    <3>6. \A line \in RP!Line : line.qtyDelta \in Int
      BY DEF RP!Line
    <3> QED BY <2>4, <3>4, <3>5, <3>6
  <2>6. Total(q, J) = 0
    <3>1. RP!SumFunction(q) = 0
      BY <1>2, <1>4, <2>4 DEF RP!Transfer
    <3> QED BY <2>4, <3>1, ReportSum
  <2>7. IsFiniteSet(N) /\ Total(g, N) = 0 /\ \A x \in N : g[x] \in Int
    <3>1. CASE e.at # Null
      <4> DEFINE b == [j \in J |-> <<n, j>>]
      <4>1. b \in Bijection(J, N)
        BY <1>5, <3>1 DEF Bijection, Injection, IsInjective, Surjection
      <4>2. \A j \in J : g[b[j]] = q[j]
        BY <1>5, <1>6, <1>8, <2>1, <2>4, <3>1
      <4>3. IsFiniteSet(N) /\ \A x \in N : \E j \in J : x = b[j]
        BY <1>5, <2>5, <3>1, <4>1, FS_Surjection DEF Bijection
      <4> HIDE DEF b
      <4>4. Total(g, N) = Total(q, J)
        BY <2>5, <4>1, <4>2, TotalOfImage
      <4> QED BY <2>5, <2>6, <4>2, <4>3, <4>4
    <3>2. CASE e.at = Null
      BY <1>5, <3>2, FS_EmptySet, TotalOfNone
    <3> QED BY <3>1, <3>2
  <2>8. Total(g, ItemLines(i)') = Total(g, ItemLines(i)) + Total(g, N)
    <3>1. \A x \in ItemLines(i) \cup N : g[x] \in Int
      BY <2>3, <2>7
    <3> QED BY <1>8, <2>3, <2>7, <3>1, TotalOfUnion
  <2>9. Total(g, ItemLines(i)) = Total(LineQty, ItemLines(i))
    BY <2>3, TotalOfSame
  <2>10. Total(LineQty, ItemLines(i)) \in Int
    BY <2>3, TotalIsInt
  <2> QED BY <2>2, <2>3, <2>7, <2>8, <2>9, <2>10
<1>13. RP!Worth(i) = <<RP!Qty(ItemLines(i)), RP!Cost(Bought(i)), RP!Qty(Bought(i))>>
  BY WorthIs DEF WorthTold
<1>14. WorthTold'
  BY WorthIs, PTL
<1>15. RP!ReportsAssumption'
  BY DEF RP!ReportsAssumption
<1>16. RP!Worth(i)' = <<RP!Qty(ItemLines(i))', RP!Cost(Bought(i))', RP!Qty(Bought(i))'>>
  BY <1>14, <1>15 DEF WorthTold
<1> QED BY <1>11, <1>12, <1>13, <1>16

\* What the reports' tables say follows from the types.
LEMMA ReportsSound ==
  RP!TypeOK => RP!WindowsAddUp /\ RP!ActivityIsMovement /\ RP!ValuedAlike
BY ServicesAssumption, WindowsAdd, ActivityMoves, ValuesAgree

-----------------------------------------------------------------------------
-----------------------------------------------------------------------------
(* The documents (TenantDocuments)                                         *)

\* The rows t have all the rows s have, as they were or gone on from there.
GoneOn(s, t) ==
  \A k \in DOMAIN s :
    k \in DOMAIN t /\ t[k].id = s[k].id /\ TD!Rank(t[k].state) >= TD!Rank(s[k].state)

DistinctIds(rows) == \A j, k \in DOMAIN rows : rows[j].id = rows[k].id => j = k

StatesOf(c) ==
  IF c = "offline_drafts" THEN {"DRAFT"}
  ELSE IF c = "alert_rules" THEN {"LIVE", "DELETED"}
  ELSE {"OPEN", "ACKNOWLEDGED", "CLOSED"}

StatesFit(c, rows) == \A k \in DOMAIN rows : rows[k].state \in StatesOf(c)

\* What a handler that waits for its put is about to store.
PutIsSound(q) ==
  /\ q.coll \in TD!Coll /\ q.base <= version[q.coll] /\ q.told = 0
  /\ q.did \in TD!Row /\ \E k \in DOMAIN q.rows : q.rows[k] = q.did
  /\ StatesFit(q.coll, q.rows)
  /\ q.coll = "offline_drafts" =>
       /\ DistinctIds(q.rows)
       /\ q.base = version[q.coll] => q.rows = Append(docs[q.coll].rows, q.did)
  /\ (q.coll \notin lossy /\ q.base = version[q.coll]) => GoneOn(docs[q.coll].rows, q.rows)

DocumentsSound ==
  /\ \A c \in TD!Coll : /\ StatesFit(c, docs[c].rows)
                        /\ ~docs[c].array /\ c \notin lossy => docs[c].rows = << >>
  /\ \A r \in Request : /\ req[r].pc = "idle" => req[r] = TD!Idle
                        /\ req[r].pc = "put" => PutIsSound(req[r])
                        /\ req[r].did # Null => req[r].coll \in TD!Coll

DocumentsIInv == TD!TypeOK /\ DocumentsSound /\ TD!OneDraftPerId /\ TD!AcceptedStays

\* What a step may do to the documents of which nothing was lost, and to the
\* drafts that are there when another is put.
DocumentsForward ==
  /\ \A c \in TD!Coll \ lossy' : GoneOn(docs[c].rows, docs'[c].rows)
  /\ \A r \in Request :
       (/\ req[r].pc = "put" /\ req'[r].told = 201
        /\ req[r].coll = "offline_drafts" /\ req[r].base = version[req[r].coll])
          => TD!ToSet(docs[req[r].coll].rows) \subseteq TD!ToSet(docs'[req[r].coll].rows)

-----------------------------------------------------------------------------
LEMMA Ranks ==
  /\ \A s \in {"DRAFT", "LIVE", "OPEN"} : TD!Rank(s) = 0
  /\ TD!Rank("ACKNOWLEDGED") = 1
  /\ \A s \in {"CLOSED", "DELETED"} : TD!Rank(s) = 2
  /\ \A s \in TD!State : TD!Rank(s) \in 0..2
<1>1. /\ \A s \in {"DRAFT", "LIVE", "OPEN"} : TD!Rank(s) = 0
      /\ TD!Rank("ACKNOWLEDGED") = 1
      /\ \A s \in {"CLOSED", "DELETED"} : TD!Rank(s) = 2
  BY DEF TD!Rank
<1> QED BY <1>1 DEF TD!State

LEMMA RowState == \A x \in TD!Row : TD!Rank(x.state) \in 0..2
BY Ranks DEF TD!Row

LEMMA GoneOnItself ==
  ASSUME NEW rows \in Seq(TD!Row)
  PROVE  GoneOn(rows, rows)
BY RowState DEF GoneOn

\* A row is added.
LEMMA Pushed ==
  ASSUME NEW rows \in Seq(TD!Row), NEW row \in TD!Row
  PROVE  /\ Append(rows, row) \in Seq(TD!Row)
         /\ GoneOn(rows, Append(rows, row))
         /\ DOMAIN Append(rows, row) = DOMAIN rows \cup {Len(rows) + 1}
         /\ Len(rows) + 1 \notin DOMAIN rows
         /\ Append(rows, row)[Len(rows) + 1] = row
         /\ \A k \in DOMAIN rows : Append(rows, row)[k] = rows[k]
<1>1. /\ Append(rows, row) \in Seq(TD!Row)
      /\ DOMAIN Append(rows, row) = DOMAIN rows \cup {Len(rows) + 1}
      /\ Len(rows) + 1 \notin DOMAIN rows
      /\ Append(rows, row)[Len(rows) + 1] = row
      /\ \A k \in DOMAIN rows : Append(rows, row)[k] = rows[k]
  OBVIOUS
<1>2. GoneOn(rows, Append(rows, row))
  BY <1>1, RowState DEF GoneOn
<1> QED BY <1>1, <1>2

\* A row is replaced by one that has gone on from it.
LEMMA Replaced ==
  ASSUME NEW rows \in Seq(TD!Row), NEW n \in DOMAIN rows, NEW row \in TD!Row,
         row.id = rows[n].id, TD!Rank(row.state) >= TD!Rank(rows[n].state)
  PROVE  /\ [rows EXCEPT ![n] = row] \in Seq(TD!Row)
         /\ GoneOn(rows, [rows EXCEPT ![n] = row])
         /\ [rows EXCEPT ![n] = row][n] = row
         /\ n \in DOMAIN [rows EXCEPT ![n] = row]
         /\ DOMAIN [rows EXCEPT ![n] = row] = DOMAIN rows
         /\ \A k \in DOMAIN rows \ {n} : [rows EXCEPT ![n] = row][k] = rows[k]
<1> DEFINE t == [rows EXCEPT ![n] = row]
<1>1. t \in Seq(TD!Row)
  OBVIOUS
<1>2. /\ DOMAIN t = DOMAIN rows /\ t[n] = row
      /\ \A k \in DOMAIN rows \ {n} : t[k] = rows[k]
  OBVIOUS
<1>3. GoneOn(rows, t)
  <2> SUFFICES ASSUME NEW k \in DOMAIN rows
               PROVE  /\ k \in DOMAIN t /\ t[k].id = rows[k].id
                      /\ TD!Rank(t[k].state) >= TD!Rank(rows[k].state)
    BY DEF GoneOn
  <2>1. rows[k] \in TD!Row
    OBVIOUS
  <2> HIDE DEF t
  <2> QED BY <1>2, <2>1, RowState
<1> QED BY <1>1, <1>2, <1>3

\* Find finds a row that is there.
LEMMA Found ==
  ASSUME NEW rows \in Seq(TD!Row), NEW id, TD!Has(rows, id)
  PROVE  TD!Find(rows, id) \in DOMAIN rows /\ rows[TD!Find(rows, id)].id = id
<1> DEFINE R == {p \in Nat \X Nat : p[1] < p[2]}
           U == {k \in 1..Len(rows) : rows[k].id = id}
<1>1. U \subseteq Nat /\ U # {}
  BY DEF TD!Has
<1>2. IsWellFoundedOn(R, Nat)
  BY NatLessThanWellFounded DEF OpToRel
<1>3. PICK u \in U : \A w \in U : ~(<<w, u>> \in R)
  <2> HIDE DEF R, U
  <2> QED BY <1>1, <1>2, WFMin
<1>4. ASSUME NEW w \in U PROVE u <= w
  <2>1. u \in Nat /\ w \in Nat /\ ~(<<w, u>> \in R)
    BY <1>1, <1>3
  <2> HIDE DEF U
  <2> QED BY <2>1
<1>5. TD!Find(rows, id) = CHOOSE m \in U : \A w \in U : m <= w
  BY <1>1 DEF TD!Find, TD!SelectInSeq, TD!Min
<1>6. TD!Find(rows, id) \in U
  <2> HIDE DEF U
  <2> QED BY <1>4, <1>5
<1> QED BY <1>6

-----------------------------------------------------------------------------
\* The stored documents stay, and one request goes on.
LEMMA DocumentsStay ==
  ASSUME DocumentsIInv, UNCHANGED <<docs, version, lossy, corruptions>>,
         NEW r \in Request, NEW h \in TD!Handler, req' = [req EXCEPT ![r] = h],
         h.pc # "idle", h.pc = "put" => PutIsSound(h),
         h.did # Null => h.coll \in TD!Coll,
         h.told \in {200, 201} => h.did = Null,
         req[r].pc = "put" => h.told # 201
  PROVE  DocumentsIInv' /\ DocumentsForward
<1>1. /\ req' \in [Request -> TD!Handler] /\ req'[r] = h
      /\ \A x \in Request \ {r} : req'[x] = req[x]
  BY DEF DocumentsIInv, TD!TypeOK
<1>2. TD!TypeOK' /\ TD!OneDraftPerId'
  BY <1>1 DEF DocumentsIInv, TD!TypeOK, TD!OneDraftPerId
<1>3. DocumentsSound'
  <2>1. \A c \in TD!Coll : /\ StatesFit(c, docs[c].rows)
                           /\ ~docs[c].array /\ c \notin lossy => docs[c].rows = << >>
    BY DEF DocumentsIInv, DocumentsSound
  <2>2. ASSUME NEW x \in Request
        PROVE  /\ req'[x].pc = "idle" => req'[x] = TD!Idle
               /\ req'[x].pc = "put" => PutIsSound(req'[x])
               /\ req'[x].did # Null => req'[x].coll \in TD!Coll
    BY <1>1 DEF DocumentsIInv, DocumentsSound
  <2>3. ASSUME NEW x \in Request, req'[x].pc = "put" PROVE PutIsSound(req[x])'
    BY <2>2, <2>3 DEF PutIsSound
  <2> QED BY <2>1, <2>2, <2>3 DEF DocumentsSound
<1>4. TD!AcceptedStays'
  BY <1>1 DEF DocumentsIInv, TD!AcceptedStays
<1>5. DocumentsForward
  <2>1. \A c \in TD!Coll : docs[c].rows \in Seq(TD!Row)
    BY DEF DocumentsIInv, TD!TypeOK, TD!Doc
  <2>2. \A x \in Request : req[x].pc = "put" => req'[x].told # 201
    BY <1>1 DEF DocumentsIInv, DocumentsSound, PutIsSound
  <2> QED BY <2>1, <2>2, GoneOnItself DEF DocumentsForward
<1> QED BY <1>2, <1>3, <1>4, <1>5 DEF DocumentsIInv

LEMMA DocumentsAnswerKeeps ==
  ASSUME DocumentsIInv, NEW r \in Request, NEW status \in TD!Status, TD!Answer(r, status)
  PROVE  DocumentsIInv' /\ DocumentsForward
<1>1. PICK q : q = req[r]
  OBVIOUS
<1>2. PICK h : h = [q EXCEPT !.pc = "done", !.told = status]
  OBVIOUS
<1>3. /\ q \in TD!Handler /\ q = TD!Idle
      /\ req' = [req EXCEPT ![r] = h]
      /\ UNCHANGED <<docs, version, lossy, corruptions>>
  BY <1>1, <1>2 DEF TD!Answer, TD!Store, DocumentsIInv, DocumentsSound, TD!TypeOK
<1>4. q.pc = "idle" /\ q.did = Null
  BY <1>3 DEF TD!Idle
<1>5. h \in TD!Handler /\ h.pc = "done" /\ h.did = Null
  BY <1>2, <1>3, <1>4 DEF TD!Handler
<1>6. h.pc # "idle" /\ h.pc # "put" /\ req[r].pc # "put"
  BY <1>1, <1>4, <1>5
<1> QED BY <1>3, <1>5, <1>6, DocumentsStay

\* A handler starts to wait for its put.
LEMMA DocumentsPutsKeeps ==
  ASSUME DocumentsIInv, NEW r \in Request, NEW c \in TD!Coll, NEW rows \in Seq(TD!Row),
         NEW row \in TD!Row, NEW status \in TD!Status,
         TD!Puts(r, c, rows, row, status),
         \E k \in DOMAIN rows : rows[k] = row,
         StatesFit(c, rows),
         c = "offline_drafts" => DistinctIds(rows) /\ rows = Append(docs[c].rows, row),
         c \notin lossy => GoneOn(docs[c].rows, rows)
  PROVE  DocumentsIInv' /\ DocumentsForward
<1> DEFINE h == [pc |-> "put", coll |-> c, base |-> version[c], rows |-> rows,
                 did |-> row, then |-> status, told |-> 0]
<1>1. /\ req[r].pc = "idle" /\ req' = [req EXCEPT ![r] = h]
      /\ UNCHANGED <<docs, version, lossy, corruptions>>
  BY DEF TD!Puts, TD!Store
<1>2. version[c] \in Nat
  BY DEF DocumentsIInv, TD!TypeOK
<1>3. h \in TD!Handler /\ h.pc = "put" /\ h.told = 0
  BY <1>2 DEF TD!Handler, TD!Status
<1>4. PutIsSound(h)
  BY <1>2 DEF PutIsSound
<1>5. h.pc # "idle" /\ h.told \notin {200, 201} /\ h.coll \in TD!Coll /\ req[r].pc # "put"
  BY <1>1
<1> HIDE DEF h
<1> QED BY <1>1, <1>3, <1>4, <1>5, DocumentsStay

\* What a handler loads.
LEMMA Loaded ==
  ASSUME DocumentsIInv, NEW c \in TD!Coll
  PROVE  /\ TD!Load(c) \in Seq(TD!Row) /\ StatesFit(c, TD!Load(c))
         /\ docs[c].rows \in Seq(TD!Row)
         /\ docs[c].array => TD!Load(c) = docs[c].rows
         /\ c \notin lossy => TD!Load(c) = docs[c].rows
<1>1. docs[c] \in TD!Doc /\ << >> \in Seq(TD!Row)
  BY DEF DocumentsIInv, TD!TypeOK
<1>2. /\ StatesFit(c, docs[c].rows)
      /\ ~docs[c].array /\ c \notin lossy => docs[c].rows = << >>
  BY DEF DocumentsIInv, DocumentsSound
<1>3. StatesFit(c, << >>)
  BY DEF StatesFit
<1> QED BY <1>1, <1>2, <1>3 DEF TD!Load, TD!Doc

LEMMA DocumentsDraftKeeps ==
  ASSUME DocumentsIInv, NEW r \in Request, NEW id \in TD!DraftId, NEW ok \in BOOLEAN,
         TD!UpsertDraft(r, id, ok)
  PROVE  DocumentsIInv' /\ DocumentsForward
<1> DEFINE c == "offline_drafts"
           rows == TD!Load(c)
           row == [id |-> id, state |-> "DRAFT", content |-> Null]
<1>1. \/ \E s \in {400, 404, 409} : TD!Answer(r, s)
      \/ /\ docs[c].array /\ ~TD!DraftExists(rows, id)
         /\ TD!Puts(r, c, TD!Push(rows, row), row, 201)
  BY DEF TD!UpsertDraft, TD!RefStatus
<1>2. CASE \E s \in {400, 404, 409} : TD!Answer(r, s)
  BY <1>2, DocumentsAnswerKeeps DEF TD!Status
<1>3. CASE /\ docs[c].array /\ ~TD!DraftExists(rows, id)
           /\ TD!Puts(r, c, TD!Push(rows, row), row, 201)
  <2>1. c \in TD!Coll /\ row \in TD!Row /\ 201 \in TD!Status /\ row.id = id
        /\ row.state = "DRAFT"
    BY DEF TD!Coll, TD!Row, TD!State, TD!Status
  <2>2. rows \in Seq(TD!Row) /\ StatesFit(c, rows) /\ rows = docs[c].rows
    BY <1>3, <2>1, Loaded
  <2>3. DistinctIds(rows)
    BY <2>2 DEF DocumentsIInv, TD!OneDraftPerId, DistinctIds
  <2>4. \A k \in DOMAIN rows : rows[k].id # id
    BY <1>3 DEF TD!DraftExists, TD!Has
  <2>5. TD!Puts(r, c, Append(rows, row), row, 201)
    BY <1>3 DEF TD!Push
  <2>6. PICK t : t = Append(rows, row)
    OBVIOUS
  <2> HIDE DEF rows, row
  <2>7. /\ t \in Seq(TD!Row) /\ GoneOn(rows, t)
        /\ DOMAIN t = DOMAIN rows \cup {Len(rows) + 1} /\ Len(rows) + 1 \notin DOMAIN rows
        /\ t[Len(rows) + 1] = row /\ \A k \in DOMAIN rows : t[k] = rows[k]
    BY <2>1, <2>2, <2>6, Pushed
  <2>8. StatesFit(c, t) /\ DistinctIds(t)
    BY <2>1, <2>2, <2>3, <2>4, <2>7 DEF StatesFit, StatesOf, DistinctIds
  <2>9. \E k \in DOMAIN t : t[k] = row
    BY <2>7
  <2>10. TD!Puts(r, c, t, row, 201) /\ t = Append(docs[c].rows, row)
         /\ GoneOn(docs[c].rows, t)
    BY <2>2, <2>5, <2>6, <2>7
  <2> HIDE DEF c
  <2> QED BY <2>1, <2>7, <2>8, <2>9, <2>10, DocumentsPutsKeeps
<1> QED BY <1>1, <1>2, <1>3

LEMMA DocumentsCreateRuleKeeps ==
  ASSUME DocumentsIInv, NEW r \in Request, NEW id \in TD!RuleId, NEW x \in Content,
         NEW ok \in BOOLEAN, TD!CreateRule(r, id, x, ok)
  PROVE  DocumentsIInv' /\ DocumentsForward
<1> DEFINE c == "alert_rules"
           rows == TD!Load(c)
           row == [id |-> id, state |-> "LIVE", content |-> x]
<1>1. TD!Answer(r, 400) \/ TD!Puts(r, c, TD!Push(rows, row), row, 201)
  BY DEF TD!CreateRule
<1>2. CASE TD!Answer(r, 400)
  BY <1>2, DocumentsAnswerKeeps DEF TD!Status
<1>3. CASE TD!Puts(r, c, TD!Push(rows, row), row, 201)
  <2>1. c \in TD!Coll /\ c # "offline_drafts" /\ row \in TD!Row /\ 201 \in TD!Status
        /\ row.state = "LIVE"
    BY DEF TD!Coll, TD!Row, TD!State, TD!Status
  <2>2. /\ rows \in Seq(TD!Row) /\ StatesFit(c, rows)
        /\ c \notin lossy => rows = docs[c].rows
    BY <2>1, Loaded
  <2>3. PICK t : t = Append(rows, row)
    OBVIOUS
  <2>4. TD!Puts(r, c, t, row, 201)
    BY <1>3, <2>3 DEF TD!Push
  <2> HIDE DEF rows, row
  <2>5. /\ t \in Seq(TD!Row) /\ GoneOn(rows, t)
        /\ DOMAIN t = DOMAIN rows \cup {Len(rows) + 1}
        /\ t[Len(rows) + 1] = row /\ \A k \in DOMAIN rows : t[k] = rows[k]
    BY <2>1, <2>2, <2>3, Pushed
  <2>6. StatesFit(c, t)
    BY <2>1, <2>2, <2>5 DEF StatesFit, StatesOf
  <2>7. (\E k \in DOMAIN t : t[k] = row) /\ (c \notin lossy => GoneOn(docs[c].rows, t))
    BY <2>2, <2>5
  <2> HIDE DEF c
  <2> QED BY <2>1, <2>4, <2>5, <2>6, <2>7, DocumentsPutsKeeps
<1> QED BY <1>1, <1>2, <1>3

\* A row of a document that is no drafts document is replaced by one that has
\* gone on from it.
LEMMA DocumentsTurnKeeps ==
  ASSUME DocumentsIInv, NEW r \in Request, NEW c \in TD!Coll, c # "offline_drafts",
         NEW n \in DOMAIN TD!Load(c), NEW row \in TD!Row, NEW status \in TD!Status,
         row.id = TD!Load(c)[n].id, row.state \in StatesOf(c),
         TD!Rank(row.state) >= TD!Rank(TD!Load(c)[n].state),
         TD!Puts(r, c, [TD!Load(c) EXCEPT ![n] = row], row, status)
  PROVE  DocumentsIInv' /\ DocumentsForward
<1>1. PICK rows : rows = TD!Load(c)
  OBVIOUS
<1>2. /\ rows \in Seq(TD!Row) /\ StatesFit(c, rows)
      /\ c \notin lossy => rows = docs[c].rows
  BY <1>1, Loaded
<1>3. PICK t : t = [rows EXCEPT ![n] = row]
  OBVIOUS
<1>4. TD!Puts(r, c, t, row, status)
  BY <1>1, <1>3
<1>5. /\ n \in DOMAIN rows /\ row.id = rows[n].id
      /\ TD!Rank(row.state) >= TD!Rank(rows[n].state)
  BY <1>1
<1>6. /\ t \in Seq(TD!Row) /\ GoneOn(rows, t) /\ DOMAIN t = DOMAIN rows
      /\ t[n] = row /\ n \in DOMAIN t
      /\ \A k \in DOMAIN rows \ {n} : t[k] = rows[k]
  BY <1>2, <1>3, <1>5, Replaced
<1>7. StatesFit(c, t)
  BY <1>2, <1>6 DEF StatesFit
<1>8. (\E k \in DOMAIN t : t[k] = row) /\ (c \notin lossy => GoneOn(docs[c].rows, t))
  BY <1>2, <1>6
<1> QED BY <1>4, <1>6, <1>7, <1>8, DocumentsPutsKeeps

\* A rule that may be changed.
LEMMA RuleIsLive ==
  ASSUME DocumentsIInv, NEW id, TD!RuleStatus(TD!Load("alert_rules"), id) = 200
  PROVE  LET rows == TD!Load("alert_rules")
             n == TD!Find(rows, id)
         IN  /\ n \in DOMAIN rows /\ rows[n] \in TD!Row /\ rows[n].id = id
             /\ rows[n].state = "LIVE"
<1> DEFINE rows == TD!Load("alert_rules")
           n == TD!Find(rows, id)
<1>1. TD!Has(rows, id) /\ rows[n].state # "DELETED"
  BY DEF TD!RuleStatus
<1>2. rows \in Seq(TD!Row) /\ StatesFit("alert_rules", rows)
  BY Loaded DEF TD!Coll
<1>3. n \in DOMAIN rows /\ rows[n].id = id
  BY <1>1, <1>2, Found
<1>4. rows[n] \in TD!Row
  BY <1>2, <1>3
<1>5. rows[n].state \in {"LIVE", "DELETED"}
  BY <1>2, <1>3 DEF StatesFit, StatesOf
<1> QED BY <1>1, <1>3, <1>4, <1>5

LEMMA DocumentsRuleKeeps ==
  ASSUME DocumentsIInv, NEW r \in Request, NEW id \in TD!RuleId,
         NEW x \in Content \cup {Null}, NEW ok \in BOOLEAN,
         TD!UpdateRule(r, id, x, ok) \/ TD!SoftDeleteRule(r, id)
  PROVE  DocumentsIInv' /\ DocumentsForward
<1> DEFINE c == "alert_rules"
           rows == TD!Load(c)
           n == TD!Find(rows, id)
           new == [id |-> id, state |-> "LIVE", content |-> x]
           old == [rows[n] EXCEPT !.state = "DELETED"]
<1>1. PICK row \in {new, old} :
        \/ \E s \in {400, 404, 409} : TD!Answer(r, s)
        \/ /\ TD!RuleStatus(rows, id) = 200
           /\ TD!Puts(r, c, [rows EXCEPT ![n] = row], row, 200)
  BY DEF TD!UpdateRule, TD!SoftDeleteRule, TD!RuleStatus
<1>2. CASE \E s \in {400, 404, 409} : TD!Answer(r, s)
  BY <1>2, DocumentsAnswerKeeps DEF TD!Status
<1>3. CASE /\ TD!RuleStatus(rows, id) = 200
           /\ TD!Puts(r, c, [rows EXCEPT ![n] = row], row, 200)
  <2>1. /\ n \in DOMAIN rows /\ rows[n] \in TD!Row /\ rows[n].id = id
        /\ rows[n].state = "LIVE"
    BY <1>3, RuleIsLive
  <2>2. c \in TD!Coll /\ c # "offline_drafts" /\ 200 \in TD!Status
    BY DEF TD!Coll, TD!Status
  <2>3. row \in TD!Row /\ row.id = id /\ row.state \in {"LIVE", "DELETED"}
    <3>1. CASE row = new
      BY <3>1 DEF TD!Row, TD!State
    <3>2. CASE row = old
      BY <2>1, <3>2 DEF TD!Row, TD!State
    <3> QED BY <3>1, <3>2
  <2> HIDE DEF n, new, old
  <2>4. row.state \in StatesOf(c) /\ TD!Rank(row.state) >= TD!Rank(rows[n].state)
    BY <2>1, <2>3, Ranks DEF StatesOf
  <2> HIDE DEF c
  <2> QED BY <1>3, <2>1, <2>2, <2>3, <2>4, DocumentsTurnKeeps
<1> QED BY <1>1, <1>2, <1>3

LEMMA DocumentsAlertKeeps ==
  ASSUME DocumentsIInv, NEW r \in Request, NEW id \in Alert,
         TD!Acknowledge(r, id) \/ TD!Close(r, id)
  PROVE  DocumentsIInv' /\ DocumentsForward
<1> DEFINE c == "alerts"
           rows == TD!Load(c)
           n == TD!Find(rows, id)
<1>1. PICK state \in {"ACKNOWLEDGED", "CLOSED"} :
        \/ \E s \in {404, 409} : TD!Answer(r, s)
        \/ /\ TD!Has(rows, id) /\ rows[n].state # "CLOSED"
           /\ TD!Puts(r, c, [rows EXCEPT ![n] = [rows[n] EXCEPT !.state = state]],
                      [rows[n] EXCEPT !.state = state], 200)
  <2>1. CASE TD!Acknowledge(r, id)
    <3>1. \/ TD!AckStatus(rows, id) # 200 /\ TD!Answer(r, TD!AckStatus(rows, id))
          \/ TD!AckStatus(rows, id) = 200 /\ TD!Turn(r, id, "ACKNOWLEDGED")
      BY <2>1 DEF TD!Acknowledge
    <3>2. TD!AckStatus(rows, id) = 200 => TD!Has(rows, id) /\ rows[n].state # "CLOSED"
      BY DEF TD!AckStatus
    <3>3. TD!AckStatus(rows, id) \in {404, 409, 200}
      BY DEF TD!AckStatus
    <3> QED BY <3>1, <3>2, <3>3 DEF TD!Turn
  <2>2. CASE TD!Close(r, id)
    <3>1. \/ TD!CloseStatus(rows, id) # 200 /\ TD!Answer(r, TD!CloseStatus(rows, id))
          \/ TD!CloseStatus(rows, id) = 200 /\ TD!Turn(r, id, "CLOSED")
      BY <2>2 DEF TD!Close
    <3>2. TD!CloseStatus(rows, id) = 200 => TD!Has(rows, id) /\ rows[n].state # "CLOSED"
      BY DEF TD!CloseStatus
    <3>3. TD!CloseStatus(rows, id) \in {404, 409, 200}
      BY DEF TD!CloseStatus
    <3> QED BY <3>1, <3>2, <3>3 DEF TD!Turn
  <2> QED BY <2>1, <2>2
<1>2. CASE \E s \in {404, 409} : TD!Answer(r, s)
  BY <1>2, DocumentsAnswerKeeps DEF TD!Status
<1>3. CASE /\ TD!Has(rows, id) /\ rows[n].state # "CLOSED"
           /\ TD!Puts(r, c, [rows EXCEPT ![n] = [rows[n] EXCEPT !.state = state]],
                      [rows[n] EXCEPT !.state = state], 200)
  <2>1. c \in TD!Coll /\ c # "offline_drafts" /\ 200 \in TD!Status
    BY DEF TD!Coll, TD!Status
  <2>2. rows \in Seq(TD!Row) /\ StatesFit(c, rows)
    BY <2>1, Loaded
  <2>3. n \in DOMAIN rows /\ rows[n].id = id
    BY <1>3, <2>2, Found
  <2>4. rows[n] \in TD!Row
    BY <2>2, <2>3
  <2>5. rows[n].state \in {"OPEN", "ACKNOWLEDGED"}
    BY <1>3, <2>2, <2>3 DEF StatesFit, StatesOf
  <2>6. PICK row : row = [rows[n] EXCEPT !.state = state]
    OBVIOUS
  <2>7. row \in TD!Row /\ row.id = rows[n].id /\ row.state = state
    BY <2>4, <2>6 DEF TD!Row, TD!State
  <2>8. row.state \in StatesOf(c) /\ TD!Rank(row.state) >= TD!Rank(rows[n].state)
    BY <2>5, <2>7, Ranks DEF StatesOf
  <2>9. TD!Puts(r, c, [rows EXCEPT ![n] = row], row, 200)
    BY <1>3, <2>6
  <2> HIDE DEF n, c
  <2> QED BY <2>1, <2>3, <2>7, <2>8, <2>9, DocumentsTurnKeeps
<1> QED BY <1>1, <1>2, <1>3

-----------------------------------------------------------------------------
\* The put.
LEMMA DocumentsSaveKeeps ==
  ASSUME DocumentsIInv, NEW r \in Request, TD!Save(r)
  PROVE  DocumentsIInv' /\ DocumentsForward
<1>1. PICK q : q = req[r]
  OBVIOUS
<1>2. PICK c : c = q.coll
  OBVIOUS
<1>3. /\ q \in TD!Handler /\ q.pc = "put" /\ PutIsSound(q)
      /\ docs' = [docs EXCEPT ![c] = [array |-> TRUE, rows |-> q.rows]]
      /\ version' = [version EXCEPT ![c] = version[c] + 1]
      /\ lossy' = IF q.base = version[c] THEN lossy ELSE lossy \cup {c}
      /\ req' = [req EXCEPT ![r].pc = "done", ![r].told = q.then]
      /\ corruptions' = corruptions
  BY <1>1, <1>2 DEF TD!Save, DocumentsIInv, TD!TypeOK, DocumentsSound
<1>4. c \in TD!Coll /\ q.rows \in Seq(TD!Row) /\ version[c] \in Nat /\ q.base \in Nat
  BY <1>2, <1>3 DEF PutIsSound, TD!Handler, DocumentsIInv, TD!TypeOK
<1>5. /\ docs \in [TD!Coll -> TD!Doc] /\ version \in [TD!Coll -> Nat]
      /\ req \in [Request -> TD!Handler] /\ lossy \subseteq TD!Coll
  BY DEF DocumentsIInv, TD!TypeOK
<1>6. /\ docs'[c].rows = q.rows /\ docs'[c].array
      /\ \A d \in TD!Coll \ {c} : docs'[d] = docs[d] /\ version'[d] = version[d]
      /\ version'[c] = version[c] + 1
      /\ \A d \in TD!Coll : d \in lossy => d \in lossy'
      /\ \A d \in TD!Coll \ {c} : d \in lossy' => d \in lossy
      /\ c \notin lossy' => c \notin lossy /\ q.base = version[c]
  BY <1>3, <1>4, <1>5
<1>7. /\ req'[r].pc = "done" /\ req'[r].coll = c /\ req'[r].did = q.did
      /\ \A x \in Request \ {r} : req'[x] = req[x]
  BY <1>1, <1>2, <1>3, <1>5 DEF TD!Handler
<1>8. \A d \in TD!Coll \ lossy' : GoneOn(docs[d].rows, docs'[d].rows)
  <2> SUFFICES ASSUME NEW d \in TD!Coll, d \notin lossy'
               PROVE  GoneOn(docs[d].rows, docs'[d].rows)
    OBVIOUS
  <2>1. docs[d].rows \in Seq(TD!Row)
    BY <1>5 DEF TD!Doc
  <2>2. CASE d = c
    BY <1>2, <1>3, <1>6, <2>2 DEF PutIsSound
  <2>3. CASE d # c
    BY <1>6, <2>1, <2>3, GoneOnItself
  <2> QED BY <2>2, <2>3
<1>9. TD!TypeOK'
  <2>1. [array |-> TRUE, rows |-> q.rows] \in TD!Doc /\ version[c] + 1 \in Nat
    BY <1>4 DEF TD!Doc
  <2>2. docs' \in [TD!Coll -> TD!Doc] /\ version' \in [TD!Coll -> Nat]
    BY <1>3, <1>5, <2>1
  <2>3. lossy' \subseteq TD!Coll
    BY <1>3, <1>4, <1>5
  <2>4. req' \in [Request -> TD!Handler]
    <3>1. [q EXCEPT !.pc = "done", !.told = q.then] \in TD!Handler
      BY <1>3 DEF TD!Handler
    <3>2. req' = [req EXCEPT ![r] = [q EXCEPT !.pc = "done", !.told = q.then]]
      BY <1>1, <1>3, <1>5
    <3> QED BY <1>5, <3>1, <3>2
  <2> QED BY <1>3, <2>2, <2>3, <2>4 DEF DocumentsIInv, TD!TypeOK
<1>10. TD!OneDraftPerId'
  <2>1. "offline_drafts" \in TD!Coll
    BY DEF TD!Coll
  <2>2. DistinctIds(docs'["offline_drafts"].rows)
    <3>1. CASE c = "offline_drafts"
      BY <1>2, <1>3, <1>6, <3>1 DEF PutIsSound
    <3>2. CASE c # "offline_drafts"
      BY <1>6, <2>1, <3>2 DEF DocumentsIInv, TD!OneDraftPerId, DistinctIds
    <3> QED BY <3>1, <3>2
  <2> QED BY <2>2 DEF TD!OneDraftPerId, DistinctIds
<1>11. DocumentsSound'
  <2>1. ASSUME NEW d \in TD!Coll
        PROVE  /\ StatesFit(d, docs'[d].rows)
               /\ ~docs'[d].array /\ d \notin lossy' => docs'[d].rows = << >>
    <3>1. CASE d = c
      BY <1>2, <1>3, <1>6, <3>1 DEF PutIsSound
    <3>2. CASE d # c
      BY <1>6, <3>2 DEF DocumentsIInv, DocumentsSound
    <3> QED BY <3>1, <3>2
  <2>2. ASSUME NEW x \in Request, req'[x].pc = "put" PROVE PutIsSound(req[x])'
    <3>1. x # r /\ req'[x] = req[x] /\ PutIsSound(req[x])
      BY <1>7, <2>2 DEF DocumentsIInv, DocumentsSound
    <3>2. PICK h : h = req[x]
      OBVIOUS
    <3>3. h \in TD!Handler /\ h.coll \in TD!Coll /\ h.base \in Nat /\ PutIsSound(h)
      BY <1>5, <3>1, <3>2 DEF PutIsSound, TD!Handler
    <3>4. CASE h.coll = c
      <4>1. h.base <= version[c] /\ h.base # version'[c] /\ h.base <= version'[c]
        BY <1>4, <1>6, <3>3, <3>4 DEF PutIsSound
      <4> QED BY <3>1, <3>2, <3>3, <3>4, <4>1 DEF PutIsSound
    <3>5. CASE h.coll # c
      <4>1. /\ docs'[h.coll] = docs[h.coll] /\ version'[h.coll] = version[h.coll]
            /\ h.coll \notin lossy' => h.coll \notin lossy
        BY <1>6, <3>3, <3>5
      <4> QED BY <3>1, <3>2, <3>3, <4>1 DEF PutIsSound
    <3> QED BY <3>4, <3>5
  <2>3. ASSUME NEW x \in Request
        PROVE  /\ req'[x].pc = "idle" => req'[x] = TD!Idle
               /\ req'[x].did # Null => req'[x].coll \in TD!Coll
    <3>1. CASE x = r
      BY <1>1, <1>2, <1>3, <1>4, <1>7, <3>1 DEF PutIsSound
    <3>2. CASE x # r
      BY <1>7, <3>2 DEF DocumentsIInv, DocumentsSound
    <3> QED BY <3>1, <3>2
  <2> QED BY <2>1, <2>2, <2>3 DEF DocumentsSound
<1>12. TD!AcceptedStays'
  <2> SUFFICES ASSUME NEW x \in Request, req'[x].told \in {200, 201}, req'[x].did # Null,
                      req'[x].coll \notin lossy'
               PROVE  \E k \in DOMAIN docs'[req'[x].coll].rows :
                        /\ docs'[req'[x].coll].rows[k].id = req'[x].did.id
                        /\ TD!Rank(docs'[req'[x].coll].rows[k].state)
                             >= TD!Rank(req'[x].did.state)
    BY DEF TD!AcceptedStays
  <2>1. CASE x = r
    <3>1. PICK k \in DOMAIN q.rows : q.rows[k] = q.did
      BY <1>3 DEF PutIsSound
    <3>2. TD!Rank(q.did.state) \in 0..2
      BY <1>3, RowState DEF PutIsSound
    <3> QED BY <1>6, <1>7, <2>1, <3>1, <3>2
  <2>2. CASE x # r
    <3>1. PICK h : h = req[x]
      OBVIOUS
    <3>2. req'[x] = h /\ h \in TD!Handler
      BY <1>5, <1>7, <2>2, <3>1
    <3>3. CASE h.coll \in TD!Coll
      <4>1. h.coll \notin lossy /\ GoneOn(docs[h.coll].rows, docs'[h.coll].rows)
        BY <1>6, <1>8, <3>2, <3>3
      <4>2. PICK k \in DOMAIN docs[h.coll].rows :
              /\ docs[h.coll].rows[k].id = h.did.id
              /\ TD!Rank(docs[h.coll].rows[k].state) >= TD!Rank(h.did.state)
        BY <3>1, <3>2, <4>1 DEF DocumentsIInv, TD!AcceptedStays
      <4>3. docs[h.coll].rows \in Seq(TD!Row) /\ docs'[h.coll].rows \in Seq(TD!Row)
        BY <1>9, <3>3 DEF DocumentsIInv, TD!TypeOK, TD!Doc
      <4>4. k \in DOMAIN docs'[h.coll].rows
            /\ docs'[h.coll].rows[k].id = docs[h.coll].rows[k].id
            /\ TD!Rank(docs'[h.coll].rows[k].state) >= TD!Rank(docs[h.coll].rows[k].state)
        BY <4>1, <4>2 DEF GoneOn
      <4>5. /\ TD!Rank(docs[h.coll].rows[k].state) \in Int
            /\ TD!Rank(docs'[h.coll].rows[k].state) \in Int
        BY <4>2, <4>3, <4>4, RowState
      <4>6. TD!Rank(h.did.state) \in Int
        BY <3>2, RowState DEF TD!Handler
      <4> QED BY <3>2, <4>2, <4>4, <4>5, <4>6
    <3> QED BY <3>1, <3>2, <3>3 DEF DocumentsIInv, DocumentsSound
  <2> QED BY <2>1, <2>2
<1>13. DocumentsForward
  <2>1. ASSUME NEW x \in Request, req[x].pc = "put", req'[x].told = 201,
               req[x].coll = "offline_drafts", req[x].base = version[req[x].coll]
        PROVE  TD!ToSet(docs[req[x].coll].rows) \subseteq TD!ToSet(docs'[req[x].coll].rows)
    <3>1. x = r
      BY <1>7, <2>1 DEF DocumentsIInv, DocumentsSound, PutIsSound
    <3>2. q.rows = Append(docs[c].rows, q.did) /\ docs[c].rows \in Seq(TD!Row)
          /\ q.did \in TD!Row
      BY <1>1, <1>2, <1>3, <1>4, <1>5, <2>1, <3>1 DEF PutIsSound, TD!Doc
    <3>3. /\ DOMAIN q.rows = DOMAIN docs[c].rows \cup {Len(docs[c].rows) + 1}
          /\ \A k \in DOMAIN docs[c].rows : q.rows[k] = docs[c].rows[k]
      BY <3>2, Pushed
    <3> QED BY <1>1, <1>2, <1>6, <3>1, <3>3 DEF TD!ToSet
  <2> QED BY <1>8, <2>1 DEF DocumentsForward
<1> QED BY <1>9, <1>10, <1>11, <1>12, <1>13 DEF DocumentsIInv

LEMMA DocumentsSaveFailsKeeps ==
  ASSUME DocumentsIInv, NEW r \in Request, TD!SaveFails(r)
  PROVE  DocumentsIInv' /\ DocumentsForward
<1>1. PICK q : q = req[r]
  OBVIOUS
<1>2. PICK h : h = [q EXCEPT !.pc = "done", !.told = 500]
  OBVIOUS
<1>3. /\ q \in TD!Handler /\ q.pc = "put" /\ req' = [req EXCEPT ![r] = h]
      /\ UNCHANGED <<docs, version, lossy, corruptions>>
      /\ q.did # Null => q.coll \in TD!Coll
  BY <1>1, <1>2 DEF TD!SaveFails, TD!Store, DocumentsIInv, TD!TypeOK, DocumentsSound
<1>4. /\ h.pc = "done" /\ h.told = 500 /\ h.coll = q.coll /\ h.did = q.did
      /\ h = [pc |-> "done", coll |-> q.coll, base |-> q.base, rows |-> q.rows,
              did |-> q.did, then |-> q.then, told |-> 500]
  BY <1>2, <1>3 DEF TD!Handler
<1>5. h \in TD!Handler
  <2>1. 500 \in TD!Status
    BY DEF TD!Status
  <2> QED BY <1>3, <1>4, <2>1 DEF TD!Handler
<1>6. h.pc # "idle" /\ h.pc # "put" /\ h.told \notin {200, 201}
  BY <1>4
<1>7. h.did # Null => h.coll \in TD!Coll
  BY <1>3, <1>4
<1>8. /\ h.pc = "put" => PutIsSound(h)
      /\ h.told \in {200, 201} => h.did = Null
      /\ req[r].pc = "put" => h.told # 201
  BY <1>4, <1>6
<1>9. UNCHANGED <<docs, version, lossy, corruptions>> /\ req' = [req EXCEPT ![r] = h]
  BY <1>3
<1> QED BY <1>5, <1>6, <1>7, <1>8, <1>9, DocumentsStay

\* A document is damaged: its rows are still stored, but not read any more.
LEMMA DocumentsCorruptKeeps ==
  ASSUME DocumentsIInv, NEW bad \in TD!Coll, TD!Corrupt(bad)
  PROVE  DocumentsIInv' /\ DocumentsForward
<1>1. /\ docs' = [docs EXCEPT ![bad].array = FALSE] /\ lossy' = lossy \cup {bad}
      /\ corruptions < MaxCorruptions /\ corruptions' = corruptions + 1
      /\ version' = version /\ req' = req
  BY DEF TD!Corrupt
<1>2. docs \in [TD!Coll -> TD!Doc]
  BY DEF DocumentsIInv, TD!TypeOK
<1>3. /\ docs' \in [TD!Coll -> TD!Doc]
      /\ \A d \in TD!Coll : docs'[d].rows = docs[d].rows
      /\ \A d \in TD!Coll \ {bad} : docs'[d] = docs[d]
  BY <1>1, <1>2 DEF TD!Doc
<1>4. TD!TypeOK'
  BY <1>1, <1>3, ServicesAssumption
     DEF DocumentsIInv, TD!TypeOK, TD!TenantDocumentsAssumption
<1>5. DocumentsSound'
  <2>1. \A d \in TD!Coll :
          /\ StatesFit(d, docs'[d].rows)
          /\ ~docs'[d].array /\ d \notin lossy' => docs'[d].rows = << >>
    BY <1>1, <1>3 DEF DocumentsIInv, DocumentsSound
  <2>2. ASSUME NEW x \in Request, req'[x].pc = "put" PROVE PutIsSound(req[x])'
    BY <1>1, <1>3, <2>2 DEF DocumentsIInv, DocumentsSound, PutIsSound
  <2>3. \A x \in Request : /\ req'[x].pc = "idle" => req'[x] = TD!Idle
                           /\ req'[x].did # Null => req'[x].coll \in TD!Coll
    BY <1>1 DEF DocumentsIInv, DocumentsSound
  <2> QED BY <2>1, <2>2, <2>3 DEF DocumentsSound
<1>6. TD!OneDraftPerId'
  <2>1. docs'["offline_drafts"].rows = docs["offline_drafts"].rows
    BY <1>3 DEF TD!Coll
  <2> QED BY <2>1 DEF DocumentsIInv, TD!OneDraftPerId
<1>7. TD!AcceptedStays'
  <2> SUFFICES ASSUME NEW r \in Request, req[r].told \in {200, 201}, req[r].did # Null,
                      req[r].coll \notin lossy'
               PROVE  \E k \in DOMAIN docs'[req[r].coll].rows :
                        /\ docs'[req[r].coll].rows[k].id = req[r].did.id
                        /\ TD!Rank(docs'[req[r].coll].rows[k].state)
                             >= TD!Rank(req[r].did.state)
    BY <1>1 DEF TD!AcceptedStays
  <2>1. req[r].coll \in TD!Coll
    BY DEF DocumentsIInv, DocumentsSound
  <2> QED BY <1>1, <1>3, <2>1 DEF DocumentsIInv, TD!AcceptedStays
<1>8. DocumentsForward
  <2>1. \A d \in TD!Coll : docs[d].rows \in Seq(TD!Row)
    BY <1>2 DEF TD!Doc
  <2>2. \A x \in Request : req[x].pc = "put" => req'[x].told # 201
    BY <1>1 DEF DocumentsIInv, DocumentsSound, PutIsSound
  <2> QED BY <1>3, <2>1, <2>2, GoneOnItself DEF DocumentsForward
<1> QED BY <1>4, <1>5, <1>6, <1>7, <1>8 DEF DocumentsIInv

LEMMA DocumentsStart == TD!Init => DocumentsIInv
<1> SUFFICES ASSUME TD!Init PROVE DocumentsIInv
  OBVIOUS
<1>1. /\ version = [c \in TD!Coll |-> 0] /\ lossy = {} /\ corruptions = 0
      /\ req = [r \in Request |-> TD!Idle]
  BY DEF TD!Init
<1>2. /\ \A c \in TD!Coll : docs[c] \in TD!Doc /\ StatesFit(c, docs[c].rows)
                           /\ (~docs[c].array => docs[c].rows = << >>)
      /\ docs["offline_drafts"].rows = << >> /\ docs \in [TD!Coll -> TD!Doc]
  <2>1. PICK d \in {TD!NoDoc, [array |-> TRUE, rows |-> << >>]},
             a \in {TD!NoDoc} \cup
                   {[array |-> TRUE,
                     rows |-> <<[id |-> x, state |-> "OPEN", content |-> Null]>>] :
                      x \in Alert} :
          docs = [offline_drafts |-> d, alert_rules |-> TD!NoDoc, alerts |-> a]
    BY DEF TD!Init
  <2>2. /\ TD!NoDoc \in TD!Doc /\ TD!NoDoc.rows = << >>
        /\ d \in TD!Doc /\ d.rows = << >>
    <3>1. << >> \in Seq(TD!Row)
      OBVIOUS
    <3>2. /\ [array |-> TRUE, rows |-> << >>] \in TD!Doc
          /\ TD!NoDoc \in TD!Doc /\ TD!NoDoc.rows = << >>
      BY <3>1 DEF TD!NoDoc, TD!Doc
    <3>3. CASE d = TD!NoDoc
      BY <3>2, <3>3
    <3>4. CASE d = [array |-> TRUE, rows |-> << >>]
      BY <3>2, <3>4
    <3> QED BY <2>1, <3>2, <3>3, <3>4
  <2>3. a \in TD!Doc /\ StatesFit("alerts", a.rows) /\ (~a.array => a.rows = << >>)
    <3>1. CASE a = TD!NoDoc
      BY <2>2, <3>1 DEF StatesFit
    <3>2. CASE a # TD!NoDoc
      <4>1. PICK x \in Alert :
              a = [array |-> TRUE, rows |-> <<[id |-> x, state |-> "OPEN", content |-> Null]>>]
        BY <3>2
      <4>2. [id |-> x, state |-> "OPEN", content |-> Null] \in TD!Row
        BY DEF TD!Row, TD!State
      <4> QED BY <4>1, <4>2 DEF TD!Doc, StatesFit, StatesOf
    <3> QED BY <3>1, <3>2
  <2>4. docs["offline_drafts"] = d /\ docs["alert_rules"] = TD!NoDoc /\ docs["alerts"] = a
    BY <2>1
  <2>5. DOMAIN docs = TD!Coll /\ docs = [c \in TD!Coll |-> docs[c]]
    BY <2>1 DEF TD!Coll
  <2>6. \A c : StatesFit(c, << >>)
    BY DEF StatesFit
  <2>7. ASSUME NEW c \in TD!Coll
        PROVE  docs[c] \in TD!Doc /\ StatesFit(c, docs[c].rows)
               /\ (~docs[c].array => docs[c].rows = << >>)
    BY <2>2, <2>3, <2>4, <2>6 DEF TD!Coll
  <2> QED BY <2>2, <2>4, <2>5, <2>7
<1>3. TD!TypeOK
  <2>1. << >> \in Seq(TD!Row) /\ 0 \in TD!Status
    BY DEF TD!Status
  <2>2. TD!Idle \in TD!Handler
    BY <2>1 DEF TD!Idle, TD!Handler
  <2> QED BY <1>1, <1>2, <2>2, ServicesAssumption DEF TD!TypeOK, TD!TenantDocumentsAssumption
<1>4. DocumentsSound
  BY <1>1, <1>2 DEF DocumentsSound, TD!Idle
<1>5. TD!OneDraftPerId /\ TD!AcceptedStays
  BY <1>1, <1>2 DEF TD!OneDraftPerId, TD!AcceptedStays, TD!Idle
<1> QED BY <1>3, <1>4, <1>5 DEF DocumentsIInv

LEMMA DocumentsKeep ==
  DocumentsIInv /\ [TD!Next]_documentVars => DocumentsIInv' /\ DocumentsForward
<1> SUFFICES ASSUME DocumentsIInv, [TD!Next]_documentVars
             PROVE  DocumentsIInv' /\ DocumentsForward
  OBVIOUS
<1>1. CASE UNCHANGED documentVars
  <2>1. DocumentsIInv'
    BY <1>1 DEF documentVars, DocumentsIInv, TD!TypeOK, DocumentsSound, PutIsSound,
                TD!OneDraftPerId, TD!AcceptedStays
  <2>2. \A c \in TD!Coll : docs[c].rows \in Seq(TD!Row)
    BY DEF DocumentsIInv, TD!TypeOK, TD!Doc
  <2> QED BY <1>1, <2>1, <2>2, GoneOnItself DEF documentVars, DocumentsForward
<1>2. CASE TD!Next
  <2>1. ASSUME NEW r \in Request, NEW ok \in BOOLEAN,
               TD!PostCycleCountDraft(r, ok) \/ TD!PostReceiptDraft(r, ok)
        PROVE  DocumentsIInv' /\ DocumentsForward
    <3>1. PICK id \in TD!DraftId : TD!UpsertDraft(r, id, ok)
      BY <2>1 DEF TD!PostCycleCountDraft, TD!PostReceiptDraft, TD!DraftId
    <3> QED BY <3>1, DocumentsDraftKeeps
  <2>2. ASSUME NEW r \in Request, NEW ok \in BOOLEAN, NEW dev \in BOOLEAN,
               NEW x \in Content,
               \/ TD!NodeCreateRule(r, x, ok) \/ TD!WorkerPostRule(r, x, ok, dev)
               \/ TD!DevLowStockRule(r, x, ok, dev)
        PROVE  DocumentsIInv' /\ DocumentsForward
    <3>1. PICK id \in TD!RuleId : TD!CreateRule(r, id, x, ok) \/ TD!Answer(r, 403)
      BY <2>2 DEF TD!NodeCreateRule, TD!WorkerPostRule, TD!DevLowStockRule, TD!RuleId,
                  TD!NodeId
    <3>2. 403 \in TD!Status
      BY DEF TD!Status
    <3> QED BY <3>1, <3>2, DocumentsCreateRuleKeeps, DocumentsAnswerKeeps
  <2>3. ASSUME NEW r \in Request, NEW id \in TD!RuleId,
               \/ TD!SoftDeleteRule(r, id)
               \/ \E ok \in BOOLEAN, x \in Content : TD!UpdateRule(r, id, x, ok)
        PROVE  DocumentsIInv' /\ DocumentsForward
    BY <2>3, DocumentsRuleKeeps
  <2>4. ASSUME NEW r \in Request, NEW id \in Alert,
               TD!Acknowledge(r, id) \/ TD!Close(r, id)
        PROVE  DocumentsIInv' /\ DocumentsForward
    BY <2>4, DocumentsAlertKeeps
  <2>5. ASSUME NEW r \in Request,
               \/ TD!GetManifest(r) \/ TD!ListNotifications(r) \/ TD!ListRules(r)
               \/ TD!LoadFails(r) \/ \E ok \in BOOLEAN : TD!ListAlerts(r, ok)
               \/ \E dev \in BOOLEAN : TD!DevEvaluate(r, dev)
               \/ \E id \in Alert : TD!GetAlert(r, id)
        PROVE  DocumentsIInv' /\ DocumentsForward
    <3>1. PICK s \in {200, 400, 403, 404, 500} : TD!Answer(r, s)
      BY <2>5 DEF TD!GetManifest, TD!ListNotifications, TD!ListRules, TD!LoadFails,
                  TD!ListAlerts, TD!DevEvaluate, TD!GetAlert
    <3> QED BY <3>1, DocumentsAnswerKeeps DEF TD!Status
  <2> QED BY <1>2, <2>1, <2>2, <2>3, <2>4, <2>5, DocumentsSaveKeeps,
             DocumentsSaveFailsKeeps, DocumentsCorruptKeeps
          DEF TD!Next, TD!Node, TD!Worker, TD!Both
<1> QED BY <1>1, <1>2

-----------------------------------------------------------------------------
-----------------------------------------------------------------------------
(* The vendors (Vendors)                                                   *)

VendorsIInv == VE!TypeOK /\ VE!CreatedStay /\ VE!EvidenceStays

\* What a step may do to the data of tenants other than the one it answers.
VendorsApart ==
  \A t \in Tenants :
    bucket'[t] # bucket[t] =>
      \/ vendorAnswer'.tenant = t /\ stops' = stops
      \/ /\ stops' > stops
         /\ vendorAnswer' = vendorAnswer \/ bucket[vendorAnswer'.tenant].rules # Null

\* What an answer is.
LEMMA VendorsSays ==
  ASSUME NEW t \in Tenants \cup {Null}, NEW status \in VE!Status, NEW A \in SUBSET VE!Id,
         NEW E \in SUBSET VE!Id, VE!Says(t, status, A, E)
  PROVE  /\ vendorAnswer' \in [tenant : Tenants \cup {Null}, status : VE!Status,
                               asked : SUBSET VE!Id, eligible : SUBSET VE!Id]
         /\ vendorAnswer'.tenant = t
BY DEF VE!Says

LEMMA VendorsTells ==
  ASSUME NEW t \in Tenants \cup {Null}, NEW status \in VE!Status, VE!Tells(t, status)
  PROVE  /\ vendorAnswer' \in [tenant : Tenants \cup {Null}, status : VE!Status,
                               asked : SUBSET VE!Id, eligible : SUBSET VE!Id]
         /\ vendorAnswer'.tenant = t
BY VendorsSays DEF VE!Tells

\* An answer to a question, which changes nothing.
LEMMA VendorsSaysKeeps ==
  ASSUME VendorsIInv, NEW t \in Tenants \cup {Null}, NEW status \in VE!Status,
         NEW A \in SUBSET VE!Id, NEW E \in SUBSET VE!Id, VE!Says(t, status, A, E),
         UNCHANGED <<bucket, vendorIds, acked, stops>>
  PROVE  VendorsIInv' /\ VendorsApart
<1>1. VE!TypeOK'
  BY VendorsSays DEF VendorsIInv, VE!TypeOK
<1>2. (VE!CreatedStay /\ VE!EvidenceStays)' /\ VendorsApart
  BY DEF VendorsIInv, VE!CreatedStay, VE!EvidenceStays, VE!Has, VendorsApart
<1> QED BY <1>1, <1>2 DEF VendorsIInv

\* An answer that changes nothing.
LEMMA VendorsAnswersKeeps ==
  ASSUME VendorsIInv, NEW t \in Tenants \cup {Null}, NEW status \in VE!Status,
         VE!Answers(t, status)
  PROVE  VendorsIInv' /\ VendorsApart
BY VendorsSaysKeeps DEF VE!Answers, VE!Tells

\* The data of one tenant is replaced, and its vendors are still the created ones.
LEMMA VendorsChangeKeeps ==
  ASSUME VendorsIInv, NEW t \in Tenants, NEW b \in VE!Bucket, NEW A \in SUBSET VE!Id,
         bucket' = [bucket EXCEPT ![t] = b],
         acked' = acked \cup {<<t, i>> : i \in A},
         vendorIds' \in 0..MaxVendors, stops' = stops,
         NEW status \in VE!Status, VE!Tells(t, status),
         \A i \in VE!Id :
           /\ b.vendors[i] # Null <=> VE!Has(t, i) \/ i \in A
           /\ b.vendors[i] # Null <=> b.evidence[i] # Null
           /\ b.vendors[i] # Null => b.vendors[i].createdAt = i
  PROVE  VendorsIInv' /\ VendorsApart
<1>1. bucket \in [Tenants -> VE!Bucket] /\ acked \in SUBSET (Tenants \X VE!Id)
  BY DEF VendorsIInv, VE!TypeOK
<1>2. bucket'[t] = b /\ \A u \in Tenants \ {t} : bucket'[u] = bucket[u]
  BY <1>1
<1>3. VE!TypeOK'
  BY <1>1, VendorsTells DEF VendorsIInv, VE!TypeOK
<1>4. (VE!CreatedStay /\ VE!EvidenceStays)'
  <2> SUFFICES ASSUME NEW u \in Tenants, NEW i \in VE!Id
               PROVE  /\ bucket'[u].vendors[i] # Null <=> <<u, i>> \in acked'
                      /\ bucket'[u].vendors[i] # Null <=> bucket'[u].evidence[i] # Null
                      /\ bucket'[u].vendors[i] # Null => bucket'[u].vendors[i].createdAt = i
    BY DEF VE!CreatedStay, VE!EvidenceStays, VE!Has
  <2>1. CASE u = t
    <3>1. <<t, i>> \in acked' <=> <<t, i>> \in acked \/ i \in A
      OBVIOUS
    <3>2. <<t, i>> \in acked <=> VE!Has(t, i)
      BY DEF VendorsIInv, VE!CreatedStay, VE!EvidenceStays
    <3> QED BY <1>2, <2>1, <3>1, <3>2
  <2>2. CASE u # t
    <3>1. <<u, i>> \in acked' <=> <<u, i>> \in acked
      BY <2>2
    <3> QED BY <1>2, <2>2, <3>1 DEF VendorsIInv, VE!CreatedStay, VE!EvidenceStays, VE!Has
  <2> QED BY <2>1, <2>2
<1>5. VendorsApart
  BY <1>2, VendorsTells DEF VendorsApart
<1> QED BY <1>3, <1>4, <1>5, VendorsTells DEF VendorsIInv

\* A vendor is put.
LEMMA VendorsPutKeeps ==
  ASSUME VendorsIInv, NEW t \in Tenants, NEW i \in VE!Id, NEW v \in VE!Vendor,
         v.createdAt = i, VE!PutVendor(t, i, v), vendorIds' \in 0..MaxVendors,
         acked' = acked \cup {<<t, i>>}, stops' = stops,
         NEW status \in VE!Status, VE!Tells(t, status)
  PROVE  VendorsIInv' /\ VendorsApart
<1> DEFINE o == bucket[t]
           e == IF o.evidence[i] = Null THEN VE!NoDocuments ELSE o.evidence[i]
           b == [o EXCEPT !.vendors[i] = v, !.evidence[i] = e]
<1>1. o \in VE!Bucket
  BY DEF VendorsIInv, VE!TypeOK
<1>2. bucket' = [bucket EXCEPT ![t] = b]
  BY DEF VE!PutVendor, VendorsIInv, VE!TypeOK
<1>3. v # Null /\ e # Null /\ e \in Document \cup {VE!NoDocuments, Null}
  BY <1>1, ServicesAssumption DEF VE!VendorsAssumption, VE!Bucket
<1>4. b \in VE!Bucket
  BY <1>1, <1>3 DEF VE!Bucket
<1>5. /\ b.vendors = [o.vendors EXCEPT ![i] = v]
      /\ b.evidence = [o.evidence EXCEPT ![i] = e]
  BY <1>1 DEF VE!Bucket
<1>6. \A j \in VE!Id :
        /\ b.vendors[j] # Null <=> VE!Has(t, j) \/ j \in {i}
        /\ b.vendors[j] # Null <=> b.evidence[j] # Null
        /\ b.vendors[j] # Null => b.vendors[j].createdAt = j
  <2>1. /\ o.vendors \in [VE!Id -> VE!Vendor \cup {Null}]
        /\ o.evidence \in [VE!Id -> Document \cup {VE!NoDocuments, Null}]
    BY <1>1 DEF VE!Bucket
  <2> HIDE DEF b, e
  <2>2. ASSUME NEW j \in VE!Id
        PROVE  /\ b.vendors[j] # Null <=> VE!Has(t, j) \/ j \in {i}
               /\ b.vendors[j] # Null <=> b.evidence[j] # Null
               /\ b.vendors[j] # Null => b.vendors[j].createdAt = j
    <3>1. CASE j = i
      BY <1>3, <1>5, <2>1, <3>1
    <3>2. CASE j # i
      <4>1. b.vendors[j] = o.vendors[j] /\ b.evidence[j] = o.evidence[j]
        BY <1>5, <2>1, <3>2
      <4>2. /\ o.vendors[j] # Null <=> VE!Has(t, j)
            /\ o.vendors[j] # Null <=> o.evidence[j] # Null
            /\ o.vendors[j] # Null => o.vendors[j].createdAt = j
        BY DEF VendorsIInv, VE!CreatedStay, VE!EvidenceStays, VE!Has
      <4> QED BY <3>2, <4>1, <4>2
    <3> QED BY <3>1, <3>2
  <2> QED BY <2>2
<1> HIDE DEF b
<1>7. acked' = acked \cup {<<t, j>> : j \in {i}} /\ {i} \in SUBSET VE!Id
  OBVIOUS
<1> QED BY <1>2, <1>4, <1>6, <1>7, VendorsChangeKeeps

LEMMA VendorsCreateKeeps ==
  ASSUME VendorsIInv, NEW t \in Tenants, NEW ok \in BOOLEAN, VE!CreateVendor(t, ok)
  PROVE  VendorsIInv' /\ VendorsApart
<1>1. CASE VE!Answers(t, 400)
  BY <1>1, VendorsAnswersKeeps DEF VE!Status
<1>2. CASE ~VE!Answers(t, 400)
  <2>1. /\ vendorIds < MaxVendors /\ vendorIds' = vendorIds + 1
        /\ acked' = acked \cup {<<t, vendorIds'>>} /\ VE!Tells(t, 201) /\ stops' = stops
    BY <1>2 DEF VE!CreateVendor
  <2>2. PICK s \in VE!VendorStatus :
          VE!PutVendor(t, vendorIds', [status |-> s, createdAt |-> vendorIds'])
    BY <1>2 DEF VE!CreateVendor
  <2>3. PICK i : i = vendorIds'
    OBVIOUS
  <2>4. i \in VE!Id /\ i \in 0..MaxVendors
    BY <2>1, <2>3, ServicesAssumption
       DEF VendorsIInv, VE!TypeOK, VE!Id, VE!VendorsAssumption
  <2> DEFINE v == [status |-> s, createdAt |-> i]
  <2>5. v \in VE!Vendor /\ v.createdAt = i /\ 201 \in VE!Status
    BY <2>4 DEF VE!Vendor, VE!Status
  <2>6. VE!PutVendor(t, i, v)
    BY <2>2, <2>3
  <2> HIDE DEF v
  <2> QED BY <2>1, <2>3, <2>4, <2>5, <2>6, VendorsPutKeeps
<1> QED BY <1>1, <1>2

\* A change of a vendor that is there.
LEMMA VendorsPutsKeeps ==
  ASSUME VendorsIInv, NEW t \in Tenants, NEW i \in VE!Id, NEW v \in VE!Vendor,
         v.createdAt = i, VE!Has(t, i), VE!Puts(t, i, v)
  PROVE  VendorsIInv' /\ VendorsApart
<1>1. <<t, i>> \in acked
  BY DEF VendorsIInv, VE!CreatedStay, VE!EvidenceStays
<1>2. acked' = acked \cup {<<t, i>>} /\ stops' = stops /\ vendorIds' \in 0..MaxVendors
  BY <1>1 DEF VE!Puts, VendorsIInv, VE!TypeOK
<1>3. 200 \in VE!Status /\ VE!PutVendor(t, i, v) /\ VE!Tells(t, 200)
  BY DEF VE!Puts, VE!Status
<1> QED BY <1>2, <1>3, VendorsPutKeeps

\* A refusal of a change.
LEMMA VendorsRefusesKeeps ==
  ASSUME VendorsIInv, NEW t \in Tenants, NEW i \in VE!Id,
         NEW body \in {"missing", "invalid", "good"}, VE!Refuses(t, i, body)
  PROVE  VendorsIInv' /\ VendorsApart
<1>1. VE!ChangeStatus(t, i, body) \in VE!Status
  BY DEF VE!ChangeStatus, VE!Status
<1> QED BY <1>1, VendorsAnswersKeeps DEF VE!Refuses

LEMMA VendorsReplaceKeeps ==
  ASSUME VendorsIInv, NEW t \in Tenants, NEW i \in VE!Id,
         NEW body \in {"missing", "invalid", "good"},
         VE!ReplaceVendor(t, i, body) \/ VE!PatchVendorStatus(t, i, body)
  PROVE  VendorsIInv' /\ VendorsApart
<1>1. CASE VE!Refuses(t, i, body)
  BY <1>1, VendorsRefusesKeeps
<1>2. CASE ~VE!Refuses(t, i, body)
  <2>1. VE!Has(t, i)
    BY <1>2 DEF VE!ReplaceVendor, VE!PatchVendorStatus, VE!ChangeStatus
  <2>2. bucket[t].vendors[i] \in VE!Vendor /\ bucket[t].vendors[i].createdAt = i
    <3>1. bucket[t] \in VE!Bucket /\ bucket[t].vendors[i] # Null
      BY <2>1 DEF VendorsIInv, VE!TypeOK, VE!Has
    <3>2. bucket[t].vendors[i].createdAt = i
      BY <2>1 DEF VendorsIInv, VE!CreatedStay, VE!EvidenceStays
    <3> QED BY <3>1, <3>2 DEF VE!Bucket
  <2>3. PICK s \in VE!VendorStatus :
          VE!Puts(t, i, [status |-> s, createdAt |-> i])
    BY <1>2, <2>2 DEF VE!ReplaceVendor, VE!PatchVendorStatus, VE!Vendor
  <2> DEFINE v == [status |-> s, createdAt |-> i]
  <2>4. v \in VE!Vendor /\ v.createdAt = i /\ VE!Puts(t, i, v)
    BY <2>3 DEF VE!Vendor, VE!Id
  <2> HIDE DEF v
  <2> QED BY <2>1, <2>4, VendorsPutsKeeps
<1> QED BY <1>1, <1>2

LEMMA VendorsEvidenceKeeps ==
  ASSUME VendorsIInv, NEW t \in Tenants, NEW i \in VE!Id,
         NEW body \in {"missing", "invalid", "good"}, VE!ReplaceEvidence(t, i, body)
  PROVE  VendorsIInv' /\ VendorsApart
<1>1. CASE VE!Refuses(t, i, body)
  BY <1>1, VendorsRefusesKeeps
<1>2. CASE ~VE!Refuses(t, i, body)
  <2>1. /\ VE!Has(t, i) /\ VE!Tells(t, 200)
        /\ UNCHANGED <<vendorIds, acked, stops>>
    BY <1>2 DEF VE!ReplaceEvidence, VE!ChangeStatus
  <2>2. PICK d \in Document : bucket' = [bucket EXCEPT ![t].evidence[i] = d]
    BY <1>2 DEF VE!ReplaceEvidence
  <2> DEFINE o == bucket[t]
             b == [o EXCEPT !.evidence[i] = d]
  <2>3. o \in VE!Bucket /\ vendorIds' \in 0..MaxVendors
    BY <2>1 DEF VendorsIInv, VE!TypeOK
  <2>4. d # Null
    BY ServicesAssumption DEF VE!VendorsAssumption
  <2>5. /\ b \in VE!Bucket /\ b.vendors = o.vendors /\ b.evidence[i] = d
        /\ \A j \in VE!Id \ {i} : b.evidence[j] = o.evidence[j]
    BY <2>3 DEF VE!Bucket
  <2>6. bucket' = [bucket EXCEPT ![t] = b]
    BY <2>2
  <2>7. \A j \in VE!Id :
          /\ o.vendors[j] # Null <=> VE!Has(t, j)
          /\ o.vendors[j] # Null <=> o.evidence[j] # Null
          /\ o.vendors[j] # Null => o.vendors[j].createdAt = j
    BY DEF VendorsIInv, VE!CreatedStay, VE!EvidenceStays, VE!Has
  <2> HIDE DEF b, o
  <2>8. \A j \in VE!Id :
          /\ b.vendors[j] # Null <=> VE!Has(t, j) \/ j \in {}
          /\ b.vendors[j] # Null <=> b.evidence[j] # Null
          /\ b.vendors[j] # Null => b.vendors[j].createdAt = j
    BY <2>1, <2>4, <2>5, <2>7
  <2>9. /\ {} \in SUBSET VE!Id /\ acked' = acked \cup {<<t, j>> : j \in {}}
        /\ 200 \in VE!Status
    BY <2>1 DEF VE!Status
  <2> QED BY <2>1, <2>3, <2>5, <2>6, <2>8, <2>9, VendorsChangeKeeps
<1> QED BY <1>1, <1>2

LEMMA VendorsRulesKeeps ==
  ASSUME VendorsIInv, NEW t \in Tenants, NEW ok \in BOOLEAN, VE!ReplaceRules(t, ok)
  PROVE  VendorsIInv' /\ VendorsApart
<1>1. CASE VE!Answers(t, 400)
  BY <1>1, VendorsAnswersKeeps DEF VE!Status
<1>2. CASE ~VE!Answers(t, 400)
  <2>1. VE!Tells(t, 200) /\ UNCHANGED <<vendorIds, acked, stops>>
    BY <1>2 DEF VE!ReplaceRules
  <2>2. PICK r \in Ruleset : bucket' = [bucket EXCEPT ![t].rules = r]
    BY <1>2 DEF VE!ReplaceRules
  <2> DEFINE o == bucket[t]
             b == [o EXCEPT !.rules = r]
  <2>3. o \in VE!Bucket /\ vendorIds' \in 0..MaxVendors
    BY <2>1 DEF VendorsIInv, VE!TypeOK
  <2>4. b \in VE!Bucket /\ b.vendors = o.vendors /\ b.evidence = o.evidence
    BY <2>3 DEF VE!Bucket
  <2>5. bucket' = [bucket EXCEPT ![t] = b]
    BY <2>2
  <2>6. \A j \in VE!Id :
          /\ o.vendors[j] # Null <=> VE!Has(t, j)
          /\ o.vendors[j] # Null <=> o.evidence[j] # Null
          /\ o.vendors[j] # Null => o.vendors[j].createdAt = j
    BY DEF VendorsIInv, VE!CreatedStay, VE!EvidenceStays, VE!Has
  <2> HIDE DEF b, o
  <2>7. \A j \in VE!Id :
          /\ b.vendors[j] # Null <=> VE!Has(t, j) \/ j \in {}
          /\ b.vendors[j] # Null <=> b.evidence[j] # Null
          /\ b.vendors[j] # Null => b.vendors[j].createdAt = j
    BY <2>4, <2>6
  <2>8. /\ {} \in SUBSET VE!Id /\ acked' = acked \cup {<<t, j>> : j \in {}}
        /\ 200 \in VE!Status
    BY <2>1 DEF VE!Status
  <2> QED BY <2>1, <2>3, <2>4, <2>5, <2>7, <2>8, VendorsChangeKeeps
<1> QED BY <1>1, <1>2

\* The process ends: everyone's vendors and rules are gone.
LEMMA VendorsRestartKeeps ==
  ASSUME VendorsIInv, VE!Restarts,
         vendorAnswer' \in [tenant : Tenants \cup {Null}, status : VE!Status,
                            asked : SUBSET VE!Id, eligible : SUBSET VE!Id],
         vendorAnswer' = vendorAnswer \/ bucket[vendorAnswer'.tenant].rules # Null
  PROVE  VendorsIInv' /\ VendorsApart
<1>1. /\ stops < MaxRestarts /\ stops' = stops + 1 /\ acked' = {} /\ vendorIds' = vendorIds
      /\ bucket' = [t \in Tenants |-> VE!EmptyBucket]
  BY DEF VE!Restarts
<1>2. VE!EmptyBucket \in VE!Bucket
  BY DEF VE!EmptyBucket, VE!Bucket
<1>3. stops' \in 0..MaxRestarts /\ stops' > stops
  BY <1>1, ServicesAssumption DEF VendorsIInv, VE!TypeOK, VE!VendorsAssumption
<1>4. VE!TypeOK'
  BY <1>1, <1>2, <1>3 DEF VendorsIInv, VE!TypeOK
<1>5. (VE!CreatedStay /\ VE!EvidenceStays)'
  BY <1>1 DEF VE!CreatedStay, VE!EvidenceStays, VE!Has, VE!EmptyBucket
<1>6. VendorsApart
  BY <1>3 DEF VendorsApart
<1> QED BY <1>4, <1>5, <1>6 DEF VendorsIInv

LEMMA VendorsAskedKeeps ==
  ASSUME VendorsIInv, NEW t \in Tenants, NEW I \in SUBSET VE!Id, VE!Asked(t, I)
  PROVE  VendorsIInv' /\ VendorsApart
<1>1. CASE \E i \in I : VE!IsVendorEligible(t, i) = "throws" /\ VE!Throws(t, I)
  <2>1. VE!Says(t, 500, I, {}) /\ bucket[t].rules # Null
    BY <1>1 DEF VE!IsVendorEligible, VE!Throws
  <2>2. CASE VE!Restarts
    BY <2>1, <2>2, VendorsSays, VendorsRestartKeeps DEF VE!Status
  <2>3. CASE UNCHANGED <<bucket, vendorIds, acked, stops>>
    BY <2>1, <2>3, VendorsSaysKeeps DEF VE!Status
  <2> QED BY <1>1, <2>2, <2>3 DEF VE!Throws
<1>2. CASE ~\E i \in I : VE!IsVendorEligible(t, i) = "throws" /\ VE!Throws(t, I)
  <2> DEFINE E == {i \in I : VE!IsVendorEligible(t, i) = "yes"}
  <2>1. VE!Says(t, 200, I, E) /\ UNCHANGED <<bucket, vendorIds, acked, stops>>
    BY <1>2 DEF VE!Asked
  <2>2. E \in SUBSET VE!Id /\ 200 \in VE!Status
    BY DEF VE!Status
  <2> HIDE DEF E
  <2> QED BY <2>1, <2>2, VendorsSaysKeeps
<1> QED BY <1>1, <1>2

LEMMA VendorsStart == VE!Init => VendorsIInv
<1> SUFFICES ASSUME VE!Init PROVE VendorsIInv
  OBVIOUS
<1>1. VE!EmptyBucket \in VE!Bucket
  BY DEF VE!EmptyBucket, VE!Bucket
<1>2. VE!TypeOK
  BY <1>1, ServicesAssumption DEF VE!Init, VE!TypeOK, VE!Status, VE!VendorsAssumption
<1>3. VE!CreatedStay /\ VE!EvidenceStays
  BY DEF VE!Init, VE!EmptyBucket, VE!CreatedStay, VE!EvidenceStays, VE!Has
<1> QED BY <1>2, <1>3 DEF VendorsIInv

LEMMA VendorsKeep ==
  VendorsIInv /\ [VE!Next]_vendorVars => VendorsIInv' /\ VendorsApart
<1> SUFFICES ASSUME VendorsIInv, [VE!Next]_vendorVars PROVE VendorsIInv' /\ VendorsApart
  OBVIOUS
<1>1. CASE UNCHANGED vendorVars
  BY <1>1 DEF vendorVars, VendorsIInv, VE!TypeOK, VE!CreatedStay, VE!EvidenceStays, VE!Has, VendorsApart
<1>2. CASE VE!Next
  <2>1. CASE VE!Front
    <3>1. PICK s \in {VE!FrontStatus(override, api, json, me, session) :
                         override, api, json, me, session \in BOOLEAN} \ {0} :
            VE!Answers(Null, s)
      BY <2>1 DEF VE!Front
    <3>2. s \in VE!Status
      BY DEF VE!FrontStatus, VE!Status
    <3> QED BY <3>1, <3>2, VendorsAnswersKeeps
  <2>2. CASE VE!Stopped
    <3>1. vendorAnswer' \in [tenant : Tenants \cup {Null}, status : VE!Status,
                             asked : SUBSET VE!Id, eligible : SUBSET VE!Id]
          /\ vendorAnswer' = vendorAnswer /\ VE!Restarts
      BY <2>2 DEF VE!Stopped, VendorsIInv, VE!TypeOK
    <3> QED BY <3>1, VendorsRestartKeeps
  <2>3. ASSUME NEW t \in Tenants,
               \/ VE!RouteAuthed(t) \/ VE!ListVendors(t) \/ VE!GetRules(t)
               \/ \E i \in VE!Id : VE!GetVendor(t, i) \/ VE!GetEvidence(t, i)
        PROVE  VendorsIInv' /\ VendorsApart
    <3>1. PICK s \in {404, 405, 409, 200} : VE!Answers(t, s)
      BY <2>3 DEF VE!RouteAuthed, VE!ListVendors, VE!GetRules, VE!GetVendor, VE!GetEvidence
    <3> QED BY <3>1, VendorsAnswersKeeps DEF VE!Status
  <2>4. ASSUME NEW t \in Tenants,
               VE!ListEligible(t) \/ \E i \in VE!Id : VE!GetEligibility(t, i)
        PROVE  VendorsIInv' /\ VendorsApart
    <3>1. \/ \E s \in {409, 404} : VE!Answers(t, s)
          \/ \E I \in SUBSET VE!Id : VE!Asked(t, I)
      <4>1. CASE VE!ListEligible(t)
        <5>1. {i \in VE!Id : VE!Has(t, i)} \in SUBSET VE!Id
          OBVIOUS
        <5> QED BY <4>1, <5>1 DEF VE!ListEligible
      <4>2. CASE \E i \in VE!Id : VE!GetEligibility(t, i)
        <5>1. PICK i \in VE!Id : VE!GetEligibility(t, i)
          BY <4>2
        <5>2. {i} \in SUBSET VE!Id
          OBVIOUS
        <5> QED BY <5>1, <5>2 DEF VE!GetEligibility
      <4> QED BY <2>4, <4>1, <4>2
    <3>2. CASE \E s \in {409, 404} : VE!Answers(t, s)
      BY <3>2, VendorsAnswersKeeps DEF VE!Status
    <3> QED BY <3>1, <3>2, VendorsAskedKeeps
  <2>5. ASSUME NEW t \in Tenants,
               \/ \E ok \in BOOLEAN : VE!CreateVendor(t, ok) \/ VE!ReplaceRules(t, ok)
               \/ \E i \in VE!Id, body \in {"missing", "invalid", "good"} :
                    \/ VE!ReplaceVendor(t, i, body) \/ VE!PatchVendorStatus(t, i, body)
                    \/ VE!ReplaceEvidence(t, i, body)
        PROVE  VendorsIInv' /\ VendorsApart
    BY <2>5, VendorsCreateKeeps, VendorsRulesKeeps, VendorsReplaceKeeps,
       VendorsEvidenceKeeps
  <2> QED BY <1>2, <2>1, <2>2, <2>3, <2>4, <2>5 DEF VE!Next
<1> QED BY <1>1, <1>2

-----------------------------------------------------------------------------
-----------------------------------------------------------------------------
(* The gate (Gateway)                                                      *)

\* What an isolate let pass under a key is what it counted, up to the limit,
\* and no entry is of a window to come.
GatewayCounts ==
  \A i \in Isolate, k \in GW!RateKey :
    /\ rl[i][k] # Null => rl[i][k].window <= now[i]
    /\ granted[i][k] = IF ~GW!Current(i, k) THEN 0
                       ELSE IF rl[i][k].count <= Limit[k[1]] THEN rl[i][k].count
                       ELSE Limit[k[1]]

GatewayIInv ==
  /\ GW!TypeOK /\ GatewayCounts /\ GW!RefusedWhenFull /\ GW!ReadsOwnDocuments

LEMMA GatewayLimits ==
  ASSUME NEW k \in GW!RateKey
  PROVE  Limit[k[1]] \in Nat \ {0}
BY ServicesAssumption DEF GW!GatewayAssumption, GW!RateKey, GW!Class

\* The parts of the state a count or a tick changes.
GatewayTyped ==
  /\ config \in Config
  /\ now \in [Isolate -> 0..MaxWindow]
  /\ rl \in [Isolate -> [GW!RateKey -> [window : 0..MaxWindow, count : Nat] \cup {Null}]]
  /\ granted \in [Isolate -> [GW!RateKey -> Nat]]

\* A count, whether it lets a request pass or not.
LEMMA GatewayCheck ==
  ASSUME GatewayTyped, GatewayCounts, NEW i \in Isolate, NEW k \in GW!RateKey,
         GW!RateLimitCheck(i, k), UNCHANGED <<config, now>>
  PROVE  /\ GatewayTyped' /\ GatewayCounts'
         /\ ~GW!Passes(i, k) => granted'[i][k] = Limit[k[1]]
<1> DEFINE n == GW!Count(i, k)
           e == [window |-> now[i], count |-> n]
           L == Limit[k[1]]
<1>1. L \in Nat \ {0} /\ granted[i][k] \in Nat /\ now[i] \in 0..MaxWindow /\ MaxWindow \in Nat
  BY GatewayLimits, ServicesAssumption DEF GatewayTyped, GW!GatewayAssumption
<1>2. /\ n \in Nat
      /\ GW!Current(i, k) => n = rl[i][k].count + 1 /\ rl[i][k].count \in Nat
      /\ ~GW!Current(i, k) => n = 1
  BY DEF GW!Count, GW!Current, GatewayTyped
<1>3. e \in [window : 0..MaxWindow, count : Nat] /\ e # Null
  BY <1>1, <1>2, ServicesAssumption DEF GW!GatewayAssumption
<1>4. /\ granted[i][k] = IF ~GW!Current(i, k) THEN 0
                         ELSE IF n - 1 <= L THEN n - 1 ELSE L
  BY <1>1, <1>2 DEF GatewayCounts
<1>5. /\ rl' = [rl EXCEPT ![i][k] = e]
      /\ granted' = IF GW!Passes(i, k) THEN [granted EXCEPT ![i][k] = @ + 1] ELSE granted
      /\ GW!Passes(i, k) <=> ~GW!Current(i, k) \/ n <= L
  BY DEF GW!RateLimitCheck, GW!Passes
<1> HIDE DEF n, e, L
<1>6. GatewayTyped'
  BY <1>1, <1>3, <1>5 DEF GatewayTyped
<1>7. granted'[i][k] = IF n <= L THEN n ELSE L
  <2>1. CASE GW!Passes(i, k)
    <3>1. granted'[i][k] = granted[i][k] + 1
      BY <1>5, <2>1 DEF GatewayTyped
    <3> QED BY <1>1, <1>2, <1>4, <1>5, <2>1, <3>1
  <2>2. CASE ~GW!Passes(i, k)
    <3>1. granted'[i][k] = granted[i][k]
      BY <1>5, <2>2
    <3> QED BY <1>1, <1>2, <1>4, <1>5, <2>2, <3>1
  <2> QED BY <2>1, <2>2
<1>8. rl'[i][k] = e
  BY <1>5 DEF GatewayTyped
<1>9. \A j \in Isolate, q \in GW!RateKey :
        j # i \/ q # k => rl'[j][q] = rl[j][q] /\ granted'[j][q] = granted[j][q]
  BY <1>5 DEF GatewayTyped
<1>10. GatewayCounts'
  <2> SUFFICES ASSUME NEW j \in Isolate, NEW q \in GW!RateKey
               PROVE  /\ rl'[j][q] # Null => rl'[j][q].window <= now'[j]
                      /\ granted'[j][q] =
                           IF ~(rl'[j][q] # Null /\ rl'[j][q].window = now'[j]) THEN 0
                           ELSE IF rl'[j][q].count <= Limit[q[1]] THEN rl'[j][q].count
                           ELSE Limit[q[1]]
    BY DEF GatewayCounts, GW!Current
  <2>1. CASE j = i /\ q = k
    BY <1>1, <1>3, <1>7, <1>8, <2>1 DEF e, L
  <2>2. CASE j # i \/ q # k
    BY <1>9, <2>2 DEF GatewayCounts, GW!Current
  <2> QED BY <2>1, <2>2
<1>11. ~GW!Passes(i, k) => granted'[i][k] = L
  BY <1>1, <1>2, <1>5, <1>7
<1> QED BY <1>6, <1>10, <1>11 DEF L

\* A new window, or a new isolate: nothing was let pass in it.
LEMMA GatewayNoneGranted ==
  ASSUME GatewayIInv, NEW i \in Isolate, GW!Tick(i) \/ GW!Evicted(i)
  PROVE  GatewayIInv'
<1>1. /\ GatewayTyped /\ served \in 0..MaxRequests
      /\ UNCHANGED <<config, served>> /\ gatewayAnswer' = GW!NoAnswer
      /\ granted' = [granted EXCEPT ![i] = GW!NoneGranted]
  BY DEF GatewayIInv, GW!TypeOK, GatewayTyped, GW!Tick, GW!Evicted
<1>2. GW!NoneGranted \in [GW!RateKey -> Nat] /\ GW!NoAnswer \in GW!Answer
  BY DEF GW!NoneGranted, GW!NoAnswer, GW!Answer, GW!Status
<1>3. \A k \in GW!RateKey : granted'[i][k] = 0
  BY <1>1 DEF GatewayTyped, GW!NoneGranted
<1>4. \A j \in Isolate \ {i} : granted'[j] = granted[j]
  BY <1>1 DEF GatewayTyped
<1>5. GW!RefusedWhenFull' /\ GW!ReadsOwnDocuments'
  BY <1>1 DEF GW!RefusedWhenFull, GW!ReadsOwnDocuments, GW!NoAnswer
<1>6. CASE GW!Tick(i)
  <2>1. now[i] \in Nat /\ now[i] < MaxWindow /\ MaxWindow \in Nat
        /\ now' = [now EXCEPT ![i] = now[i] + 1] /\ rl' = rl
    BY <1>1, <1>6, ServicesAssumption DEF GW!Tick, GatewayTyped, GW!GatewayAssumption
  <2>2. now' \in [Isolate -> 0..MaxWindow]
    BY <1>1, <2>1 DEF GatewayTyped
  <2>3. GW!TypeOK'
    BY <1>1, <1>2, <2>1, <2>2 DEF GatewayTyped, GW!TypeOK
  <2>4. GatewayCounts'
    <3> SUFFICES ASSUME NEW j \in Isolate, NEW q \in GW!RateKey
                 PROVE  /\ rl'[j][q] # Null => rl'[j][q].window <= now'[j]
                        /\ granted'[j][q] =
                             IF ~(rl'[j][q] # Null /\ rl'[j][q].window = now'[j]) THEN 0
                             ELSE IF rl'[j][q].count <= Limit[q[1]] THEN rl'[j][q].count
                             ELSE Limit[q[1]]
      BY DEF GatewayCounts, GW!Current
    <3>1. CASE j = i
      <4>1. rl[i][q] # Null => rl[i][q].window <= now[i] /\ rl[i][q].window \in Nat
        BY <1>1 DEF GatewayIInv, GatewayCounts, GatewayTyped
      <4>2. now'[i] = now[i] + 1
        BY <1>1, <2>1 DEF GatewayTyped
      <4> QED BY <1>3, <2>1, <3>1, <4>1, <4>2
    <3>2. CASE j # i
      <4>1. now'[j] = now[j] /\ rl'[j] = rl[j] /\ granted'[j] = granted[j]
        BY <1>1, <1>4, <2>1, <3>2 DEF GatewayTyped
      <4> QED BY <4>1 DEF GatewayIInv, GatewayCounts, GW!Current
    <3> QED BY <3>1, <3>2
  <2> QED BY <1>5, <2>3, <2>4 DEF GatewayIInv
<1>7. CASE GW!Evicted(i)
  <2>1. now' = now /\ rl' = [rl EXCEPT ![i] = GW!Uncounted]
    BY <1>7 DEF GW!Evicted
  <2>2. GW!TypeOK'
    BY <1>1, <1>2, <2>1 DEF GatewayTyped, GW!TypeOK, GW!Uncounted
  <2>3. \A k \in GW!RateKey : rl'[i][k] = Null
    BY <1>1, <2>1 DEF GatewayTyped, GW!Uncounted
  <2>4. \A j \in Isolate \ {i} : rl'[j] = rl[j]
    BY <1>1, <2>1 DEF GatewayTyped
  <2>5. GatewayCounts'
    <3> SUFFICES ASSUME NEW j \in Isolate, NEW q \in GW!RateKey
                 PROVE  /\ rl'[j][q] # Null => rl'[j][q].window <= now'[j]
                        /\ granted'[j][q] =
                             IF ~(rl'[j][q] # Null /\ rl'[j][q].window = now'[j]) THEN 0
                             ELSE IF rl'[j][q].count <= Limit[q[1]] THEN rl'[j][q].count
                             ELSE Limit[q[1]]
      BY DEF GatewayCounts, GW!Current
    <3>1. CASE j = i
      BY <1>3, <2>3, <3>1
    <3>2. CASE j # i
      BY <1>4, <2>1, <2>4, <3>2 DEF GatewayIInv, GatewayCounts, GW!Current
    <3> QED BY <3>1, <3>2
  <2> QED BY <1>5, <2>2, <2>5 DEF GatewayIInv
<1> QED BY <1>6, <1>7

-----------------------------------------------------------------------------
\* A step that says something, counted or not.
LEMMA GatewaySaysKeeps ==
  ASSUME GatewayIInv, GatewayTyped', GatewayCounts', GW!Arrives,
         gatewayAnswer' \in GW!Answer, GW!RefusedWhenFull', GW!ReadsOwnDocuments'
  PROVE  GatewayIInv'
<1>1. served' \in 0..MaxRequests
  BY ServicesAssumption DEF GatewayIInv, GW!TypeOK, GW!Arrives, GW!GatewayAssumption
<1> QED BY <1>1 DEF GatewayIInv, GW!TypeOK, GatewayTyped

LEMMA GatewayUnlimited ==
  ASSUME GatewayIInv, GW!Still, GW!Unlimited
  PROVE  GatewayTyped' /\ GatewayCounts'
BY DEF GatewayIInv, GW!TypeOK, GatewayTyped, GatewayCounts, GW!Still, GW!Unlimited,
       GW!Current

\* Answers that show no document.
LEMMA GatewaySays ==
  ASSUME NEW a \in GW!Answer, gatewayAnswer' = a, a.status # 429, a.doc = Null
  PROVE  /\ gatewayAnswer' \in GW!Answer
         /\ GW!RefusedWhenFull' /\ GW!ReadsOwnDocuments'
BY DEF GW!RefusedWhenFull, GW!ReadsOwnDocuments

LEMMA GatewaySaysStatus ==
  ASSUME NEW status \in {200, 204, 404, 405}, GW!Says(status)
  PROVE  /\ gatewayAnswer' \in GW!Answer
         /\ GW!RefusedWhenFull' /\ GW!ReadsOwnDocuments'
<1> DEFINE a == [status |-> status, auth |-> FALSE, token |-> Null,
                 doc |-> Null, isolate |-> Null, key |-> Null]
<1>1. a \in GW!Answer /\ a.status # 429 /\ a.doc = Null
  BY DEF GW!Answer, GW!Status
<1>2. gatewayAnswer' = a
  BY DEF GW!Says, GW!NoAnswer
<1> HIDE DEF a
<1> QED BY <1>1, <1>2, GatewaySays

LEMMA GatewayRefuses ==
  ASSUME NEW i \in Isolate, NEW k \in GW!RateKey, GW!Refuses(i, k),
         granted'[i][k] = Limit[k[1]]
  PROVE  /\ gatewayAnswer' \in GW!Answer
         /\ GW!RefusedWhenFull' /\ GW!ReadsOwnDocuments'
<1>1. gatewayAnswer' = [status |-> 429, auth |-> FALSE, token |-> Null, doc |-> Null,
                        isolate |-> i, key |-> k]
  BY DEF GW!Refuses, GW!NoAnswer
<1>2. gatewayAnswer' \in GW!Answer
  BY <1>1 DEF GW!Answer, GW!Status
<1>3. gatewayAnswer'.isolate = i /\ gatewayAnswer'.key = k /\ gatewayAnswer'.doc = Null
  BY <1>1
<1> QED BY <1>2, <1>3 DEF GW!RefusedWhenFull, GW!ReadsOwnDocuments

\* The routes that ask for no session.
LEMMA GatewayPublicKeeps ==
  ASSUME GatewayIInv,
         \/ GW!Preflight
         \/ \E i \in Isolate, ip \in Ip, method \in {"GET", "POST"} :
              GW!PublicInfra(i, ip, method)
         \/ \E path \in GW!AuthEntry, method \in {"GET", "POST"} :
              GW!AuthRoute(path, method)
  PROVE  GatewayIInv'
<1>1. CASE GW!Preflight
  <2>1. PICK status \in {404, 204} : GW!Says(status)
    BY <1>1 DEF GW!Preflight
  <2>2. gatewayAnswer' \in GW!Answer /\ GW!RefusedWhenFull' /\ GW!ReadsOwnDocuments'
    BY <2>1, GatewaySaysStatus
  <2> QED BY <1>1, <2>2, GatewayUnlimited, GatewaySaysKeeps DEF GW!Preflight
<1>2. CASE \E i \in Isolate, ip \in Ip, method \in {"GET", "POST"} :
             GW!PublicInfra(i, ip, method)
  <2>1. PICK i \in Isolate, ip \in Ip, method \in {"GET", "POST"} :
          GW!PublicInfra(i, ip, method)
    BY <1>2
  <2> DEFINE k == <<"infra", ip>>
  <2>2. k \in GW!RateKey
    BY DEF GW!RateKey
  <2>3. CASE GW!Unlimited /\ GW!Says(405)
    <3>1. gatewayAnswer' \in GW!Answer /\ GW!RefusedWhenFull' /\ GW!ReadsOwnDocuments'
      BY <2>3, GatewaySaysStatus
    <3> QED BY <2>1, <2>3, <3>1, GatewayUnlimited, GatewaySaysKeeps DEF GW!PublicInfra
  <2>4. CASE GW!RateLimitCheck(i, k)
             /\ IF GW!Passes(i, k) THEN GW!Says(200) ELSE GW!Refuses(i, k)
    <3>1. /\ GatewayTyped' /\ GatewayCounts'
          /\ ~GW!Passes(i, k) => granted'[i][k] = Limit[k[1]]
      <4>1. GatewayTyped /\ GatewayCounts
        BY DEF GatewayIInv, GW!TypeOK, GatewayTyped
      <4>2. UNCHANGED <<config, now>>
        BY <2>1 DEF GW!PublicInfra, GW!Still
      <4> HIDE DEF k
      <4> QED BY <2>2, <2>4, <4>1, <4>2, GatewayCheck
    <3>2. gatewayAnswer' \in GW!Answer /\ GW!RefusedWhenFull' /\ GW!ReadsOwnDocuments'
      <4>1. CASE GW!Passes(i, k)
        BY <2>4, <4>1, GatewaySaysStatus
      <4>2. CASE ~GW!Passes(i, k)
        <5> HIDE DEF k
        <5> QED BY <2>2, <2>4, <3>1, <4>2, GatewayRefuses
      <4> QED BY <4>1, <4>2
    <3> QED BY <2>1, <3>1, <3>2, GatewaySaysKeeps DEF GW!PublicInfra
  <2> QED BY <2>1, <2>3, <2>4 DEF GW!PublicInfra
<1>3. CASE \E path \in GW!AuthEntry, method \in {"GET", "POST"} :
             GW!AuthRoute(path, method)
  <2>1. PICK path \in GW!AuthEntry, method \in {"GET", "POST"} :
          GW!AuthRoute(path, method)
    BY <1>3
  <2>2. gatewayAnswer' \in GW!Answer /\ GW!RefusedWhenFull' /\ GW!ReadsOwnDocuments'
    <3> DEFINE a == [status |-> 0, auth |-> TRUE, token |-> Null,
                     doc |-> Null, isolate |-> Null, key |-> Null]
    <3>1. a \in GW!Answer /\ a.status # 429 /\ a.doc = Null
      BY DEF GW!Answer, GW!Status
    <3>2. GW!Says(405) \/ gatewayAnswer' = a
      BY <2>1 DEF GW!AuthRoute, GW!NoAnswer
    <3> HIDE DEF a
    <3> QED BY <3>1, <3>2, GatewaySays, GatewaySaysStatus
  <2> QED BY <2>1, <2>2, GatewayUnlimited, GatewaySaysKeeps DEF GW!AuthRoute
<1> QED BY <1>1, <1>2, <1>3

\* The session of a token, and the key of a request that is counted.
LEMMA GatewaySession ==
  ASSUME NEW token \in Token
  PROVE  /\ GW!ResolveSession(token) \in Tenants \cup {Null}
         /\ GW!ResolveSession(token) # Null =>
              \/ /\ token.kind = "v1" /\ token.live /\ config.secret
                 /\ GW!ResolveSession(token) = token.tenant
              \/ token.kind = "dev" /\ config.dev /\ GW!ResolveSession(token) = token.tenant
              \/ token.kind = "none" /\ config.dev /\ GW!ResolveSession(token) = token.query
BY ServicesAssumption DEF GW!ResolveSession, GW!VerifySessionToken, GW!GatewayAssumption,
                          GW!AnyOf

\* A request with the tenant of its session.
LEMMA GatewayAskedKeeps ==
  ASSUME GatewayIInv, NEW i \in Isolate, NEW path \in (GW!Path \ GW!Infra) \ GW!AuthEntry,
         NEW method \in {"GET", "POST"}, NEW token \in Token, NEW f,
         f = GW!Asked(i, path, method, token),
         \/ GW!TooMany(f) \/ GW!Decide(f) \/ GW!Malformed(f) \/ GW!StoreFails(f)
         \/ GW!UseDocument(f),
         GW!Arrives
  PROVE  GatewayIInv'
<1>1. /\ f.isolate = i /\ f.path = path /\ f.method = method /\ f.token = token
      /\ f.tenant = GW!ResolveSession(token)
  BY DEF GW!Asked
<1>2. PICK status \in GW!Status, doc \in {Null, f.tenant} :
        /\ GW!Ends(f, status, doc)
        /\ status = 429 <=> ~GW!LetsPass(f)
        /\ status = 201 => GW!IsDev(token)
  <2>1. CASE GW!TooMany(f)
    BY <2>1 DEF GW!TooMany, GW!Status
  <2>2. CASE GW!Decide(f)
    <3>1. GW!RouteStatus(f) \in {200, 401, 403, 404, 405}
      BY DEF GW!RouteStatus
    <3> QED BY <2>2, <3>1 DEF GW!Decide, GW!Status
  <2>3. CASE GW!Malformed(f) \/ GW!StoreFails(f)
    <3>1. GW!LetsPass(f) /\ \E s \in {400, 500, 503} : GW!Ends(f, s, Null)
      BY <2>3 DEF GW!Malformed, GW!StoreFails, GW!Opens
    <3> QED BY <3>1 DEF GW!Status
  <2>4. CASE GW!UseDocument(f)
    <3>1. GW!LetsPass(f) /\ GW!Ends(f, IF GW!Writes(f) THEN 201 ELSE 200, f.tenant)
      BY <2>4 DEF GW!UseDocument, GW!Opens
    <3>2. GW!Writes(f) => GW!IsDev(token)
      BY <1>1, <2>4 DEF GW!UseDocument, GW!Opens, GW!RouteStatus, GW!DevOnly
    <3> QED BY <3>1, <3>2 DEF GW!Status
  <2> QED BY <2>1, <2>2, <2>3, <2>4
<1> DEFINE k == GW!KeyOf(f)
<1>3. GW!Limited(f) => k \in GW!RateKey
  BY <1>1, GatewaySession DEF GW!Limited, GW!KeyOf, GW!RateKey
<1> HIDE DEF k
<1>4. /\ GatewayTyped' /\ GatewayCounts'
      /\ ~GW!LetsPass(f) => granted'[i][k] = Limit[k[1]] /\ k \in GW!RateKey
  <2>1. GatewayTyped /\ GatewayCounts
    BY DEF GatewayIInv, GW!TypeOK, GatewayTyped
  <2>2. CASE GW!Limited(f)
    <3>1. GW!RateLimitCheck(i, k) /\ UNCHANGED <<config, now>>
          /\ (~GW!LetsPass(f) <=> ~GW!Passes(i, k))
      BY <1>1, <1>2, <2>2 DEF GW!Ends, GW!Counts, GW!Still, GW!LetsPass, k
    <3> QED BY <1>3, <2>1, <2>2, <3>1, GatewayCheck
  <2>3. CASE ~GW!Limited(f)
    <3>1. GW!Still /\ GW!Unlimited /\ GW!LetsPass(f)
      BY <1>2, <2>3 DEF GW!Ends, GW!Counts, GW!LetsPass
    <3> QED BY <3>1, GatewayUnlimited
  <2> QED BY <2>2, <2>3
<1>5. gatewayAnswer' \in GW!Answer /\ GW!RefusedWhenFull' /\ GW!ReadsOwnDocuments'
  <2>1. CASE status = 429
    <3>1. GW!Refuses(i, k)
      BY <1>1, <1>2, <2>1 DEF GW!Ends, k
    <3> QED BY <1>2, <1>4, <2>1, <3>1, GatewayRefuses
  <2>2. CASE status # 429
    <3>1. /\ gatewayAnswer' = [GW!NoAnswer EXCEPT !.status = status, !.doc = doc,
                                   !.token = IF doc = Null THEN Null ELSE token]
          /\ config' = config
      BY <1>1, <1>2, <2>2 DEF GW!Ends, GW!Still
    <3>2. doc \in Tenants \cup {Null}
      BY <1>1, <1>2, GatewaySession
    <3>3. gatewayAnswer' \in GW!Answer
      <4>1. gatewayAnswer' = [status |-> status, auth |-> FALSE,
                              token |-> IF doc = Null THEN Null ELSE token,
                              doc |-> doc, isolate |-> Null, key |-> Null]
        BY <3>1 DEF GW!NoAnswer
      <4> QED BY <3>2, <4>1 DEF GW!Answer
    <3>4. GW!RefusedWhenFull'
      BY <2>2, <3>1 DEF GW!NoAnswer, GW!RefusedWhenFull
    <3>5. GW!ReadsOwnDocuments'
      <4>1. /\ gatewayAnswer'.doc = doc
            /\ doc # Null => gatewayAnswer'.token = token
              /\ gatewayAnswer'.status = status
        BY <3>1 DEF GW!NoAnswer
      <4>2. GW!IsDev(token)' = GW!IsDev(token)
        BY DEF GW!IsDev
      <4> QED BY <1>1, <1>2, <3>1, <4>1, <4>2, GatewaySession
              DEF GW!ReadsOwnDocuments, GW!IsDev
    <3> QED BY <3>3, <3>4, <3>5
  <2> QED BY <2>1, <2>2
<1> QED BY <1>4, <1>5, GatewaySaysKeeps

LEMMA GatewayStarts == GW!Init => GatewayIInv
<1> SUFFICES ASSUME GW!Init PROVE GatewayIInv
  OBVIOUS
<1>1. GW!TypeOK
  BY ServicesAssumption DEF GW!Init, GW!TypeOK, GW!Uncounted, GW!NoneGranted, GW!NoAnswer,
                            GW!Answer, GW!Status, GW!GatewayAssumption
<1>2. GatewayCounts
  BY DEF GW!Init, GatewayCounts, GW!Current, GW!Uncounted, GW!NoneGranted
<1>3. GW!RefusedWhenFull /\ GW!ReadsOwnDocuments
  BY DEF GW!Init, GW!NoAnswer, GW!RefusedWhenFull, GW!ReadsOwnDocuments
<1> QED BY <1>1, <1>2, <1>3 DEF GatewayIInv

LEMMA GatewayKeeps == GatewayIInv /\ [GW!Next]_gatewayVars => GatewayIInv'
<1> SUFFICES ASSUME GatewayIInv, [GW!Next]_gatewayVars PROVE GatewayIInv'
  OBVIOUS
<1>1. CASE UNCHANGED gatewayVars
  BY <1>1 DEF gatewayVars, GatewayIInv, GW!TypeOK, GatewayCounts, GW!Current,
              GW!RefusedWhenFull, GW!ReadsOwnDocuments
<1>2. CASE GW!Next
  <2>1. CASE \E i \in Isolate : GW!Tick(i) \/ GW!Evicted(i)
    BY <2>1, GatewayNoneGranted
  <2>2. CASE /\ GW!Arrives
             /\ \E i \in Isolate, path \in (GW!Path \ GW!Infra) \ GW!AuthEntry,
                   method \in {"GET", "POST"}, token \in Token :
                  LET f == GW!Asked(i, path, method, token)
                  IN  \/ GW!TooMany(f) \/ GW!Decide(f) \/ GW!Malformed(f)
                      \/ GW!StoreFails(f) \/ GW!UseDocument(f)
    BY <2>2, GatewayAskedKeeps
  <2> QED BY <1>2, <2>1, <2>2, GatewayPublicKeeps DEF GW!Next
<1> QED BY <1>1, <1>2

\* GateHolds follows from the invariant.
LEMMA GatewaySound == GatewayIInv => GW!TypeOK /\ GateHolds
<1> SUFFICES ASSUME GatewayIInv PROVE GW!TypeOK /\ GateHolds
  OBVIOUS
<1>1. ASSUME NEW i \in Isolate, NEW k \in GW!RateKey
      PROVE  granted[i][k] <= Limit[k[1]]
  <2>1. Limit[k[1]] \in Nat /\ granted[i][k] \in Nat
    BY GatewayLimits DEF GatewayIInv, GW!TypeOK
  <2> QED BY <2>1 DEF GatewayIInv, GatewayCounts
<1> QED BY <1>1 DEF GatewayIInv, GateHolds, GW!WithinLimit

-----------------------------------------------------------------------------
-----------------------------------------------------------------------------
(* Side by side                                                            *)

\* The inductive invariant: that of every component.
ServicesIInv ==
  /\ KeyedIInv /\ PagesIInv /\ RP!TypeOK /\ DocumentsIInv /\ VendorsIInv /\ GatewayIInv

LEMMA ServicesStart == ServicesInit => ServicesIInv
BY KeyedStarts, PagesStarts, ReportsStart, DocumentsStart, VendorsStart, GatewayStarts
   DEF ServicesInit, ServicesIInv

\* A step is a step of every component, of all but one an idle one.
LEMMA ServicesSteps ==
  [ServicesNext]_allVars =>
    /\ [Next]_vars /\ [LP!Next]_pageVars /\ [RP!Next]_reportVars
    /\ [TD!Next]_documentVars /\ [VE!Next]_vendorVars /\ [GW!Next]_gatewayVars
<1> SUFFICES ASSUME [ServicesNext]_allVars
             PROVE  /\ [Next]_vars /\ [LP!Next]_pageVars /\ [RP!Next]_reportVars
                    /\ [TD!Next]_documentVars /\ [VE!Next]_vendorVars
                    /\ [GW!Next]_gatewayVars
  OBVIOUS
<1>1. CASE UNCHANGED allVars
  BY <1>1 DEF allVars
<1>2. CASE KeyedLedgerStep
  BY <1>2 DEF KeyedLedgerStep
<1>3. CASE PagesStep
  BY <1>3 DEF PagesStep
<1>4. CASE ReportsStep
  BY <1>4 DEF ReportsStep
<1>5. CASE DocumentsStep
  BY <1>5 DEF DocumentsStep
<1>6. CASE VendorsStep
  BY <1>6 DEF VendorsStep
<1>7. CASE GatewayStep
  BY <1>7 DEF GatewayStep
<1> QED BY <1>1, <1>2, <1>3, <1>4, <1>5, <1>6, <1>7 DEF ServicesNext

LEMMA ServicesKeep ==
  ServicesIInv /\ [ServicesNext]_allVars =>
    ServicesIInv' /\ ForcedSees /\ WorthStays /\ DocumentsForward /\ VendorsApart
BY ServicesSteps, KeyedKeep, PagesKeep, ReportsKeep, ReportsSound, TransferKeeps,
   DocumentsKeep, VendorsKeep, GatewayKeeps DEF ServicesIInv

\* Every component's invariant holds throughout, whatever the others do.
THEOREM ServicesInvariant == ServicesSpec => []ServicesIInv
<1>1. ServicesIInv /\ [ServicesNext]_allVars => ServicesIInv'
  BY ServicesKeep
<1> QED BY <1>1, ServicesStart, PTL DEF ServicesSpec

\* Types, for any values of the constants.
THEOREM TypesCorrect == ServicesSpec => []TypesOK
<1>1. ServicesIInv => TypesOK
  BY PagesSound, GatewaySound
     DEF ServicesIInv, TypesOK, KeyedIInv, DocumentsIInv, VendorsIInv
<1> QED BY <1>1, ServicesInvariant, PTL

\* Unless a body names another tenant than its session's, a key is recorded once
\* in a life of the process; answers stand, and a repeated key is refused only to
\* a body that is another (backend/ledger/write.js).
THEOREM KeysAreIdempotent == ServicesSpec => []Idempotent
<1>1. ServicesIInv => Idempotent
  BY DEF ServicesIInv, KeyedIInv, Idempotent
<1> QED BY <1>1, ServicesInvariant, PTL

\* Whatever loads overlap, fail or are left behind, the pages share one fetch, show
\* data or say why not, stay within their tables and agree on every total
\* (ledgerCache.js and the pages' load and useMemo).
THEOREM PagesAreTrue == ServicesSpec => []PagesTellTheTruth
<1>1. ServicesIInv => PagesTellTheTruth
  BY PagesSound DEF ServicesIInv
<1> QED BY <1>1, ServicesInvariant, PTL

\* A forced load shows no less than there was when the button was pressed, though
\* older fetches still write to the cache (ledgerCache.js clearLedgerCache).
THEOREM ForcedLoadsAreFresh == ServicesSpec => ForcedIsFresh
<1>1. ServicesIInv /\ [ServicesNext]_allVars =>
        [\A l \in loads :
           (l.force /\ l \notin loads' /\ view'.mount = view.mount /\ view'.shown # Null)
             => view'.shown >= l.pressed]_(LP!vars)
  BY ServicesKeep DEF ForcedSees
<1> QED BY <1>1, ServicesInvariant, PTL DEF ServicesSpec, ForcedIsFresh, LP!ForcedIsFresh

\* Whatever is in the collection, adjacent windows add up, what is received or lost
\* has moved, and neither a filter by place nor a transfer changes what goods are
\* worth (reporting.js).
THEOREM ReportsAgree == ServicesSpec => ReportsAddUp
<1>1. ServicesIInv => RP!WindowsAddUp /\ RP!ActivityIsMovement /\ RP!ValuedAlike
  BY ReportsSound DEF ServicesIInv
<1>2. ServicesIInv /\ [ServicesNext]_allVars =>
        [(reportLedger' # reportLedger /\ RP!Transfer(reportLedger'[Len(reportLedger')]))
           => \A i \in Item : RP!Worth(i)' = RP!Worth(i)]_(RP!vars)
  BY ServicesKeep DEF WorthStays
<1> QED BY <1>1, <1>2, ServicesInvariant, PTL
        DEF ServicesSpec, ReportsAddUp, RP!TransferKeepsWorth

\* What a client was told is done is stored or has gone on from there, until a put
\* overtakes another, and a draft is stored once (offline.js, alerts.js).
THEOREM AcceptedIsKept == ServicesSpec => []AcceptedStays
<1>1. ServicesIInv => AcceptedStays
  BY DEF ServicesIInv, DocumentsIInv, AcceptedStays
<1> QED BY <1>1, ServicesInvariant, PTL

\* No row is dropped and none goes back to an earlier state unless a put overtook
\* another or the document was damaged, and damage alone costs no draft.
THEOREM DocumentsGoForward == ServicesSpec => NothingComesBack
<1>1. ServicesIInv /\ [ServicesNext]_allVars =>
        [\A c \in TD!Coll \ lossy' :
           \A k \in DOMAIN docs[c].rows :
             /\ k \in DOMAIN docs'[c].rows
             /\ docs'[c].rows[k].id = docs[c].rows[k].id
             /\ TD!Rank(docs'[c].rows[k].state) >= TD!Rank(docs[c].rows[k].state)]_(TD!vars)
  BY ServicesKeep DEF DocumentsForward, GoneOn
<1>2. ServicesIInv /\ [ServicesNext]_allVars =>
        [\A r \in Request :
           LET q == req[r]
           IN  (/\ q.pc = "put" /\ req'[r].told = 201
                /\ q.coll = "offline_drafts" /\ q.base = version[q.coll])
                 => TD!ToSet(docs[q.coll].rows) \subseteq TD!ToSet(docs'[q.coll].rows)]_(TD!vars)
  BY ServicesKeep DEF DocumentsForward
<1> QED BY <1>1, <1>2, ServicesInvariant, PTL
        DEF ServicesSpec, NothingComesBack, TD!NothingComesBack, TD!DamageCostsNoDraft

\* A tenant's vendors are the created ones with their evidence, and a tenant's
\* requests change another's data only by ending the process (vendors.js).
THEOREM VendorsAreKept == ServicesSpec => VendorsStay
<1>1. ServicesIInv => VE!CreatedStay /\ VE!EvidenceStays
  BY DEF ServicesIInv, VendorsIInv
<1>2. ServicesIInv /\ [ServicesNext]_allVars =>
        [\A t \in Tenants :
           bucket'[t] # bucket[t] =>
             \/ vendorAnswer'.tenant = t /\ stops' = stops
             \/ stops' > stops /\ (vendorAnswer' = vendorAnswer
                                  \/ bucket[vendorAnswer'.tenant].rules # Null)]_(VE!vars)
  BY ServicesKeep DEF VendorsApart
<1> QED BY <1>1, <1>2, ServicesInvariant, PTL
        DEF ServicesSpec, VendorsStay, VE!TenantsApart

\* In a window an isolate lets no more than the limit of a key pass, refuses only
\* when that many have passed, and answers with the document of the tenant of the
\* token (the worker's entry and its rate limiter).
THEOREM TheGateHolds == ServicesSpec => []GateHolds
<1>1. ServicesIInv => GateHolds
  BY GatewaySound DEF ServicesIInv
<1> QED BY <1>1, ServicesInvariant, PTL
=============================================================================
