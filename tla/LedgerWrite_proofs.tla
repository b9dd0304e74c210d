-------------------------- MODULE LedgerWrite_proofs -------------------------
(***************************************************************************)
(* Theorems about ledger writes.  With any number of handlers of both      *)
(* servers, reads as old as KV likes and documents that become unreadable, *)
(* every version of the ledger is numbered and the worker never sees a     *)
(* collision; the audit trail tells the truth; and nothing but an          *)
(* overtaken read or a damaged document loses an acknowledged event.       *)
(***************************************************************************)
EXTENDS LedgerWrite, TLAPS

(* Numbered documents                                                       *)

LEMMA ChooseGreatest ==
  ASSUME NEW S, NEW top \in S, \A s \in S : s <= top,
         \A m \in S : (\A s \in S : s <= m) => m = top
  PROVE  (CHOOSE m \in S : \A s \in S : s <= m) = top
OBVIOUS

\* The number after the last.
LEMMA NextNumber ==
  ASSUME NEW rows, NEW n \in Nat, SequencesIn(rows) = 1..n
  PROVE  ComputeNextLedgerSequence(rows) = n + 1
<1> DEFINE S == SequencesIn(rows) \cup {0}
<1>1. n \in S /\ \A s \in S : s \in Nat /\ s <= n
  OBVIOUS
<1>2. \A m \in S : (\A s \in S : s <= m) => m = n
  BY <1>1
<1>3. ComputeNextLedgerSequence(rows)
        = 1 + (CHOOSE m \in S : \A s \in S : s <= m)
  BY Zenon DEF ComputeNextLedgerSequence
<1>4. (CHOOSE m \in S : \A s \in S : s <= m) = n
  <2> HIDE DEF S
  <2> QED BY <1>1, <1>2, ChooseGreatest
<1>5. ComputeNextLedgerSequence(rows) = 1 + n
  <2> HIDE DEF S
  <2> QED BY <1>3, <1>4
<1> QED BY <1>5

\* The numbers in rows are those up to some number, and the next one is new.
LEMMA NextIsNew ==
  ASSUME NEW rows \in Seq(Row), Numbered(rows)
  PROVE  \E n \in 0..Len(rows) :
           /\ ComputeNextLedgerSequence(rows) = n + 1
           /\ SequencesIn(rows) = 1..n
           /\ \A i \in DOMAIN rows : rows[i].sequence # Null =>
                                       rows[i].sequence \in 1..n
<1>1. PICK n \in 0..Len(rows) : SequencesIn(rows) = 1..n
  BY DEF Numbered
<1>2. ComputeNextLedgerSequence(rows) = n + 1
  BY <1>1, NextNumber
<1>3. ASSUME NEW i \in DOMAIN rows, rows[i].sequence # Null
      PROVE  rows[i].sequence \in 1..n
  <2>1. rows[i].sequence \in SequencesIn(rows)
    BY <1>3 DEF SequencesIn
  <2> QED BY <1>1, <2>1
<1> QED BY <1>1, <1>2, <1>3

\* A number that is appended is new.
LEMMA NoCollisionIn ==
  ASSUME NEW rows \in Seq(Row), Numbered(rows)
  PROVE  ~HasEventIdCollision(rows, EventId(ComputeNextLedgerSequence(rows)))
<1>1. PICK n \in 0..Len(rows) :
        /\ ComputeNextLedgerSequence(rows) = n + 1
        /\ \A i \in DOMAIN rows : rows[i].sequence # Null =>
                                    rows[i].sequence \in 1..n
  BY NextIsNew
<1>2. ASSUME NEW i \in DOMAIN rows
      PROVE  rows[i].event_id # EventId(n + 1)
  <2>1. CASE rows[i].sequence = Null
    <3>1. rows[i].event_id = <<"uuid", rows[i].post>>
      BY <2>1 DEF Numbered, RandomUUID
    <3>2. rows[i].event_id[1] = "uuid" /\ EventId(n + 1)[1] = "le"
      BY <3>1 DEF EventId
    <3> QED BY <3>2
  <2>2. CASE rows[i].sequence # Null
    <3>1. rows[i].event_id = <<"le", rows[i].sequence>>
      BY <2>2 DEF Numbered, EventId
    <3>2. rows[i].event_id[2] = rows[i].sequence /\ EventId(n + 1)[2] = n + 1
      BY <3>1 DEF EventId
    <3>3. rows[i].sequence \in 1..n /\ n \in Nat
      BY <1>1, <2>2
    <3> QED BY <3>2, <3>3
  <2> QED BY <2>1, <2>2
<1> QED BY <1>1, <1>2 DEF HasEventIdCollision

\* A row whose number is the next one, or which has none, may be appended.
LEMMA AppendRow ==
  ASSUME NEW rows \in Seq(Row), Numbered(rows), NEW e \in Row,
         \/ /\ e.sequence = ComputeNextLedgerSequence(rows)
            /\ e.event_id = EventId(e.sequence)
         \/ /\ e.sequence = Null
            /\ e.event_id = RandomUUID(e.post)
  PROVE  Numbered(Append(rows, e))
<1> DEFINE new == Append(rows, e)
<1>1. PICK n \in 0..Len(rows) :
        /\ ComputeNextLedgerSequence(rows) = n + 1
        /\ SequencesIn(rows) = 1..n
        /\ \A i \in DOMAIN rows : rows[i].sequence # Null =>
                                    rows[i].sequence \in 1..n
  BY NextIsNew
<1>2. /\ Len(rows) \in Nat /\ n \in Nat
      /\ DOMAIN rows = 1..Len(rows)
      /\ DOMAIN new = 1..(Len(rows) + 1) /\ Len(new) = Len(rows) + 1
      /\ \A i \in 1..Len(rows) : new[i] = rows[i]
      /\ new[Len(rows) + 1] = e
  BY <1>1
<1> HIDE DEF new
<1>3. \A x : x \in SequencesIn(new) <=>
               \/ x \in SequencesIn(rows)
               \/ x = e.sequence /\ e.sequence # Null
  <2>1. ASSUME NEW x, x \in SequencesIn(new)
        PROVE  x \in SequencesIn(rows) \/ (x = e.sequence /\ e.sequence # Null)
    <3>1. PICK i \in DOMAIN new : x = new[i].sequence /\ x # Null
      BY <2>1 DEF SequencesIn
    <3>2. i \in 1..Len(rows) \/ i = Len(rows) + 1
      BY <1>2
    <3> QED BY <1>2, <3>1, <3>2 DEF SequencesIn
  <2>2. ASSUME NEW x, x \in SequencesIn(rows) PROVE x \in SequencesIn(new)
    <3>1. PICK i \in DOMAIN rows : x = rows[i].sequence /\ x # Null
      BY <2>2 DEF SequencesIn
    <3>2. i \in DOMAIN new /\ new[i] = rows[i]
      BY <1>2
    <3> QED BY <3>1, <3>2 DEF SequencesIn
  <2>3. e.sequence # Null => e.sequence \in SequencesIn(new)
    <3>1. Len(rows) + 1 \in DOMAIN new
      BY <1>2
    <3> QED BY <1>2, <3>1 DEF SequencesIn
  <2> QED BY <2>1, <2>2, <2>3
<1>4. \E k \in 0..Len(new) : SequencesIn(new) = 1..k
  <2>1. CASE e.sequence = Null
    <3>1. SequencesIn(new) = 1..n
      BY <1>1, <1>3, <2>1
    <3> QED BY <1>2, <3>1
  <2>2. CASE e.sequence # Null
    <3>1. e.sequence = n + 1
      BY <1>1, <2>2
    <3>2. SequencesIn(new) = 1..(n + 1)
      <4>1. \A x : x \in 1..(n + 1) <=> x \in 1..n \/ x = n + 1
        BY <1>2
      <4>2. \A x : x \in SequencesIn(new) <=> x \in 1..n \/ x = n + 1
        BY <1>1, <1>3, <2>2, <3>1
      <4>3. \A x : x \in SequencesIn(new) <=> x \in 1..(n + 1)
        BY Zenon, <4>1, <4>2
      <4> QED BY Zenon, <4>3
    <3> QED BY <1>2, <3>2
  <2> QED BY <2>1, <2>2
<1>5. ASSUME NEW i \in DOMAIN new, NEW j \in DOMAIN new, i < j,
             new[i].sequence # Null, new[j].sequence # Null
      PROVE  new[i].sequence < new[j].sequence
  <2>1. i \in 1..Len(rows) /\ new[i] = rows[i]
    BY <1>2, <1>5
  <2>2. CASE j \in 1..Len(rows)
    BY <1>2, <1>5, <2>1, <2>2 DEF Numbered
  <2>3. CASE j = Len(rows) + 1
    <3>1. new[j].sequence = n + 1
      BY <1>1, <1>2, <1>5, <2>3
    <3>2. rows[i].sequence \in 1..n
      BY <1>1, <1>2, <1>5, <2>1
    <3> QED BY <1>2, <2>1, <3>1, <3>2
  <2> QED BY <1>2, <2>2, <2>3
<1>6. ASSUME NEW i \in DOMAIN new
      PROVE  new[i].event_id = IF new[i].sequence = Null
                               THEN RandomUUID(new[i].post)
                               ELSE EventId(new[i].sequence)
  <2>1. CASE i \in 1..Len(rows)
    BY <1>2, <2>1 DEF Numbered
  <2>2. CASE i = Len(rows) + 1
    <3>1. n + 1 # Null
      BY <1>2, LedgerWriteAssumption
    <3> QED BY <1>1, <1>2, <2>2, <3>1
  <2> QED BY <1>2, <2>1, <2>2
<1> QED BY <1>4, <1>5, <1>6 DEF Numbered, new

\* The event made of numbered rows, and the rows with it.
LEMMA AppendNumbered ==
  ASSUME TypeOK, NEW r \in Request, Numbered(req[r].rows)
  PROVE  /\ NewEvent(r) \in Row
         /\ Append(req[r].rows, NewEvent(r)) \in Seq(Row)
         /\ Numbered(Append(req[r].rows, NewEvent(r)))
<1> DEFINE rows == req[r].rows
<1>1. rows \in Seq(Row) /\ req[r].post \in 0..MaxPosts /\ req[r].post \in Nat
  BY LedgerWriteAssumption DEF TypeOK, Req
<1>2. CASE req[r].server = "worker"
  <2>1. NewEvent(r) = WorkerEvent(r)
    BY <1>2 DEF NewEvent
  <2>2. ComputeNextLedgerSequence(rows) \in Nat
    <3>1. PICK n \in 0..Len(rows) : ComputeNextLedgerSequence(rows) = n + 1
      BY <1>1, NextIsNew
    <3> QED BY <1>1, <3>1
  <2>3. /\ NewEvent(r) \in Row
        /\ NewEvent(r).sequence = ComputeNextLedgerSequence(rows)
        /\ NewEvent(r).event_id = EventId(NewEvent(r).sequence)
    BY <1>1, <2>1, <2>2 DEF WorkerEvent, Row, EventId
  <2> QED BY <1>1, <2>3, AppendRow
<1>3. CASE req[r].server # "worker"
  <2>1. NewEvent(r) = NodeEvent(r)
    BY <1>3 DEF NewEvent
  <2>2. /\ NewEvent(r) \in Row
        /\ NewEvent(r).sequence = Null
        /\ NewEvent(r).event_id = RandomUUID(NewEvent(r).post)
    BY <1>1, <2>1 DEF NodeEvent, Row, RandomUUID
  <2> QED BY <1>1, <2>2, AppendRow
<1> QED BY <1>2, <1>3

\* A document without rows.
LEMMA EmptyNumbered == << >> \in Seq(Row) /\ Numbered(<< >>)
<1>1. SequencesIn(<< >>) = {}
  BY DEF SequencesIn
<1>2. SequencesIn(<< >>) = 1..0 /\ 0 \in 0..Len(<< >>)
  BY <1>1
<1>3. << >> \in Seq(Row) /\ DOMAIN << >> = {}
  OBVIOUS
<1>4. Numbered(<< >>)
  BY <1>2, <1>3 DEF Numbered
<1> QED BY <1>3, <1>4

(* The inductive invariant                                                  *)

LEMMA NewestTyped ==
  ASSUME NEW rows \in Seq(AuditRecord)
  PROVE  KeepNewest(rows) \in Seq(AuditRecord)
BY LedgerWriteAssumption DEF KeepNewest

LEMMA Readables ==
  ASSUME NEW S, NEW versions \in Seq(S), versions # << >>
  PROVE  /\ Readable(versions) \subseteq S
         /\ \A x \in Readable(versions) :
              \E v \in DOMAIN versions : x = versions[v]
         /\ ~StaleReads => Readable(versions) = {versions[Len(versions)]}
BY DEF Readable

\* The audit side of a step, and what emitAudit adds.
LEMMA EmitTyped ==
  ASSUME TypeOK, NEW r \in Request, req[r].phase # "idle",
         NEW reason \in Reason, EmitAudit(req[r].post, reason),
         req[r].post # 0
  PROVE  tasks' \in SUBSET Task
<1>1. req[r].post \in 1..MaxPosts
  BY LedgerWriteAssumption DEF TypeOK, Req
<1>2. [record |-> [post |-> req[r].post, reason |-> reason], rows |-> Null]
        \in Task
  BY <1>1 DEF Task, AuditRecord
<1> QED BY <1>2 DEF EmitAudit, TypeOK

\* A handler under way has a POST.
Posted == \A r \in Request : req[r].phase # "idle" => req[r].post # 0

Inv == IInv /\ Posted

LEMMA IdleReq == Idle \in Req /\ Idle.phase = "idle"
BY LedgerWriteAssumption DEF Idle, Req, Phase, Server

LEMMA InvInitially == Init => Inv
<1> SUFFICES ASSUME Init PROVE Inv
  OBVIOUS
<1>1. ledger = << << >> >> /\ ledger \in Seq(Seq(Row)) /\ DOMAIN ledger = {1}
      /\ ledger # << >> /\ ledger[1] = << >>
  BY EmptyNumbered DEF Init
<1>2. audit \in Seq(Seq(AuditRecord)) /\ audit # << >>
  BY DEF Init
<1>3. TypeOK
  <2>1. req \in [Request -> Req] /\ damages \in 0..MaxDamages
        /\ posts \in 0..MaxPosts
    BY IdleReq, LedgerWriteAssumption DEF Init
  <2> QED BY <1>1, <1>2, <2>1 DEF Init, TypeOK
<1>4. LedgerNumbered
  BY <1>1, EmptyNumbered DEF LedgerNumbered
<1>5. LoadedNumbered /\ Posted
  BY IdleReq DEF Init, LoadedNumbered, Posted
<1> QED BY <1>3, <1>4, <1>5 DEF Inv, IInv

\* A new version of the ledger.
LEMMA NewVersion ==
  ASSUME Inv, NEW new \in Seq(Row), ledger' = Append(ledger, new)
  PROVE  /\ ledger' \in Seq(Seq(Row)) /\ ledger' # << >>
         /\ DOMAIN ledger' = 1..(Len(ledger) + 1)
         /\ DOMAIN ledger = 1..Len(ledger) /\ Len(ledger) \in Nat
         /\ \A v \in 1..Len(ledger) : ledger'[v] = ledger[v]
         /\ ledger'[Len(ledger) + 1] = new
         /\ Current' = new
         /\ Numbered(new) => LedgerNumbered'
<1>1. /\ ledger' \in Seq(Seq(Row)) /\ ledger' # << >>
      /\ DOMAIN ledger' = 1..(Len(ledger) + 1) /\ Len(ledger') = Len(ledger) + 1
      /\ DOMAIN ledger = 1..Len(ledger) /\ Len(ledger) \in Nat
      /\ \A v \in 1..Len(ledger) : ledger'[v] = ledger[v]
      /\ ledger'[Len(ledger) + 1] = new
  <2>1. ledger \in Seq(Seq(Row))
    BY DEF Inv, IInv, TypeOK
  <2> DEFINE S == Seq(Row)
  <2>2. ledger \in Seq(S) /\ new \in S
    BY <2>1
  <2> HIDE DEF S
  <2>3. /\ ledger' \in Seq(S)
        /\ DOMAIN ledger' = 1..(Len(ledger) + 1)
        /\ Len(ledger') = Len(ledger) + 1
        /\ DOMAIN ledger = 1..Len(ledger) /\ Len(ledger) \in Nat
        /\ \A v \in 1..Len(ledger) : ledger'[v] = ledger[v]
        /\ ledger'[Len(ledger) + 1] = new
    BY <2>2
  <2>4. ledger' # << >>
    BY <2>3
  <2> QED BY <2>3, <2>4 DEF S
<1>2. Current' = new
  BY <1>1 DEF Current
<1>3. ASSUME Numbered(new), NEW v \in DOMAIN ledger' PROVE Numbered(ledger'[v])
  <2>1. v \in 1..Len(ledger) \/ v = Len(ledger) + 1
    BY <1>1
  <2> QED BY <1>1, <1>3, <2>1 DEF Inv, IInv, LedgerNumbered
<1>4. Numbered(new) => LedgerNumbered'
  BY <1>3 DEF LedgerNumbered, Numbered
<1> QED BY <1>1, <1>2, <1>4

\* What a put makes of the ledger.
LEMMA SaveStep ==
  ASSUME Inv, NEW r \in Request, Save(r) \/ NodeSave(r)
  PROVE  /\ req[r].phase = "loaded"
         /\ req' = [req EXCEPT ![r].phase = "stored"]
         /\ NewEvent(r) \in Row /\ req[r].rows \in Seq(Row)
         /\ Append(req[r].rows, NewEvent(r)) \in Seq(Row)
         /\ ledger' = Append(ledger, Append(req[r].rows, NewEvent(r)))
         /\ Current' = Append(req[r].rows, NewEvent(r))
         /\ NewEvent(r)' = NewEvent(r)
         /\ overtaken' = (overtaken \/ req[r].rows # Current)
         /\ UNCHANGED <<posts, audit, tasks, acked, damages>>
<1> DEFINE new == Append(req[r].rows, NewEvent(r))
<1>1. Numbered(req[r].rows) /\ req[r].rows \in Seq(Row)
  BY DEF Inv, IInv, Save, NodeSave, LoadedNumbered, TypeOK, Req
<1>2. req[r].server = "worker" =>
        ~HasEventIdCollision(req[r].rows, NewEvent(r).event_id)
  BY <1>1, NoCollisionIn DEF NewEvent, WorkerEvent
<1>3. /\ req' = [req EXCEPT ![r].phase = "stored"]
      /\ ledger' = Append(ledger, new)
      /\ overtaken' = (overtaken \/ req[r].rows # Current)
      /\ req[r].phase = "loaded"
      /\ UNCHANGED <<posts, audit, tasks, acked, damages>>
  BY <1>2 DEF Save, NodeSave, Put, Current
<1>4. new \in Seq(Row) /\ NewEvent(r) \in Row
  BY <1>1, AppendNumbered DEF Inv, IInv
<1>5. Current' = new
  BY <1>3, <1>4, NewVersion
<1>6. req'[r].post = req[r].post /\ req'[r].rows = req[r].rows
      /\ req'[r].server = req[r].server
  BY <1>3 DEF Inv, IInv, TypeOK, Req
<1>7. NewEvent(r)' = NewEvent(r)
  BY <1>6 DEF NewEvent, WorkerEvent, NodeEvent
<1> QED BY <1>1, <1>3, <1>4, <1>5, <1>7

LEMMA InvInductive == Inv /\ [Next]_vars => Inv'
<1> SUFFICES ASSUME Inv, [Next]_vars PROVE Inv'
  OBVIOUS
<1> USE DEF Inv, IInv
<1>1. ASSUME NEW r \in Request, Begin(r) \/ NodeBegin(r) PROVE Inv'
  <2>1. PICK server \in Server : Receive(r, server)
    BY <1>1 DEF Begin, NodeBegin, Server
  <2>2. [Idle EXCEPT !.phase = "loading", !.server = server,
                     !.post = posts + 1] \in Req
    <3>1. posts + 1 \in 0..MaxPosts
      BY <2>1, LedgerWriteAssumption DEF Receive, TypeOK
    <3> QED BY <3>1, IdleReq DEF Req, Phase
  <2>3. TypeOK'
    BY <2>1, <2>2, LedgerWriteAssumption DEF Receive, TypeOK
  <2>4. LedgerNumbered'
    BY <2>1 DEF Receive, LedgerNumbered
  <2>5. LoadedNumbered' /\ Posted'
    BY <2>1, LedgerWriteAssumption
    DEF Receive, LoadedNumbered, Posted, TypeOK, Idle
  <2> QED BY <2>3, <2>4, <2>5
<1>2. ASSUME NEW r \in Request, Load(r) PROVE Inv'
  <2>1. PICK rows \in Readable(ledger) :
          req' = [req EXCEPT ![r].phase = "loaded", ![r].rows = rows]
    BY <1>2 DEF Load
  <2>2. rows \in Seq(Row) /\ Numbered(rows)
    BY <2>1, Readables DEF TypeOK, LedgerNumbered
  <2>3. /\ req' \in [Request -> Req]
        /\ req'[r] = [req[r] EXCEPT !.phase = "loaded", !.rows = rows]
        /\ \A q \in Request \ {r} : req'[q] = req[q]
    BY <2>1, <2>2 DEF TypeOK, Req, Phase
  <2>4. TypeOK'
    BY <1>2, <2>3 DEF Load, TypeOK
  <2>5. LedgerNumbered'
    BY <1>2 DEF Load, LedgerNumbered
  <2>6. req[r] \in Req /\ req[r].phase # "idle"
    BY <1>2 DEF Load, TypeOK
  <2>7. LoadedNumbered'
    BY <2>2, <2>3, <2>6 DEF LoadedNumbered, Req
  <2>8. Posted'
    BY <2>3, <2>6 DEF Posted, Req
  <2> QED BY <2>4, <2>5, <2>7, <2>8
<1>3. ASSUME NEW r \in Request,
             \/ LoadFails(r) \/ SaveFails(r) \/ SaveSucceeds(r)
             \/ NodeSucceeds(r) \/ Evicted(r)
      PROVE  Inv'
  <2>1. /\ req' = [req EXCEPT ![r] = Idle]
        /\ req[r].phase # "idle"
        /\ UNCHANGED <<posts, ledger, audit, damages, overtaken>>
    BY <1>3 DEF LoadFails, SaveFails, SaveSucceeds, NodeSucceeds, Evicted
  <2>2. tasks' \in SUBSET Task
    <3>1. CASE UNCHANGED tasks
      BY <3>1 DEF TypeOK
    <3>2. \E reason \in Reason : EmitAudit(req[r].post, reason) \/ UNCHANGED tasks
      BY <1>3
      DEF LoadFails, SaveFails, SaveSucceeds, NodeSucceeds, Evicted, Reason
    <3> QED BY <2>1, <3>1, <3>2, EmitTyped DEF Posted
  <2>3. acked' \in SUBSET Row
    <3>1. CASE SaveSucceeds(r) \/ NodeSucceeds(r)
      <4>1. NewEvent(r) \in Row
        BY <3>1, AppendNumbered DEF SaveSucceeds, NodeSucceeds, LoadedNumbered
      <4> QED BY <3>1, <4>1 DEF SaveSucceeds, NodeSucceeds, TypeOK
    <3> QED BY <1>3, <3>1 DEF LoadFails, SaveFails, Evicted, TypeOK
  <2>4. TypeOK'
    BY <2>1, <2>2, <2>3, IdleReq DEF TypeOK
  <2>5. LedgerNumbered'
    BY <2>1 DEF LedgerNumbered
  <2>6. LoadedNumbered' /\ Posted'
    BY <2>1, IdleReq DEF LoadedNumbered, Posted, TypeOK
  <2> QED BY <2>4, <2>5, <2>6
<1>4. ASSUME NEW r \in Request, Save(r) \/ NodeSave(r) PROVE Inv'
  <2> DEFINE new == Append(req[r].rows, NewEvent(r))
  <2>1. /\ req[r].phase = "loaded" /\ new \in Seq(Row)
        /\ req' = [req EXCEPT ![r].phase = "stored"]
        /\ ledger' = Append(ledger, new)
        /\ overtaken' \in BOOLEAN
        /\ UNCHANGED <<posts, audit, tasks, acked, damages>>
    BY <1>4, SaveStep
  <2>2. Numbered(req[r].rows) /\ req[r].post # 0
    BY <2>1 DEF LoadedNumbered, Posted
  <2>3. Numbered(new)
    BY <2>2, AppendNumbered
  <2>4. /\ req' \in [Request -> Req]
        /\ req'[r] = [req[r] EXCEPT !.phase = "stored"]
        /\ \A q \in Request \ {r} : req'[q] = req[q]
    BY <2>1 DEF TypeOK, Req, Phase
  <2> HIDE DEF new
  <2>5. TypeOK'
    BY <2>1, <2>4, NewVersion DEF TypeOK
  <2>6. LedgerNumbered'
    BY <2>1, <2>3, NewVersion
  <2>7. LoadedNumbered' /\ Posted'
    BY <2>1, <2>2, <2>4 DEF LoadedNumbered, Posted, TypeOK, Req
  <2> QED BY <2>5, <2>6, <2>7
<1>5. ASSUME NEW t \in tasks, AuditLoad(t) \/ AuditSave(t) \/ AuditFails(t)
      PROVE  Inv'
  <2>1. t \in Task
    BY DEF TypeOK
  <2>2. UNCHANGED <<posts, ledger, req, acked, damages, overtaken>>
    BY <1>5 DEF AuditLoad, AuditSave, AuditFails
  <2>3. CASE AuditLoad(t)
    <3>1. PICK rows \in Readable(audit) :
            tasks' = (tasks \ {t}) \cup {[t EXCEPT !.rows = rows]}
      BY <2>3 DEF AuditLoad
    <3>2. rows \in Seq(AuditRecord)
      BY <3>1, Readables DEF TypeOK
    <3>3. [t EXCEPT !.rows = rows] \in Task
      BY <2>1, <3>2 DEF Task
    <3> QED BY <2>2, <2>3, <3>1, <3>3
        DEF AuditLoad, TypeOK, LedgerNumbered, LoadedNumbered, Posted
  <2>4. CASE AuditSave(t)
    <3>1. t.rows \in Seq(AuditRecord) /\ t.record \in AuditRecord
      BY <2>1, <2>4 DEF AuditSave, Task
    <3>2. Append(t.rows, t.record) \in Seq(AuditRecord)
      BY <3>1
    <3>3. KeepNewest(Append(t.rows, t.record)) \in Seq(AuditRecord)
      BY <3>2, NewestTyped
    <3>4. audit' \in Seq(Seq(AuditRecord)) /\ audit' # << >>
      <4>1. audit' = Append(audit, KeepNewest(Append(t.rows, t.record)))
        BY <2>4 DEF AuditSave
      <4>2. audit' \in Seq(Seq(AuditRecord)) /\ Len(audit') = Len(audit) + 1
        BY <3>3, <4>1 DEF TypeOK
      <4>3. Len(audit) \in Nat
        BY DEF TypeOK
      <4> QED BY <4>2, <4>3
    <3> QED BY <2>2, <2>4, <3>4
        DEF AuditSave, TypeOK, LedgerNumbered, LoadedNumbered, Posted
  <2>5. CASE AuditFails(t)
    BY <2>2, <2>5
    DEF AuditFails, TypeOK, LedgerNumbered, LoadedNumbered, Posted
  <2> QED BY <1>5, <2>3, <2>4, <2>5
<1>6. CASE LedgerDamaged
  <2>1. ledger' = Append(ledger, << >>) /\ UNCHANGED <<posts, audit, req, tasks, acked>>
    BY <1>6 DEF LedgerDamaged
  <2>2. damages' \in 0..MaxDamages /\ overtaken' \in BOOLEAN
    BY <1>6, LedgerWriteAssumption DEF LedgerDamaged, TypeOK
  <2>3. LedgerNumbered' /\ ledger' \in Seq(Seq(Row)) /\ ledger' # << >>
    BY <2>1, EmptyNumbered, NewVersion
  <2> QED BY <2>1, <2>2, <2>3 DEF TypeOK, LoadedNumbered, Posted
<1>7. CASE AuditDamaged
  <2>1. audit' = Append(audit, << >>)
        /\ UNCHANGED <<posts, ledger, req, tasks, acked, overtaken>>
    BY <1>7 DEF AuditDamaged
  <2>2. damages' \in 0..MaxDamages
    BY <1>7, LedgerWriteAssumption DEF AuditDamaged, TypeOK
  <2>3. audit' \in Seq(Seq(AuditRecord)) /\ audit' # << >>
    <3>1. audit \in Seq(Seq(AuditRecord)) /\ << >> \in Seq(AuditRecord)
      BY DEF TypeOK
    <3>2. audit' \in Seq(Seq(AuditRecord)) /\ Len(audit') = Len(audit) + 1
      BY <2>1, <3>1
    <3>3. Len(audit) \in Nat
      BY <3>1
    <3> QED BY <3>2, <3>3
  <2> QED BY <2>1, <2>2, <2>3 DEF TypeOK, LedgerNumbered, LoadedNumbered, Posted
<1>8. CASE UNCHANGED vars
  BY <1>8 DEF vars, TypeOK, LedgerNumbered, LoadedNumbered, Posted
<1> QED BY <1>1, <1>2, <1>3, <1>4, <1>5, <1>6, <1>7, <1>8 DEF Next

(* Theorems                                                                 *)

\* Types, numbering and loaded documents, in every reachable state.
THEOREM InductiveInvariant == Spec => []Inv
BY InvInitially, InvInductive, PTL DEF Spec

\* Type correctness.
THEOREM TypeCorrect == Spec => []TypeOK
<1>1. Inv => TypeOK
  BY DEF Inv, IInv
<1> QED BY <1>1, InductiveInvariant, PTL

\* Every version of the ledger is numbered, whatever raced, whichever servers
\* wrote and whatever was lost (the sequence is computed from the very rows
\* that are put back).
THEOREM AlwaysNumbered == Spec => []LedgerNumbered
<1>1. Inv => LedgerNumbered
  BY DEF Inv, IInv
<1> QED BY <1>1, InductiveInvariant, PTL

\* The collision check of the writer never fires.
THEOREM CollisionsNeverSeen == Spec => []NeverCollides
<1>1. Inv => NeverCollides
  <2> SUFFICES ASSUME Inv, NEW r \in Request, req[r].phase = "loaded",
                      req[r].server = "worker"
               PROVE  ~HasEventIdCollision(req[r].rows, NewEvent(r).event_id)
    BY DEF NeverCollides
  <2>1. Numbered(req[r].rows) /\ req[r].rows \in Seq(Row)
    BY DEF Inv, IInv, LoadedNumbered, TypeOK, Req
  <2> QED BY <2>1, NoCollisionIn DEF NewEvent, WorkerEvent
<1> QED BY <1>1, InductiveInvariant, PTL

(* What clients were told                                                   *)

\* Only a put or a damage changes the ledger.
LEMMA OthersKeepLedger ==
  ASSUME [Next]_vars, ~ \E r \in Request : Save(r) \/ NodeSave(r), ~LedgerDamaged
  PROVE  UNCHANGED <<ledger, overtaken>>
BY DEF Next, vars, Begin, NodeBegin, Receive, Load, LoadFails, SaveFails,
       SaveSucceeds, NodeSucceeds, Evicted, AuditLoad, AuditSave, AuditFails,
       AuditDamaged

\* Appending keeps what is held, and holds the new row.
LEMMA HeldAfterAppend ==
  ASSUME NEW rows \in Seq(Row), NEW e \in Row
  PROVE  /\ \A f : Holds(rows, f) => Holds(Append(rows, e), f)
         /\ Holds(Append(rows, e), e)
<1>1. /\ DOMAIN rows = 1..Len(rows) /\ Len(rows) \in Nat
      /\ DOMAIN Append(rows, e) = 1..(Len(rows) + 1)
      /\ \A i \in 1..Len(rows) : Append(rows, e)[i] = rows[i]
      /\ Append(rows, e)[Len(rows) + 1] = e
  OBVIOUS
<1> QED BY <1>1 DEF Holds

LEMMA StoredHeldInductive ==
  ASSUME Inv, StoredHeld, [Next]_vars
  PROVE  StoredHeld'
<1>1. ASSUME NEW r \in Request, Save(r) \/ NodeSave(r) PROVE StoredHeld'
  <2> SUFFICES ASSUME ~overtaken' PROVE StoredHeld'
    BY DEF StoredHeld
  <2>1. /\ ~overtaken /\ req[r].rows = Current
        /\ Current' = Append(Current, NewEvent(r))
        /\ Current \in Seq(Row) /\ NewEvent(r) \in Row
        /\ UNCHANGED acked
    BY <1>1, SaveStep
  <2>2. \A f : Holds(Current, f) => Holds(Current', f)
    BY <2>1, HeldAfterAppend
  <2>3. AckedStays'
    BY <2>1, <2>2 DEF StoredHeld, AckedStays, Holds
  <2>4. ASSUME NEW q \in Request, req'[q].phase = "stored"
        PROVE  Holds(Current', NewEvent(q)')
    <3>1. CASE q = r
      <4>1. NewEvent(q)' = NewEvent(r)
        BY <1>1, <3>1, SaveStep
      <4>2. Holds(Current', NewEvent(r))
        BY <2>1, HeldAfterAppend
      <4> QED BY <4>1, <4>2
    <3>2. CASE q # r
      <4>1. req'[q] = req[q]
        BY <1>1, <3>2, SaveStep DEF Inv, IInv, TypeOK
      <4>2. NewEvent(q)' = NewEvent(q)
        BY <4>1 DEF NewEvent, WorkerEvent, NodeEvent
      <4> QED BY <2>1, <2>2, <2>4, <4>1, <4>2 DEF StoredHeld
    <3> QED BY <3>1, <3>2
  <2> QED BY <2>3, <2>4 DEF StoredHeld, Holds
<1>2. ASSUME LedgerDamaged PROVE StoredHeld'
  BY <1>2 DEF LedgerDamaged, StoredHeld
<1>3. ASSUME UNCHANGED <<ledger, overtaken>>,
             acked' \subseteq acked \cup
               {NewEvent(r) : r \in {q \in Request : req[q].phase = "stored"}},
             \A q \in Request : req'[q].phase = "stored" => req'[q] = req[q]
      PROVE  StoredHeld'
  <2> SUFFICES ASSUME ~overtaken' PROVE StoredHeld'
    BY DEF StoredHeld
  <2>1. ~overtaken /\ Current' = Current
    BY <1>3 DEF Current
  <2>2. AckedStays'
    BY <1>3, <2>1 DEF StoredHeld, AckedStays, Holds
  <2>3. ASSUME NEW q \in Request, req'[q].phase = "stored"
        PROVE  Holds(Current', NewEvent(q)')
    <3>1. NewEvent(q)' = NewEvent(q) /\ req[q].phase = "stored"
      BY <1>3, <2>3 DEF NewEvent, WorkerEvent, NodeEvent
    <3> QED BY <2>1, <3>1 DEF StoredHeld
  <2> QED BY <2>2, <2>3 DEF StoredHeld, Holds
<1>4. ASSUME ~ \E r \in Request : Save(r) \/ NodeSave(r), ~LedgerDamaged
      PROVE  StoredHeld'
  <2>1. UNCHANGED <<ledger, overtaken>>
    BY <1>4, OthersKeepLedger
  <2>2. acked' \subseteq acked \cup
          {NewEvent(r) : r \in {q \in Request : req[q].phase = "stored"}}
    BY <1>4
    DEF Next, vars, Begin, NodeBegin, Receive, Load, LoadFails, SaveFails,
        SaveSucceeds, NodeSucceeds, Evicted, AuditLoad, AuditSave, AuditFails,
        AuditDamaged
  <2>3. ASSUME NEW q \in Request, req'[q].phase = "stored"
        PROVE  req'[q] = req[q]
    <3>1. ASSUME NEW r \in Request,
                 Begin(r) \/ NodeBegin(r) \/ Load(r)
          PROVE  /\ \A p \in Request \ {r} : req'[p] = req[p]
                 /\ req'[r].phase # "stored"
      BY <3>1 DEF Begin, NodeBegin, Receive, Load, Idle, Inv, IInv, TypeOK, Req
    <3>2. ASSUME NEW r \in Request,
                 \/ LoadFails(r) \/ SaveFails(r) \/ SaveSucceeds(r)
                 \/ NodeSucceeds(r) \/ Evicted(r)
          PROVE  /\ \A p \in Request \ {r} : req'[p] = req[p]
                 /\ req'[r].phase # "stored"
      BY <3>2, IdleReq
      DEF LoadFails, SaveFails, SaveSucceeds, NodeSucceeds, Evicted,
          Inv, IInv, TypeOK
    <3>3. CASE UNCHANGED req
      BY <3>3
    <3> QED
      BY <1>4, <2>3, <3>1, <3>2, <3>3
      DEF Next, vars, AuditLoad, AuditSave, AuditFails, AuditDamaged
  <2> QED BY <1>3, <2>1, <2>2, <2>3
<1> QED BY <1>1, <1>2, <1>4

\* Rows of a numbered document with one id are one row.
LEMMA IdTellsRow ==
  ASSUME NEW rows \in Seq(Row), Numbered(rows),
         NEW i \in DOMAIN rows, NEW j \in DOMAIN rows,
         rows[i].event_id = rows[j].event_id
  PROVE  rows[i] = rows[j]
<1>1. /\ rows[i] \in Row /\ rows[j] \in Row
      /\ i \in Nat /\ j \in Nat
  OBVIOUS
<1>2. /\ rows[i].event_id = IF rows[i].sequence = Null
                            THEN <<"uuid", rows[i].post>>
                            ELSE <<"le", rows[i].sequence>>
      /\ rows[j].event_id = IF rows[j].sequence = Null
                            THEN <<"uuid", rows[j].post>>
                            ELSE <<"le", rows[j].sequence>>
  BY DEF Numbered, RandomUUID, EventId
<1>3. /\ \A x, y : <<"uuid", x>> # <<"le", y>>
      /\ \A x, y : <<"uuid", x>> = <<"uuid", y>> => x = y
      /\ \A x, y : <<"le", x>> = <<"le", y>> => x = y
  OBVIOUS
<1>4. CASE rows[i].sequence = Null
  <2>1. rows[j].sequence = Null
    BY <1>2, <1>3, <1>4
  <2>2. rows[i].post = rows[j].post
    BY <1>2, <1>3, <1>4, <2>1
  <2> QED BY <1>1, <1>4, <2>1, <2>2 DEF Row
<1>5. CASE rows[i].sequence # Null
  <2>1. rows[j].sequence # Null
    BY <1>2, <1>3, <1>5
  <2>2. rows[i].sequence = rows[j].sequence
    BY <1>2, <1>3, <1>5, <2>1
  <2>3. rows[i].sequence \in Nat
    BY <1>1, <1>5 DEF Row
  <2>4. ~(i < j) /\ ~(j < i)
    <3>1. i < j => rows[i].sequence < rows[j].sequence
      BY <1>5, <2>1 DEF Numbered
    <3>2. j < i => rows[j].sequence < rows[i].sequence
      BY <1>5, <2>1 DEF Numbered
    <3> QED BY <2>2, <2>3, <3>1, <3>2
  <2>5. i = j
    BY <1>1, <2>4
  <2> QED BY <2>5
<1> QED BY <1>4, <1>5

\* As long as every put went over the current rows, acknowledged events stay in
\* the ledger and no two of them share an id: whatever failed, and whichever of
\* the two servers wrote.
THEOREM OvertakingAloneLoses == Spec => []OnlyOvertakingLoses
<1>1. Init => StoredHeld
  BY IdleReq DEF Init, StoredHeld, AckedStays
<1>2. Inv /\ StoredHeld /\ [Next]_vars => StoredHeld'
  BY StoredHeldInductive
<1>3. Inv /\ StoredHeld => OnlyOvertakingLoses
  <2> SUFFICES ASSUME Inv, StoredHeld, ~overtaken,
                      NEW e \in acked, NEW f \in acked,
                      e.event_id = f.event_id
               PROVE  e = f
    BY DEF OnlyOvertakingLoses, UniqueAcrossPosts, StoredHeld
  <2>1. PICK i \in DOMAIN Current : Current[i] = e
    BY DEF StoredHeld, AckedStays, Holds
  <2>2. PICK j \in DOMAIN Current : Current[j] = f
    BY DEF StoredHeld, AckedStays, Holds
  <2>3. Numbered(Current) /\ Current \in Seq(Row)
    BY DEF Inv, IInv, LedgerNumbered, TypeOK, Current
  <2> QED BY <2>1, <2>2, <2>3, IdTellsRow
<1> QED BY <1>1, <1>2, <1>3, InductiveInvariant, PTL DEF Spec

(* The audit trail                                                          *)

\* Versions of the ledger are only added.
LEMMA LedgerGrows ==
  ASSUME Inv, [Next]_vars, NEW p, InLedger(p)
  PROVE  InLedger(p)'
<1>1. ASSUME NEW new \in Seq(Row), ledger' = Append(ledger, new)
      PROVE  InLedger(p)'
  <2>1. \A w \in DOMAIN ledger : w \in DOMAIN ledger' /\ ledger'[w] = ledger[w]
    BY <1>1, NewVersion
  <2> QED BY <2>1 DEF InLedger
<1>2. CASE \E r \in Request : Save(r) \/ NodeSave(r)
  BY <1>1, <1>2, SaveStep
<1>3. CASE LedgerDamaged
  BY <1>1, <1>3, EmptyNumbered DEF LedgerDamaged
<1>4. CASE UNCHANGED ledger
  BY <1>4 DEF InLedger
<1> QED BY <1>2, <1>3, <1>4, OthersKeepLedger

\* A put that took effect left its POST in the ledger.
LEMMA SaveStores ==
  ASSUME Inv, NEW r \in Request, Save(r) \/ NodeSave(r)
  PROVE  InLedger(req[r].post)'
<1> DEFINE new == Append(req[r].rows, NewEvent(r))
<1>1. req[r].rows \in Seq(Row) /\ NewEvent(r) \in Row /\ new \in Seq(Row)
  BY SaveStep
<1>2. Len(req[r].rows) + 1 \in DOMAIN new
      /\ new[Len(req[r].rows) + 1] = NewEvent(r)
  BY <1>1
<1>3. NewEvent(r).post = req[r].post
  BY DEF NewEvent, WorkerEvent, NodeEvent
<1>4. Len(ledger) + 1 \in DOMAIN ledger' /\ ledger'[Len(ledger) + 1] = new
  <2>1. ledger' = Append(ledger, new)
    BY SaveStep
  <2> HIDE DEF new
  <2> QED BY <1>1, <2>1, NewVersion
<1>5. req'[r].post = req[r].post
  BY SaveStep DEF Inv, IInv, TypeOK, Req
<1> QED BY <1>2, <1>3, <1>4, <1>5 DEF InLedger

\* A trail that does not change still says the truth.
LEMMA SameTrail ==
  ASSUME Inv, AuditInv, [Next]_vars, UNCHANGED audit,
         posts' \in Nat, posts <= posts'
  PROVE  /\ \A p : InTrail(p)' <=> InTrail(p)
         /\ TrailSound'
         /\ AuditTruthful'
<1>1. \A p : InTrail(p)' <=> InTrail(p)
  BY DEF InTrail
<1>2. TrailSound'
  BY LedgerWriteAssumption DEF AuditInv, TrailSound, Inv, IInv, TypeOK
<1>3. AuditTruthful'
  <2>1. \A v \in DOMAIN audit : \A i \in DOMAIN audit[v] :
          audit[v][i].reason = "APPENDED" => InLedger(audit[v][i].post)'
    BY LedgerGrows DEF AuditInv, AuditTruthful, InLedger
  <2> QED BY <2>1 DEF AuditInv, AuditTruthful, InLedger
<1> QED BY <1>1, <1>2, <1>3

\* A handler begins, or goes on with what it has.
LEMMA HandlerKeeps ==
  ASSUME Inv, AuditInv, [Next]_vars, NEW r \in Request,
         \/ Begin(r) \/ NodeBegin(r) \/ Load(r) \/ Save(r) \/ NodeSave(r)
         \/ NodeSucceeds(r) \/ Evicted(r)
  PROVE  AuditInv'
<1>1. UNCHANGED <<audit, tasks>> /\ posts' \in Nat /\ posts <= posts'
  <2>1. UNCHANGED <<audit, tasks>> /\ (posts' = posts \/ posts' = posts + 1)
    BY SaveStep DEF Begin, NodeBegin, Receive, Load, NodeSucceeds, Evicted
  <2> QED BY <2>1 DEF Inv, IInv, TypeOK
<1>2. /\ \A p : InTrail(p)' <=> InTrail(p)
      /\ TrailSound' /\ AuditTruthful'
  BY <1>1, SameTrail
<1>3. TasksSound'
  <2>1. \A t \in tasks : t.record.reason = "APPENDED" =>
                         InLedger(t.record.post)'
    BY LedgerGrows DEF AuditInv, TasksSound
  <2>2. posts \in Nat
    BY DEF Inv, IInv, TypeOK
  <2> QED BY <1>1, <1>2, <2>1, <2>2 DEF AuditInv, TasksSound
<1>4. /\ \A q \in Request \ {r} : req'[q] = req[q]
      /\ req'[r].phase # "idle" =>
           \/ req'[r].post = posts + 1 /\ posts' = posts + 1
              /\ req'[r].phase = "loading"
           \/ /\ req[r].phase # "idle" /\ req'[r].post = req[r].post
              /\ posts' = posts
              /\ req'[r].phase = "stored" => InLedger(req[r].post)'
  <2>1. CASE Begin(r) \/ NodeBegin(r)
    BY <2>1 DEF Begin, NodeBegin, Receive, Idle, Inv, IInv, TypeOK, Req
  <2>2. CASE Load(r)
    BY <2>2 DEF Load, Inv, IInv, TypeOK, Req
  <2>3. CASE Save(r) \/ NodeSave(r)
    BY <2>3, SaveStep, SaveStores DEF Inv, IInv, TypeOK, Req
  <2>4. CASE NodeSucceeds(r) \/ Evicted(r)
    BY <2>4, IdleReq DEF NodeSucceeds, Evicted, Inv, IInv, TypeOK, Req
  <2> QED BY <2>1, <2>2, <2>3, <2>4
<1>5. \A p \in {posts + 1} : /\ ~InTrail(p)
                             /\ \A t \in tasks : t.record.post # p
                             /\ \A q \in Request : req[q].phase # "idle" =>
                                                   req[q].post # p
  <2>1. posts \in Nat
    BY DEF Inv, IInv, TypeOK
  <2> QED BY <2>1 DEF AuditInv, RequestsSound, TasksSound, TrailSound, InTrail
<1>6. RequestsSound'
  <2>1. ASSUME NEW q \in Request \ {r}, req[q].phase # "idle"
        PROVE  req[q].phase = "stored" => InLedger(req[q].post)'
    <3>1. \A p : InLedger(p) => InLedger(p)'
      BY LedgerGrows
    <3>2. req'[q] = req[q]
      BY <1>4
    <3>3. req[q].phase = "stored" => InLedger(req[q].post)
      BY <2>1 DEF AuditInv, RequestsSound
    <3> QED BY <3>1, <3>2, <3>3 DEF InLedger
  <2>2. posts \in Nat
    BY DEF Inv, IInv, TypeOK
  <2> QED BY <1>1, <1>2, <1>4, <1>5, <2>1, <2>2 DEF AuditInv, RequestsSound, InLedger
<1> QED BY <1>2, <1>3, <1>6 DEF AuditInv

\* A handler ends with one record of its POST.
LEMMA EmitKeeps ==
  ASSUME Inv, AuditInv, [Next]_vars, NEW r \in Request,
         LoadFails(r) \/ SaveFails(r) \/ SaveSucceeds(r)
  PROVE  AuditInv'
<1> DEFINE post == req[r].post
           made(x) == [record |-> [post |-> post, reason |-> x], rows |-> Null]
<1>1. /\ req[r].phase # "idle" /\ UNCHANGED <<posts, ledger, audit>>
      /\ req' = [req EXCEPT ![r] = Idle]
  BY DEF LoadFails, SaveFails, SaveSucceeds
<1>2. PICK x \in Reason : /\ tasks' = tasks \cup {made(x)}
                          /\ x = "APPENDED" => req[r].phase = "stored"
  BY DEF LoadFails, SaveFails, SaveSucceeds, EmitAudit, Reason
<1>3. /\ \A p : InTrail(p)' <=> InTrail(p)
      /\ \A p : InLedger(p)' <=> InLedger(p)
      /\ TrailSound' /\ AuditTruthful'
  <2>1. posts' \in Nat /\ posts <= posts'
    BY <1>1 DEF Inv, IInv, TypeOK
  <2>2. \A p : InLedger(p)' <=> InLedger(p)
    BY <1>1 DEF InLedger
  <2> QED BY <1>1, <2>1, <2>2, SameTrail
<1>4. /\ post \in 1..posts /\ ~InTrail(post)
      /\ \A t \in tasks : t.record.post # post
      /\ x = "APPENDED" => InLedger(post)
  BY <1>1, <1>2 DEF AuditInv, RequestsSound
<1>5. \A q \in Request : req'[q].phase # "idle" => q # r /\ req'[q] = req[q]
  BY <1>1, IdleReq DEF Inv, IInv, TypeOK
<1>6. /\ made(x).record.post = post /\ made(x).record.reason = x
      /\ made(x).rows = Null
  OBVIOUS
<1> HIDE DEF made
<1>7. TasksSound'
  <2>1. ASSUME NEW t \in tasks PROVE
          /\ t.record.post \in 1..posts' /\ ~InTrail(t.record.post)'
          /\ \A u \in tasks' \ {t} : u.record.post # t.record.post
          /\ t.rows # Null => \E v \in DOMAIN audit' : t.rows = audit'[v]
          /\ t.record.reason = "APPENDED" => InLedger(t.record.post)'
    BY <1>1, <1>2, <1>3, <1>4, <1>6 DEF AuditInv, TasksSound
  <2>2. /\ post \in 1..posts' /\ \A p \in {post} : ~InTrail(p)'
        /\ \A u \in tasks' \ {made(x)} : u.record.post # post
        /\ x = "APPENDED" => \A p \in {post} : InLedger(p)'
    BY <1>1, <1>2, <1>3, <1>4
  <2>3. ASSUME NEW t \in tasks' PROVE
          /\ t.record.post \in 1..posts' /\ \A p \in {t.record.post} : ~InTrail(p)'
          /\ \A u \in tasks' \ {t} : u.record.post # t.record.post
          /\ t.rows # Null => \E v \in DOMAIN audit' : t.rows = audit'[v]
          /\ t.record.reason = "APPENDED" =>
               \A p \in {t.record.post} : InLedger(p)'
    <3>1. CASE t \in tasks
      BY <2>1, <3>1 DEF InTrail, InLedger
    <3>2. CASE t = made(x)
      BY <2>2, <1>6, <3>2
    <3> QED BY <1>2, <3>1, <3>2
  <2> QED BY <2>3 DEF TasksSound, InTrail, InLedger
<1>8. RequestsSound'
  <2>1. ASSUME NEW q \in Request, req'[q].phase # "idle"
        PROVE  /\ req[q].post \in 1..posts /\ ~InTrail(req[q].post)
               /\ \A t \in tasks' : t.record.post # req[q].post
               /\ \A u \in Request \ {q} : req'[u].phase # "idle" =>
                                           req'[u].post # req[q].post
               /\ req[q].phase = "stored" => InLedger(req[q].post)
               /\ req'[q] = req[q]
    BY <1>1, <1>2, <1>5, <1>6, <2>1 DEF AuditInv, RequestsSound
  <2> QED BY <1>1, <2>1 DEF RequestsSound, InTrail, InLedger
<1> QED BY <1>3, <1>7, <1>8 DEF AuditInv

\* What is kept of a trail is its end.
LEMMA NewestAreLast ==
  ASSUME NEW rows \in Seq(AuditRecord)
  PROVE  \E k \in Nat : \A i \in DOMAIN KeepNewest(rows) :
           i + k \in DOMAIN rows /\ KeepNewest(rows)[i] = rows[i + k]
<1>1. Len(rows) \in Nat /\ MaxRetained \in Nat \ {0}
  BY LedgerWriteAssumption
<1>2. CASE Len(rows) <= MaxRetained
  <2>1. KeepNewest(rows) = rows /\ \A i \in DOMAIN rows : i + 0 = i
    BY <1>2 DEF KeepNewest
  <2> QED BY <2>1
<1>3. CASE ~(Len(rows) <= MaxRetained)
  <2> DEFINE k == Len(rows) - MaxRetained
  <2>1. k \in Nat
    BY <1>1, <1>3
  <2>2. KeepNewest(rows) = SubSeq(rows, k + 1, Len(rows))
    BY <1>3 DEF KeepNewest
  <2>3. \A i \in DOMAIN SubSeq(rows, k + 1, Len(rows)) :
          /\ i + k \in DOMAIN rows
          /\ SubSeq(rows, k + 1, Len(rows))[i] = rows[i + k]
    BY <1>1, <2>1
  <2> QED BY <2>1, <2>2, <2>3
<1> QED BY <1>2, <1>3

\* A task of the trail goes on, or is gone.
LEMMA TaskKeeps ==
  ASSUME Inv, AuditInv, [Next]_vars, NEW t \in tasks,
         AuditLoad(t) \/ AuditFails(t)
  PROVE  AuditInv'
<1>1. UNCHANGED <<posts, ledger, audit, req>>
  BY DEF AuditLoad, AuditFails
<1>2. /\ \A p : InTrail(p)' <=> InTrail(p)
      /\ TrailSound' /\ AuditTruthful'
  BY <1>1, SameTrail DEF Inv, IInv, TypeOK
<1>3. \A p : InLedger(p)' <=> InLedger(p)
  BY <1>1 DEF InLedger
<1>4. ASSUME NEW u \in tasks' PROVE
        \E w \in tasks : /\ w.record = u.record
                         /\ u # w => w = t /\ u.rows # w.rows
                         /\ u = w \/ \E v \in DOMAIN audit : u.rows = audit[v]
  <2>1. CASE AuditFails(t)
    BY <2>1 DEF AuditFails
  <2>2. CASE AuditLoad(t)
    <3>1. PICK rows \in Readable(audit) :
            tasks' = (tasks \ {t}) \cup {[t EXCEPT !.rows = rows]}
      BY <2>2 DEF AuditLoad
    <3>2. \E v \in DOMAIN audit : rows = audit[v]
      BY <3>1, Readables DEF Inv, IInv, TypeOK
    <3>3. t \in Task
      BY DEF Inv, IInv, TypeOK
    <3>4. /\ [t EXCEPT !.rows = rows].record = t.record
          /\ [t EXCEPT !.rows = rows].rows = rows
          /\ t.rows = rows => [t EXCEPT !.rows = rows] = t
      BY <3>3 DEF Task
    <3> QED BY <3>1, <3>2, <3>4
  <2> QED BY <2>1, <2>2
<1>5. ASSUME NEW u \in tasks', NEW w \in tasks', u # w
      PROVE  u.record.post # w.record.post
  <2>1. CASE AuditFails(t)
    BY <2>1, <1>5 DEF AuditFails, AuditInv, TasksSound
  <2>2. CASE AuditLoad(t)
    <3>1. PICK rows : tasks' = (tasks \ {t}) \cup {[t EXCEPT !.rows = rows]}
      BY <2>2 DEF AuditLoad
    <3>2. [t EXCEPT !.rows = rows].record = t.record
      BY DEF Inv, IInv, TypeOK, Task
    <3> QED BY <1>5, <3>1, <3>2 DEF AuditInv, TasksSound
  <2> QED BY <2>1, <2>2
<1>6. TasksSound'
  <2>1. ASSUME NEW u \in tasks'
        PROVE  /\ u.record.post \in 1..posts /\ ~InTrail(u.record.post)
               /\ u.rows # Null => \E v \in DOMAIN audit : u.rows = audit[v]
               /\ u.record.reason = "APPENDED" => InLedger(u.record.post)
    BY <1>4 DEF AuditInv, TasksSound
  <2> QED BY <1>1, <1>5, <2>1 DEF TasksSound, InTrail, InLedger
<1>7. RequestsSound'
  BY <1>1, <1>4 DEF AuditInv, RequestsSound, InTrail, InLedger
<1> QED BY <1>2, <1>6, <1>7 DEF AuditInv

\* A task puts the trail it loaded back, with its record at the end.
LEMMA TrailKeeps ==
  ASSUME Inv, AuditInv, NEW t \in tasks, AuditSave(t)
  PROVE  AuditInv'
<1> DEFINE all == Append(t.rows, t.record)
           new == KeepNewest(all)
<1>1. /\ UNCHANGED <<posts, ledger, req>> /\ tasks' = tasks \ {t}
      /\ audit' = Append(audit, new)
  BY DEF AuditSave
<1>2. t.rows \in Seq(AuditRecord) /\ t.record \in AuditRecord
  BY DEF AuditSave, Inv, IInv, TypeOK, Task
<1>3. all \in Seq(AuditRecord) /\ new \in Seq(AuditRecord)
  <2>1. all \in Seq(AuditRecord)
    BY <1>2
  <2> HIDE DEF all
  <2> QED BY <2>1, NewestTyped
<1>4. PICK v \in DOMAIN audit : t.rows = audit[v]
  BY DEF AuditSave, AuditInv, TasksSound
<1>5. /\ DOMAIN all = 1..(Len(t.rows) + 1) /\ DOMAIN t.rows = 1..Len(t.rows)
      /\ Len(t.rows) \in Nat
      /\ \A i \in 1..Len(t.rows) : all[i] = t.rows[i]
      /\ all[Len(t.rows) + 1] = t.record
  BY <1>2
<1>6. /\ t.record.post \in 1..posts /\ ~InTrail(t.record.post)
      /\ t.record.reason = "APPENDED" => InLedger(t.record.post)
      /\ \A u \in tasks' : u.record.post # t.record.post
  BY <1>1 DEF AuditInv, TasksSound
<1>7. \A i \in DOMAIN t.rows : /\ t.rows[i].post \in 1..posts
                               /\ t.rows[i].post # t.record.post
                               /\ InTrail(t.rows[i].post)
  BY <1>4, <1>6 DEF InTrail, AuditInv, TrailSound
<1>8. \A i \in DOMAIN t.rows :
        /\ t.rows[i].reason = "APPENDED" => InLedger(t.rows[i].post)
        /\ \A j \in DOMAIN t.rows : t.rows[j].post = t.rows[i].post => j = i
  BY <1>4 DEF AuditInv, AuditTruthful, InLedger
<1>9. \A i \in DOMAIN all :
        /\ all[i].post \in 1..posts
        /\ InTrail(all[i].post) \/ all[i].post = t.record.post
        /\ all[i].reason = "APPENDED" => InLedger(all[i].post)
        /\ \A j \in DOMAIN all : all[j].post = all[i].post => j = i
  <2> HIDE DEF all
  <2>1. ASSUME NEW i \in DOMAIN all
        PROVE  \/ i \in DOMAIN t.rows /\ all[i] = t.rows[i]
               \/ i = Len(t.rows) + 1 /\ all[i] = t.record
    BY <1>5
  <2> QED BY <2>1, <1>6, <1>7, <1>8
<1>10. \A i \in DOMAIN new :
         /\ new[i].post \in 1..posts
         /\ InTrail(new[i].post) \/ new[i].post = t.record.post
         /\ new[i].reason = "APPENDED" => InLedger(new[i].post)
         /\ \A j \in DOMAIN new : new[j].post = new[i].post => j = i
  <2>1. PICK k \in Nat : \A i \in DOMAIN new :
                           i + k \in DOMAIN all /\ new[i] = all[i + k]
    BY <1>3, NewestAreLast
  <2>2. DOMAIN new \subseteq Nat
    BY <1>3
  <2> HIDE DEF all, new
  <2> QED BY <1>9, <2>1, <2>2
<1>11. \A x \in DOMAIN audit' : \/ x \in DOMAIN audit /\ audit'[x] = audit[x]
                                \/ audit'[x] = new
  <2> HIDE DEF new
  <2> QED BY <1>1, <1>3 DEF Inv, IInv, TypeOK
<1> HIDE DEF all, new
<1>12. \A p : InTrail(p)' => InTrail(p) \/ p = t.record.post
  BY <1>10, <1>11 DEF InTrail
<1>13. \A p : InLedger(p)' <=> InLedger(p)
  BY <1>1 DEF InLedger
<1>14. TrailSound'
  BY <1>1, <1>10, <1>11 DEF TrailSound, AuditInv
<1>15. AuditTruthful'
  BY <1>1, <1>10, <1>11 DEF AuditTruthful, AuditInv, InLedger
<1>16. TasksSound'
  <2>1. \A x \in DOMAIN audit : x \in DOMAIN audit' /\ audit'[x] = audit[x]
    BY <1>1, <1>3 DEF Inv, IInv, TypeOK
  <2>2. ASSUME NEW u \in tasks'
        PROVE  /\ u.record.post \in 1..posts' /\ ~InTrail(u.record.post)'
               /\ \A w \in tasks' \ {u} : w.record.post # u.record.post
               /\ u.rows # Null => \E x \in DOMAIN audit' : u.rows = audit'[x]
               /\ u.record.reason = "APPENDED" => InLedger(u.record.post)
    <3>1. u \in tasks /\ u.record.post # t.record.post
      BY <1>1, <1>6
    <3>2. ~InTrail(u.record.post)'
      <4>1. ~InTrail(u.record.post)
        BY <3>1 DEF AuditInv, TasksSound
      <4> QED BY <1>12, <3>1, <4>1
    <3>3. u.rows # Null => \E x \in DOMAIN audit' : u.rows = audit'[x]
      BY <2>1, <3>1 DEF AuditInv, TasksSound
    <3> QED BY <1>1, <3>1, <3>2, <3>3 DEF AuditInv, TasksSound
  <2> QED BY <1>1, <2>2 DEF TasksSound, InTrail, InLedger
<1>17. RequestsSound'
  <2>1. ASSUME NEW q \in Request, req[q].phase # "idle"
        PROVE  /\ req[q].post # t.record.post
               /\ \A p \in {req[q].post} : ~InTrail(p)'
    BY <1>12, <2>1 DEF AuditInv, RequestsSound
  <2> QED BY <1>1, <2>1 DEF AuditInv, RequestsSound, InTrail, InLedger
<1> QED BY <1>14, <1>15, <1>16, <1>17 DEF AuditInv

\* A document that becomes unreadable names no POST, and takes no version away.
LEMMA DamageKeeps ==
  ASSUME Inv, AuditInv, [Next]_vars, LedgerDamaged \/ AuditDamaged
  PROVE  AuditInv'
<1>1. UNCHANGED <<posts, req, tasks>>
  BY DEF LedgerDamaged, AuditDamaged
<1>2. /\ \A x \in DOMAIN audit : x \in DOMAIN audit' /\ audit'[x] = audit[x]
      /\ \A x \in DOMAIN audit' : \/ x \in DOMAIN audit /\ audit'[x] = audit[x]
                                  \/ audit'[x] = << >>
  <2>1. CASE UNCHANGED audit
    BY <2>1
  <2>2. CASE audit' = Append(audit, << >>)
    BY <2>2 DEF Inv, IInv, TypeOK
  <2> QED BY <2>1, <2>2 DEF LedgerDamaged, AuditDamaged
<1>3. \A p : InTrail(p)' <=> InTrail(p)
  BY <1>2 DEF InTrail
<1>4. \A p : InLedger(p) => InLedger(p)'
  BY LedgerGrows
<1>5. TrailSound'
  BY <1>1, <1>2 DEF AuditInv, TrailSound
<1>6. AuditTruthful'
  <2>1. ASSUME NEW v \in DOMAIN audit', NEW i \in DOMAIN audit'[v]
        PROVE  /\ audit'[v][i].reason = "APPENDED" =>
                    \A p \in {audit'[v][i].post} : InLedger(p)'
               /\ \A j \in DOMAIN audit'[v] :
                    audit'[v][j].post = audit'[v][i].post => j = i
    <3>1. v \in DOMAIN audit /\ audit'[v] = audit[v]
      BY <1>2, <2>1
    <3> QED BY <1>4, <2>1, <3>1 DEF AuditInv, AuditTruthful, InLedger
  <2> QED BY <2>1 DEF AuditTruthful, InLedger
<1>7. TasksSound'
  <2>1. ASSUME NEW t \in tasks
        PROVE  /\ t.record.post \in 1..posts /\ ~InTrail(t.record.post)
               /\ \A u \in tasks \ {t} : u.record.post # t.record.post
               /\ t.rows # Null => \E x \in DOMAIN audit' : t.rows = audit'[x]
               /\ t.record.reason = "APPENDED" =>
                    \A p \in {t.record.post} : InLedger(p)'
    BY <1>2, <1>4 DEF AuditInv, TasksSound
  <2> QED BY <1>1, <1>3, <2>1 DEF TasksSound, InTrail, InLedger
<1>8. RequestsSound'
  <2>1. ASSUME NEW q \in Request, req[q].phase # "idle"
        PROVE  /\ req[q].post \in 1..posts /\ ~InTrail(req[q].post)
               /\ \A t \in tasks : t.record.post # req[q].post
               /\ \A u \in Request \ {q} : req[u].phase # "idle" =>
                                           req[u].post # req[q].post
               /\ req[q].phase = "stored" =>
                    \A p \in {req[q].post} : InLedger(p)'
    BY <1>4, <2>1 DEF AuditInv, RequestsSound
  <2> QED BY <1>1, <1>3, <2>1 DEF RequestsSound, InTrail, InLedger
<1> QED BY <1>5, <1>6, <1>7, <1>8 DEF AuditInv

\* The audit trail says APPENDED only of what some version of the ledger has,
\* and once (ledger.write.worker.mjs; audit.worker.mjs), whatever raced.
THEOREM AuditStaysTruthful == Spec => []AuditTruthful
<1>1. Init => AuditInv
  <2> SUFFICES ASSUME Init PROVE AuditInv
    OBVIOUS
  <2>1. RequestsSound /\ TasksSound
    BY IdleReq DEF Init, RequestsSound, TasksSound
  <2>2. audit = << << >> >>
    BY DEF Init
  <2>3. \A v \in DOMAIN audit : DOMAIN audit[v] = {}
    BY <2>2
  <2> QED BY <2>1, <2>3 DEF AuditInv, TrailSound, AuditTruthful
<1>2. Inv /\ AuditInv /\ [Next]_vars => AuditInv'
  <2> SUFFICES ASSUME Inv, AuditInv, [Next]_vars PROVE AuditInv'
    OBVIOUS
  <2>1. CASE UNCHANGED vars
    BY <2>1
    DEF vars, AuditInv, RequestsSound, TasksSound, TrailSound, AuditTruthful,
        InTrail, InLedger
  <2> QED BY <2>1, HandlerKeeps, EmitKeeps, TaskKeeps, TrailKeeps, DamageKeeps
      DEF Next
<1>3. AuditInv => AuditTruthful
  BY DEF AuditInv
<1> QED BY <1>1, <1>2, <1>3, InductiveInvariant, PTL DEF Spec
=============================================================================
