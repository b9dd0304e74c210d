------------------------- MODULE CycleCounts_proofs --------------------------
(***************************************************************************)
(* Theorems about cycle counts, for every value of the constants.          *)
(*                                                                         *)
(* All of them come from one inductive invariant, IInv of CycleCounts: an  *)
(* action that writes lines needs to know whose line an id is (LinesSound),*)
(* what a waiting submit still holds (SubmitSound), and that the ledger is *)
(* written under a claimed lock only (LockSound, WrittenUnderClaim).       *)
(***************************************************************************)
EXTENDS CycleCounts, FoldSums, TLAPS

(* Facts about the helpers                                                  *)

\* Appending events does not change a prefix of the ledger.
LEMMA PrefixKept ==
  ASSUME NEW S, NEW s \in Seq(S), NEW t \in Seq(S),
         NEW n \in Nat, n <= Len(s)
  PROVE  SubSeq(s \o t, 1, n) = SubSeq(s, 1, n)
OBVIOUS

\* The adjustments of a prefix of a sorted list of a count's lines.
LEMMA AdjustmentsType ==
  ASSUME TypeOK, LinesSound, NEW c \in Count,
         \A l \in lines[c] : SnapshotMatches(l),
         NEW o \in SortLinesDeterministically(ToAdjust(c)),
         NEW n \in 0..Cardinality(ToAdjust(c))
  PROVE  /\ Adjustments(c, o, n) \in Seq(Event)
         /\ Len(Adjustments(c, o, n)) = n
         /\ \A i \in 1..n :
              /\ Adjustments(c, o, n)[i].count = c
              /\ Adjustments(c, o, n)[i].line = o[i]
              /\ o[i] \in ToAdjust(c)
         /\ \A i, j \in 1..n : o[i] = o[j] => i = j
<1> DEFINE N == Cardinality(ToAdjust(c))
<1>1. lines[c] \in SUBSET LineId /\ ToAdjust(c) \subseteq lines[c]
  BY DEF TypeOK, ToAdjust
<1>2. N \in Nat
  <2>1. IsFiniteSet(ToAdjust(c))
    BY <1>1, CycleCountsAssumption, FS_Subset
  <2> QED BY <2>1, FS_CardinalityType
<1>3. /\ o \in [1..N -> ToAdjust(c)]
      /\ \A i, j \in 1..N : i < j => line[o[i]].key < line[o[j]].key
  BY DEF SortLinesDeterministically
<1>4. n \in Nat /\ n <= N
  BY <1>2
<1>5. ASSUME NEW i \in 1..n
      PROVE  /\ BuildAdjustmentEvent(c, o[i]) \in Event
             /\ o[i] \in ToAdjust(c)
             /\ line[o[i]].key \in Nat
  <2>1. i \in 1..N
    BY <1>2, <1>4
  <2>2. o[i] \in ToAdjust(c) /\ o[i] \in lines[c] /\ o[i] \in LineId
    BY <2>1, <1>1, <1>3
  <2>3. line[o[i]] \in Line
    BY <2>2 DEF LinesSound
  <2>4. line[o[i]].deltaPlanned \in Int
    BY <2>2, <2>3 DEF SnapshotMatches, Line
  <2>5. line[o[i]].key \in Key
    BY <2>3 DEF Line
  <2> QED
    BY <2>2, <2>4, <2>5, CycleCountsAssumption DEF BuildAdjustmentEvent, Event
<1>6. Adjustments(c, o, n) \in [1..n -> Event]
  BY <1>5 DEF Adjustments
<1>7. /\ Adjustments(c, o, n) \in Seq(Event)
      /\ Len(Adjustments(c, o, n)) = n
  BY <1>4, <1>6
<1>8. \A i \in 1..n : /\ Adjustments(c, o, n)[i].count = c
                      /\ Adjustments(c, o, n)[i].line = o[i]
  BY DEF Adjustments, BuildAdjustmentEvent
<1>9. ASSUME NEW i \in 1..n, NEW j \in 1..n, o[i] = o[j]
      PROVE  i = j
  <2>1. i \in 1..N /\ j \in 1..N
    BY <1>2, <1>4
  <2>2. CASE i < j
    BY <2>1, <2>2, <1>3, <1>5, <1>9
  <2>3. CASE j < i
    BY <2>1, <2>3, <1>3, <1>5, <1>9
  <2> QED BY <2>1, <2>2, <2>3
<1> QED BY <1>5, <1>7, <1>8, <1>9

\* What a persisted snapshot does to a line: a line of the count keeps its
\* key and counted quantity, all other lines stay as they are.
LEMMA SnapshotLinesEffect ==
  ASSUME TypeOK, LinesSound, SubmitSound,
         NEW r \in Request, submit[r].running,
         NEW l \in LineId
  PROVE  LET s == submit[r]
             new == SnapshotLines(Applied(r), s.cursor) IN
         /\ l \in lines[s.count] \/ new[l] = line[l]
         /\ line[l] \in Line => new[l] \in Line /\ new[l].key = line[l].key
         /\ new[l] \in Line \cup {Null}
<1> DEFINE s == submit[r]
           new == SnapshotLines(Applied(r), s.cursor)
<1>1. /\ s \in Submit /\ s.count \in Count /\ s.cursor \in Nat
      /\ s.snaps \subseteq LineSnapshot
  BY DEF TypeOK, Submit, SubmitSound, HeldSound
<1>2. \A t \in Applied(r) : t \in s.snaps /\ t.id \in lines[s.count]
  <2> TAKE t \in Applied(r)
  <2>1. t \in LineSnapshot /\ t \in s.snaps
    BY <1>1 DEF Applied
  <2>2. t.key \in Nat
    BY <2>1, CycleCountsAssumption DEF LineSnapshot
  <2>3. ~(t.key < t.key)
    BY <2>2
  <2> QED BY <2>1, <2>3 DEF Applied, Unknown
<1>3. CASE \E t \in Applied(r) : t.id = l
  <2> DEFINE t == CHOOSE t \in Applied(r) : t.id = l
  <2>1. t \in Applied(r) /\ t.id = l
    BY <1>3
  <2>2. new[l] = [line[l] EXCEPT !.systemQtyAtFreeze = t.systemQtyAtFreeze,
                                 !.systemQtyDerivationCursor = s.cursor,
                                 !.deltaPlanned = t.deltaPlanned]
    BY <1>3 DEF SnapshotLines
  <2>3. l \in lines[s.count] /\ t \in LineSnapshot
    BY <1>1, <1>2, <2>1
  <2>4. line[l] \in Line
    BY <1>1, <2>3 DEF LinesSound
  <2>5. t.systemQtyAtFreeze \in Int /\ t.deltaPlanned \in Int
    BY <2>3 DEF LineSnapshot
  <2>6. new[l] \in Line /\ new[l].key = line[l].key
    BY <1>1, <2>2, <2>4, <2>5 DEF Line
  <2> HIDE DEF t
  <2> QED BY <2>3, <2>6
<1>4. CASE ~ \E t \in Applied(r) : t.id = l
  BY <1>4 DEF SnapshotLines, TypeOK
<1> QED BY <1>3, <1>4

-----------------------------------------------------------------------------
(* Type correctness and ownership of lines                                  *)

LEMMA InitIInv == Init => IInv
<1> SUFFICES ASSUME Init PROVE IInv
  OBVIOUS
<1>1. TypeOK
  BY CycleCountsAssumption
     DEF Init, TypeOK, Header, Submit, STATUS, Idle, Event
<1>2. LinesSound /\ LockSound /\ SubmitSound
  BY DEF Init, LinesSound, LockSound, SubmitSound, Idle
<1>3. WrittenUnderClaim /\ AdjustedAtMostOnce
  BY DEF Init, WrittenUnderClaim, AdjustedAtMostOnce
<1>4. SnapshotReproducible
  BY DEF Init, SnapshotReproducible, IsFrozen
<1> QED BY <1>1, <1>2, <1>3, <1>4 DEF IInv

\* A post appends the adjustments of distinct lines of the count, and the post
\* that succeeds those of all lines that need one.
LEMMA PostAppends ==
  ASSUME TypeOK, LinesSound, NEW c \in Count, PostCycleCountHttp(c)
  PROVE  \E adj \in Seq(Event) :
           /\ ledger' = ledger \o adj
           /\ \A i \in DOMAIN adj : adj[i].count = c /\ adj[i].line \in lines[c]
           /\ \A i, j \in DOMAIN adj : adj[i].line = adj[j].line => i = j
           /\ \A i \in DOMAIN adj : /\ adj[i].line \in ToAdjust(c)
                                    /\ adj[i] = BuildAdjustmentEvent(c, adj[i].line)
           /\ header'[c].status = "POSTED" =>
                /\ \A l \in lines[c] : SnapshotMatches(l)
                /\ \A l \in ToAdjust(c) : \E i \in DOMAIN adj : adj[i].line = l
<1>1. CASE PostMismatch(c)
  <2>1. << >> \in Seq(Event) /\ ledger \o << >> = ledger
    BY DEF TypeOK
  <2>2. ledger' = ledger
    BY <1>1 DEF PostMismatch
  <2>3. \A i \in DOMAIN << >> : FALSE
    OBVIOUS
  <2>4. header'[c].status # "POSTED"
    BY <1>1 DEF PostMismatch, PostGuard, TypeOK, Header
  <2> WITNESS << >> \in Seq(Event)
  <2> QED BY <2>1, <2>2, <2>3, <2>4
<1>2. CASE PostFails(c) \/ PostSucceeds(c)
  <2>1. Cardinality(ToAdjust(c)) \in Nat
    <3>1. ToAdjust(c) \subseteq LineId
      BY DEF TypeOK, ToAdjust
    <3> QED BY <3>1, CycleCountsAssumption, FS_Subset, FS_CardinalityType
  <2>2. \A l \in lines[c] : SnapshotMatches(l)
    BY <1>2 DEF PostFails, PostSucceeds
  <2>3. PICK o \in SortLinesDeterministically(ToAdjust(c)),
             n \in 0..Cardinality(ToAdjust(c)) :
               /\ ledger' = ledger \o Adjustments(c, o, n)
               /\ header'[c].status = "POSTED" => n = Cardinality(ToAdjust(c))
    <3>1. CASE PostFails(c)
      <4>1. 0..(Cardinality(ToAdjust(c)) - 1) \subseteq 0..Cardinality(ToAdjust(c))
        BY <2>1
      <4>2. header'[c].status # "POSTED"
        BY <3>1 DEF PostFails, PostGuard, TypeOK, Header
      <4> QED BY <3>1, <4>1, <4>2 DEF PostFails
    <3>2. CASE PostSucceeds(c)
      <4>1. Cardinality(ToAdjust(c)) \in 0..Cardinality(ToAdjust(c))
        BY <2>1
      <4> QED BY <3>2, <4>1 DEF PostSucceeds
    <3> QED BY <1>2, <3>1, <3>2
  <2> DEFINE adj == Adjustments(c, o, n)
  <2>4. /\ adj \in Seq(Event)
        /\ Len(adj) = n
        /\ \A i \in 1..n : /\ adj[i].count = c
                           /\ adj[i].line = o[i]
                           /\ o[i] \in ToAdjust(c)
        /\ \A i, j \in 1..n : o[i] = o[j] => i = j
    BY <2>2, AdjustmentsType
  <2>5. DOMAIN adj = 1..n
    BY <2>4
  <2>6. ToAdjust(c) \subseteq lines[c]
    BY DEF ToAdjust
  <2>7. \A i \in DOMAIN adj : adj[i].count = c /\ adj[i].line \in lines[c]
    BY <2>4, <2>5, <2>6
  <2>8. \A i, j \in DOMAIN adj : adj[i].line = adj[j].line => i = j
    BY <2>4, <2>5
  <2>9. adj \in Seq(Event) /\ ledger' = ledger \o adj
    BY <2>3, <2>4
  <2>10. \A i \in DOMAIN adj : /\ adj[i].line \in ToAdjust(c)
                              /\ adj[i] = BuildAdjustmentEvent(c, adj[i].line)
    <3>1. \A i \in 1..n : adj[i] = BuildAdjustmentEvent(c, o[i])
      BY DEF Adjustments
    <3> HIDE DEF adj
    <3> QED BY <2>4, <2>5, <3>1
  <2>11. ASSUME header'[c].status = "POSTED", NEW l \in ToAdjust(c)
         PROVE  \E i \in DOMAIN adj : adj[i].line = l
    <3>1. n = Cardinality(ToAdjust(c))
      BY <2>3, <2>11
    <3>2. PICK i \in 1..n : o[i] = l
      BY <3>1 DEF SortLinesDeterministically
    <3> HIDE DEF adj
    <3> QED BY <2>4, <2>5, <3>2
  <2> HIDE DEF adj
  <2> QED BY <2>2, <2>7, <2>8, <2>9, <2>10, <2>11
<1> QED BY <1>1, <1>2 DEF PostCycleCountHttp

LEMMA SubmitTypeOK ==
  ASSUME TypeOK, LinesSound, SubmitSound,
         NEW r \in Request, SubmitCycleCountHttp(r)
  PROVE  TypeOK'
<1> USE DEF TypeOK
<1>1. ASSUME NEW c \in Count, SubmitBegin(r, c)
      PROVE  TypeOK'
  <2> DEFINE copies == {[id |-> l, key |-> line[l].key,
                         countedQty |-> line[l].countedQty] : l \in lines[c]}
  <2>1. copies \subseteq LineCopy
    BY DEF LinesSound, Line, LineCopy
  <2>2. GetCursorAsOfNow \in Nat
    BY DEF GetCursorAsOfNow
  <2>3. [running |-> TRUE, count |-> c, cursor |-> GetCursorAsOfNow,
         todo |-> copies, snaps |-> {}] \in Submit
    BY <2>1, <2>2 DEF Submit
  <2> QED BY <1>1, <2>3 DEF SubmitBegin
<1>2. CASE SubmitReadLine(r)
  <2> PICK t \in submit[r].todo :
        LET qty == GetQtyAsOf(t.key, submit[r].cursor) IN
        /\ qty \in Int
        /\ submit' = [submit EXCEPT
             ![r].todo = @ \ {t},
             ![r].snaps = @ \cup {[id |-> t.id, key |-> t.key,
                                   systemQtyAtFreeze |-> qty,
                                   deltaPlanned |-> t.countedQty - qty]}]
    BY <1>2 DEF SubmitReadLine
  <2> DEFINE qty == GetQtyAsOf(t.key, submit[r].cursor)
             snap == [id |-> t.id, key |-> t.key, systemQtyAtFreeze |-> qty,
                      deltaPlanned |-> t.countedQty - qty]
  <2>1. t \in LineCopy
    BY DEF Submit
  <2>2. snap \in LineSnapshot
    BY <2>1, CycleCountsAssumption DEF LineCopy, LineSnapshot
  <2> HIDE DEF snap
  <2>3. [submit[r] EXCEPT !.todo = @ \ {t}, !.snaps = @ \cup {snap}] \in Submit
    BY <2>2 DEF Submit
  <2>4. submit' = [submit EXCEPT ![r] =
          [submit[r] EXCEPT !.todo = @ \ {t}, !.snaps = @ \cup {snap}]]
    BY DEF snap, Submit
  <2> QED BY <1>2, <2>3, <2>4 DEF SubmitReadLine
<1>3. CASE SubmitRefused(r)
  BY <1>3 DEF SubmitRefused, SnapshotRefusal, Idle, Submit
<1>4. CASE SubmitHalfPersisted(r) \/ SubmitSucceeds(r)
  <2>1. submit[r].running /\ submit[r].count \in Count
    BY <1>4 DEF SubmitHalfPersisted, SubmitSucceeds, SnapshotTaken, SubmitSound,
         HeldSound
  <2>2. line' = SnapshotLines(Applied(r), submit[r].cursor)
    BY <1>4 DEF SubmitHalfPersisted, SubmitSucceeds, PersistFreezeSnapshot
  <2>3. \A l \in LineId : line'[l] \in Line \cup {Null}
    BY <2>1, <2>2, SnapshotLinesEffect
  <2>4. line' \in [LineId -> Line \cup {Null}]
    BY <2>2, <2>3 DEF SnapshotLines
  <2>5. header' \in [Count -> Header]
    <3> DEFINE c == submit[r].count
               half == [header[c] EXCEPT !.freezeLedgerCursor = submit[r].cursor]
               done == [header[c] EXCEPT !.status = "SUBMITTED",
                                         !.freezeLedgerCursor = submit[r].cursor]
    <3>1. submit[r].cursor \in Nat
      BY DEF Submit
    <3>2. half \in Header /\ done \in Header
      BY <2>1, <3>1 DEF Header, STATUS
    <3>3. \/ header' = [header EXCEPT ![c] = half]
          \/ header' = [header EXCEPT ![c] = done]
      BY <1>4, <2>1 DEF SubmitHalfPersisted, SubmitSucceeds, Header
    <3> HIDE DEF half, done
    <3> QED BY <2>1, <3>2, <3>3
  <2>6. submit' \in [Request -> Submit]
    <3>1. Idle \in Submit
      BY DEF Idle, Submit
    <3> QED BY <1>4, <3>1 DEF SubmitHalfPersisted, SubmitSucceeds
  <2>7. UNCHANGED <<lines, issued, ledger>>
    BY <1>4 DEF SubmitHalfPersisted, SubmitSucceeds
  <2> QED BY <2>4, <2>5, <2>6, <2>7
<1> QED BY <1>1, <1>2, <1>3, <1>4 DEF SubmitCycleCountHttp

LEMMA NextTypeOK ==
  ASSUME TypeOK, LinesSound, LockSound, SubmitSound, [Next]_vars
  PROVE  TypeOK'
<1> USE DEF TypeOK
<1>1. ASSUME NEW c \in Count, CreateCycleCountDraftHttp(c)
      PROVE  TypeOK'
  BY <1>1 DEF CreateCycleCountDraftHttp, CreateDraft, Header, STATUS
<1>2. ASSUME NEW c \in Count, AddCycleCountLineHttp(c)
      PROVE  TypeOK'
  <2> PICK l \in LineId, k \in Key, q \in Qty : AddLine(c, l, k, q)
    BY <1>2 DEF AddCycleCountLineHttp
  <2>1. [key |-> k, countedQty |-> q, systemQtyAtFreeze |-> Null,
         systemQtyDerivationCursor |-> Null, deltaPlanned |-> Null] \in Line
    BY DEF Line
  <2> QED BY <1>2, <2>1 DEF AddCycleCountLineHttp, AddLine
<1>3. ASSUME NEW c \in Count, UpdateCycleCountLineHttp(c)
      PROVE  TypeOK'
  <2> PICK l \in LineId, q \in Qty : UpdateLine(c, l, q)
    BY <1>3 DEF UpdateCycleCountLineHttp
  <2>1. line[l] \in Line
    BY DEF UpdateLine, LinesSound
  <2>2. [line[l] EXCEPT !.countedQty = q] \in Line
    BY <2>1 DEF Line
  <2> QED BY <1>3, <2>2 DEF UpdateCycleCountLineHttp, UpdateLine
<1>4. ASSUME NEW c \in Count, DeleteCycleCountLineHttp(c)
      PROVE  TypeOK'
  BY <1>4 DEF DeleteCycleCountLineHttp, DeleteLine
<1>5. ASSUME NEW c \in Count,
             ApproveCycleCountHttp(c) \/ RejectCycleCountHttp(c)
      PROVE  TypeOK'
  BY <1>5 DEF ApproveCycleCountHttp, RejectCycleCountHttp, TransitionStatus,
              Header, STATUS
<1>6. ASSUME NEW c \in Count, PostCycleCountHttp(c)
      PROVE  TypeOK'
  <2>1. header' \in [Count -> Header]
    <3>1. CASE PostMismatch(c) \/ PostFails(c)
      BY <3>1 DEF PostMismatch, PostFails, Header
    <3>2. CASE PostSucceeds(c)
      <4>1. [header[c] EXCEPT !.postIdempotencyKey = TRUE,
                              !.status = "POSTED"] \in Header
        BY DEF Header, STATUS
      <4>2. header' = [header EXCEPT ![c] =
              [header[c] EXCEPT !.postIdempotencyKey = TRUE,
                                !.status = "POSTED"]]
        BY <3>2 DEF PostSucceeds, Header
      <4> QED BY <4>1, <4>2
    <3> QED BY <1>6, <3>1, <3>2 DEF PostCycleCountHttp
  <2>2. UNCHANGED <<lines, line, issued, submit>>
    BY <1>6 DEF PostCycleCountHttp, PostMismatch, PostFails, PostSucceeds
  <2>3. ledger' \in Seq(Event)
    <3> PICK adj \in Seq(Event) : ledger' = ledger \o adj
      BY <1>6, PostAppends
    <3> QED OBVIOUS
  <2> QED BY <2>1, <2>2, <2>3
<1>7. ASSUME NEW r \in Request, SubmitCycleCountHttp(r)
      PROVE  TypeOK'
  BY <1>7, SubmitTypeOK
<1>8. CASE OtherLedgerWrite
  BY <1>8, CycleCountsAssumption DEF OtherLedgerWrite, Event
<1>9. CASE UNCHANGED vars
  BY <1>9 DEF vars
<1> QED
  BY <1>1, <1>2, <1>3, <1>4, <1>5, <1>6, <1>7, <1>8, <1>9 DEF Next

-----------------------------------------------------------------------------
(* What a step may do to lines                                              *)

\* A submit request writes lines of a DRAFT count only.
LEMMA SubmitWritesDraft ==
  ASSUME TypeOK, LinesSound, SubmitSound,
         NEW r \in Request, SubmitHalfPersisted(r) \/ SubmitSucceeds(r)
  PROVE  LET d == submit[r].count IN
         /\ d \in Count
         /\ header[d].status = "DRAFT"
         /\ \A c \in Count \ {d} : header'[c] = header[c]
         /\ \A l \in LineId : l \in lines[d] \/ line'[l] = line[l]
         /\ \A l \in LineId : line[l] \in Line =>
              line'[l] \in Line /\ line'[l].key = line[l].key
<1> DEFINE d == submit[r].count
<1>1. submit[r].running /\ d \in Count
  BY DEF SubmitHalfPersisted, SubmitSucceeds, SnapshotTaken, SubmitSound,
         HeldSound
<1>2. SnapshotRefusal(r) = "NONE" /\ line' = SnapshotLines(Applied(r), submit[r].cursor)
  BY DEF SubmitHalfPersisted, SubmitSucceeds, PersistFreezeSnapshot
<1>3. header[d].status = "DRAFT"
  BY <1>2 DEF SnapshotRefusal, MustBeDraft
<1>4. \A c \in Count \ {d} : header'[c] = header[c]
  BY <1>1 DEF SubmitHalfPersisted, SubmitSucceeds, TypeOK
<1> QED BY <1>1, <1>2, <1>3, <1>4, SnapshotLinesEffect

\* A frozen count keeps its lines, their contents and its cursor.
LEMMA FrozenStep ==
  ASSUME TypeOK, LinesSound, SubmitSound, [Next]_vars,
         NEW c \in Count, IsFrozen(c)
  PROVE  /\ lines'[c] = lines[c]
         /\ \A l \in lines[c] : line'[l] = line[l]
         /\ header'[c].freezeLedgerCursor = header[c].freezeLedgerCursor
         /\ IsFrozen(c)'
<1> USE DEF TypeOK, IsFrozen
<1>1. ASSUME NEW d \in Count, CreateCycleCountDraftHttp(d)
      PROVE  c # d /\ header'[c] = header[c] /\ UNCHANGED <<lines, line>>
  BY <1>1 DEF CreateCycleCountDraftHttp, CreateDraft
<1>2. ASSUME NEW d \in Count, AddCycleCountLineHttp(d)
      PROVE  /\ lines'[c] = lines[c]
             /\ \A l \in lines[c] : line'[l] = line[l]
             /\ UNCHANGED header
  <2>1. c # d
    BY <1>2 DEF AddCycleCountLineHttp, AddLine, MustBeDraft
  <2>2. \A l \in lines[c] : l \in issued
    BY DEF LinesSound
  <2> QED BY <1>2, <2>1, <2>2 DEF AddCycleCountLineHttp, AddLine
<1>3. ASSUME NEW d \in Count,
             UpdateCycleCountLineHttp(d) \/ DeleteCycleCountLineHttp(d)
      PROVE  /\ lines'[c] = lines[c]
             /\ \A l \in lines[c] : line'[l] = line[l]
             /\ UNCHANGED header
  <2>1. c # d
    BY <1>3 DEF UpdateCycleCountLineHttp, UpdateLine,
                DeleteCycleCountLineHttp, DeleteLine, MustBeDraft
  <2>2. \A l \in lines[c] : l \notin lines[d]
    BY <2>1 DEF LinesSound
  <2> QED BY <1>3, <2>1, <2>2
          DEF UpdateCycleCountLineHttp, UpdateLine,
              DeleteCycleCountLineHttp, DeleteLine
<1>4. ASSUME NEW d \in Count,
             ApproveCycleCountHttp(d) \/ RejectCycleCountHttp(d)
      PROVE  /\ UNCHANGED <<lines, line>>
             /\ header'[c].freezeLedgerCursor = header[c].freezeLedgerCursor
             /\ header'[c].status \notin {"NONE", "DRAFT"}
  <2>1. CASE ApproveCycleCountHttp(d)
    BY <2>1 DEF ApproveCycleCountHttp, TransitionStatus, Header
  <2>2. CASE RejectCycleCountHttp(d)
    BY <2>2 DEF RejectCycleCountHttp, TransitionStatus, Header
  <2> QED BY <1>4, <2>1, <2>2
<1>5. ASSUME NEW d \in Count, PostCycleCountHttp(d)
      PROVE  /\ UNCHANGED <<lines, line>>
             /\ header'[c].freezeLedgerCursor = header[c].freezeLedgerCursor
             /\ header'[c].status \notin {"NONE", "DRAFT"}
  <2>1. CASE PostMismatch(d) \/ PostFails(d)
    BY <2>1 DEF PostMismatch, PostFails, Header
  <2>2. CASE PostSucceeds(d)
    BY <2>2 DEF PostSucceeds, Header
  <2> QED BY <1>5, <2>1, <2>2 DEF PostCycleCountHttp
<1>6. ASSUME NEW r \in Request, SubmitCycleCountHttp(r)
      PROVE  /\ lines'[c] = lines[c]
             /\ \A l \in lines[c] : line'[l] = line[l]
             /\ header'[c] = header[c]
  <2>1. CASE SubmitHalfPersisted(r) \/ SubmitSucceeds(r)
    <3>1. submit[r].count \in Count /\ c # submit[r].count
      BY <2>1, SubmitWritesDraft
    <3>2. \A l \in lines[c] : l \notin lines[submit[r].count]
      BY <3>1 DEF LinesSound
    <3>3. UNCHANGED lines
      BY <2>1 DEF SubmitHalfPersisted, SubmitSucceeds
    <3> QED BY <2>1, <3>1, <3>2, <3>3, SubmitWritesDraft
  <2>2. CASE ~(SubmitHalfPersisted(r) \/ SubmitSucceeds(r))
    BY <1>6, <2>2 DEF SubmitCycleCountHttp, SubmitBegin, SubmitReadLine,
                      SubmitRefused
  <2> QED BY <2>1, <2>2
<1>7. CASE OtherLedgerWrite
  BY <1>7 DEF OtherLedgerWrite
<1>8. CASE UNCHANGED vars
  BY <1>8 DEF vars
<1> QED
  BY <1>1, <1>2, <1>3, <1>4, <1>5, <1>6, <1>7, <1>8 DEF Next

\* A line id never comes back: a line of the next state is new, or was there
\* under the same key.
LEMMA LineStep ==
  ASSUME TypeOK, LinesSound, SubmitSound, [Next]_vars, NEW c \in Count
  PROVE  /\ \A l \in lines'[c] :
              /\ line'[l] \in Line
              /\ l \in issued'
              /\ \/ l \in lines[c] /\ line'[l].key = line[l].key
                 \/ l \notin issued
         /\ issued \subseteq issued'
         /\ \A d \in Count : \A l \in lines'[c] : l \in lines'[d] => d = c
<1> USE DEF TypeOK
<1> DEFINE Kept == /\ \A l \in lines'[c] :
                        /\ line'[l] \in Line
                        /\ l \in issued'
                        /\ \/ l \in lines[c] /\ line'[l].key = line[l].key
                           \/ l \notin issued
                   /\ issued \subseteq issued'
                   /\ \A d \in Count : \A l \in lines'[c] :
                        l \in lines'[d] => d = c
<1>1. ASSUME NEW d \in Count, AddCycleCountLineHttp(d)
      PROVE  Kept
  <2> PICK l \in LineId, k \in Key, q \in Qty : AddLine(d, l, k, q)
    BY <1>1 DEF AddCycleCountLineHttp
  <2> DEFINE new == [key |-> k, countedQty |-> q, systemQtyAtFreeze |-> Null,
                     systemQtyDerivationCursor |-> Null,
                     deltaPlanned |-> Null]
  <2>1. new \in Line
    BY DEF Line
  <2>2. /\ l \notin issued
        /\ lines' = [lines EXCEPT ![d] = @ \cup {l}]
        /\ line' = [line EXCEPT ![l] = new]
        /\ issued' = issued \cup {l}
    BY DEF AddLine
  <2> HIDE DEF new
  <2>3. \A e \in Count : \A m \in lines'[e] :
          \/ m \in lines[e] /\ m \in issued /\ line'[m] = line[m]
          \/ m = l /\ e = d /\ line'[m] = new
    BY <2>2 DEF LinesSound
  <2> QED BY <2>1, <2>2, <2>3 DEF LinesSound
<1>2. ASSUME NEW d \in Count, UpdateCycleCountLineHttp(d)
      PROVE  Kept
  <2> PICK l \in LineId, q \in Qty : UpdateLine(d, l, q)
    BY <1>2 DEF UpdateCycleCountLineHttp
  <2>1. line[l] \in Line
    BY DEF UpdateLine, LinesSound
  <2>2. [line[l] EXCEPT !.countedQty = q] \in Line
    BY <2>1 DEF Line
  <2>3. [line[l] EXCEPT !.countedQty = q].key = line[l].key
    BY <2>1 DEF Line
  <2>4. line' = [line EXCEPT ![l] = [line[l] EXCEPT !.countedQty = q]]
    BY DEF UpdateLine
  <2> QED BY <1>2, <2>2, <2>3, <2>4
          DEF UpdateCycleCountLineHttp, LinesSound
<1>3. ASSUME NEW d \in Count, DeleteCycleCountLineHttp(d)
      PROVE  Kept
  <2> PICK l \in LineId : DeleteLine(d, l)
    BY <1>3 DEF DeleteCycleCountLineHttp
  <2>1. /\ lines' = [lines EXCEPT ![d] = @ \ {l}]
        /\ line' = [line EXCEPT ![l] = Null]
        /\ l \in lines[d]
        /\ UNCHANGED issued
    BY <1>3 DEF DeleteLine, DeleteCycleCountLineHttp
  <2>2. \A e \in Count : \A m \in lines'[e] : m \in lines[e] /\ m # l
    BY <2>1 DEF LinesSound
  <2> QED BY <2>1, <2>2 DEF LinesSound
<1>4. ASSUME NEW r \in Request, SubmitHalfPersisted(r) \/ SubmitSucceeds(r)
      PROVE  Kept
  <2>1. UNCHANGED <<lines, issued>>
    BY <1>4 DEF SubmitHalfPersisted, SubmitSucceeds
  <2>2. \A l \in LineId : line[l] \in Line =>
          line'[l] \in Line /\ line'[l].key = line[l].key
    BY <1>4, SubmitWritesDraft
  <2> QED BY <2>1, <2>2 DEF LinesSound
<1>5. CASE UNCHANGED <<lines, line, issued>>
  BY <1>5 DEF LinesSound
<1>6. ASSUME NEW r \in Request, SubmitCycleCountHttp(r)
      PROVE  Kept
  <2>1. CASE ~(SubmitHalfPersisted(r) \/ SubmitSucceeds(r))
    BY <1>5, <1>6, <2>1 DEF SubmitCycleCountHttp, SubmitBegin,
                            SubmitReadLine, SubmitRefused
  <2> HIDE DEF Kept
  <2> QED BY <1>4, <2>1
<1>7. ASSUME NEW d \in Count,
             \/ CreateCycleCountDraftHttp(d)
             \/ ApproveCycleCountHttp(d)
             \/ RejectCycleCountHttp(d)
             \/ PostCycleCountHttp(d)
      PROVE  Kept
  <2>1. UNCHANGED <<lines, line, issued>>
    BY <1>7 DEF CreateCycleCountDraftHttp, ApproveCycleCountHttp,
                RejectCycleCountHttp, PostCycleCountHttp, PostMismatch,
                PostFails, PostSucceeds
  <2> QED BY <1>5, <2>1
<1>8. CASE OtherLedgerWrite \/ UNCHANGED vars
  BY <1>5, <1>8 DEF OtherLedgerWrite, vars
<1> HIDE DEF TypeOK
<1>9. Next \/ UNCHANGED vars
  OBVIOUS
<1> QED BY <1>1, <1>2, <1>3, <1>6, <1>7, <1>8, <1>9 DEF Next

LEMMA LinesSoundStep ==
  ASSUME TypeOK, LinesSound, SubmitSound, [Next]_vars
  PROVE  LinesSound'
BY LineStep DEF LinesSound

-----------------------------------------------------------------------------
(* The post lock and the ledger                                             *)

\* The lock of a count is claimed after approval only, and never given back.
LEMMA LockStep ==
  ASSUME TypeOK, LinesSound, LockSound, SubmitSound, [Next]_vars,
         NEW c \in Count
  PROVE  /\ header[c].postIdempotencyKey => header'[c].postIdempotencyKey
         /\ header'[c].postIdempotencyKey =>
              header'[c].status \in {"APPROVED", "POSTED"}
<1> USE DEF TypeOK, Header
<1>1. ASSUME NEW d \in Count, CreateCycleCountDraftHttp(d)
      PROVE  /\ header'[c].postIdempotencyKey = header[c].postIdempotencyKey
             /\ header'[c].postIdempotencyKey => header'[c] = header[c]
  BY <1>1 DEF CreateCycleCountDraftHttp, CreateDraft, LockSound
<1>2. ASSUME NEW d \in Count, ApproveCycleCountHttp(d)
      PROVE  /\ header'[c].postIdempotencyKey = header[c].postIdempotencyKey
             /\ header'[c].postIdempotencyKey => header'[c] = header[c]
  BY <1>2 DEF ApproveCycleCountHttp, TransitionStatus, LockSound
<1>3. ASSUME NEW d \in Count, RejectCycleCountHttp(d)
      PROVE  /\ header'[c].postIdempotencyKey = header[c].postIdempotencyKey
             /\ header'[c].postIdempotencyKey => header'[c] = header[c]
  BY <1>3 DEF RejectCycleCountHttp, TransitionStatus, LockSound
<1>4. ASSUME NEW d \in Count, PostCycleCountHttp(d)
      PROVE  /\ header'[c] = header[c] \/ header'[c].postIdempotencyKey
             /\ header'[c] = header[c]
                  \/ header'[c].status \in {"APPROVED", "POSTED"}
  <2>1. CASE PostMismatch(d)
    BY <2>1 DEF PostMismatch, PostGuard
  <2>2. CASE PostFails(d)
    BY <2>2 DEF PostFails, PostGuard
  <2>3. CASE PostSucceeds(d)
    BY <2>3 DEF PostSucceeds
  <2> QED BY <1>4, <2>1, <2>2, <2>3 DEF PostCycleCountHttp
<1>5. ASSUME NEW r \in Request, SubmitHalfPersisted(r) \/ SubmitSucceeds(r)
      PROVE  /\ header'[c].postIdempotencyKey = header[c].postIdempotencyKey
             /\ header'[c].postIdempotencyKey => header'[c] = header[c]
  <2> DEFINE d == submit[r].count
  <2>1. d \in Count /\ header[d].status = "DRAFT"
    BY <1>5, SubmitWritesDraft
  <2>2. ~header[d].postIdempotencyKey
    BY <2>1 DEF LockSound
  <2>3. header'[d].postIdempotencyKey = header[d].postIdempotencyKey
    <3>1. CASE SubmitHalfPersisted(r)
      BY <2>1, <3>1 DEF SubmitHalfPersisted
    <3>2. CASE SubmitSucceeds(r)
      BY <2>1, <3>2 DEF SubmitSucceeds
    <3> QED BY <1>5, <3>1, <3>2
  <2>4. c = d \/ header'[c] = header[c]
    BY <1>5, SubmitWritesDraft
  <2> QED BY <2>2, <2>3, <2>4
<1>6. ASSUME \/ \E d \in Count : \/ AddCycleCountLineHttp(d)
                                 \/ UpdateCycleCountLineHttp(d)
                                 \/ DeleteCycleCountLineHttp(d)
             \/ \E r \in Request : \/ \E d \in Count : SubmitBegin(r, d)
                                   \/ SubmitReadLine(r)
                                   \/ SubmitRefused(r)
             \/ OtherLedgerWrite
             \/ UNCHANGED vars
      PROVE  UNCHANGED header
  BY <1>6 DEF AddCycleCountLineHttp, UpdateCycleCountLineHttp,
              DeleteCycleCountLineHttp, SubmitBegin, SubmitReadLine,
              SubmitRefused, OtherLedgerWrite, vars
<1>7. \/ \E d \in Count : \/ CreateCycleCountDraftHttp(d)
                          \/ ApproveCycleCountHttp(d)
                          \/ RejectCycleCountHttp(d)
                          \/ PostCycleCountHttp(d)
      \/ \E r \in Request : SubmitHalfPersisted(r) \/ SubmitSucceeds(r)
      \/ UNCHANGED header
  BY <1>6 DEF Next, SubmitCycleCountHttp
<1> QED
  BY <1>1, <1>2, <1>3, <1>4, <1>5, <1>7 DEF LockSound

\* The ledger only grows.  What it grows by is either no adjustment, or comes
\* from a post that claims a lock nobody had claimed.
LEMMA LedgerStep ==
  ASSUME TypeOK, LinesSound, [Next]_vars
  PROVE  \E more \in Seq(Event) :
           /\ ledger' = ledger \o more
           /\ \/ \A i \in DOMAIN more : more[i].line = Null
              \/ \E c \in Count :
                   /\ IsFrozen(c)
                   /\ ~header[c].postIdempotencyKey
                   /\ header'[c].postIdempotencyKey
                   /\ \A i \in DOMAIN more :
                        more[i].count = c /\ more[i].line \in lines[c]
                   /\ \A i, j \in DOMAIN more :
                        more[i].line = more[j].line => i = j
<1> USE DEF TypeOK
<1>1. ASSUME UNCHANGED ledger
      PROVE  \E more \in Seq(Event) :
               /\ ledger' = ledger \o more
               /\ \A i \in DOMAIN more : more[i].line = Null
  <2>1. << >> \in Seq(Event) /\ ledger \o << >> = ledger
    OBVIOUS
  <2>2. \A i \in DOMAIN << >> : FALSE
    OBVIOUS
  <2> WITNESS << >> \in Seq(Event)
  <2> QED BY <1>1, <2>1, <2>2
<1>2. CASE OtherLedgerWrite
  <2> PICK k \in Key, d \in OtherDelta :
        ledger' = Append(ledger, [count |-> Null, line |-> Null,
                                  key |-> k, deltaQty |-> d])
    BY <1>2 DEF OtherLedgerWrite
  <2> DEFINE e == [count |-> Null, line |-> Null, key |-> k, deltaQty |-> d]
  <2>1. e \in Event /\ e.line = Null
    BY CycleCountsAssumption DEF Event
  <2> HIDE DEF e
  <2>2. /\ <<e>> \in Seq(Event)
        /\ ledger \o <<e>> = Append(ledger, e)
        /\ \A i \in DOMAIN <<e>> : <<e>>[i] = e
    BY <2>1
  <2>3. ledger' = Append(ledger, e)
    BY DEF e
  <2>4. \A i \in DOMAIN <<e>> : <<e>>[i].line = Null
    BY <2>1, <2>2
  <2>5. ledger' = ledger \o <<e>>
    BY <2>2, <2>3
  <2> DEFINE one == <<e>>
  <2>6. /\ one \in Seq(Event)
        /\ ledger' = ledger \o one
        /\ \A i \in DOMAIN one : one[i].line = Null
    BY <2>2, <2>4, <2>5
  <2> HIDE DEF one
  <2> QED BY <2>6
<1>3. ASSUME NEW c \in Count, PostCycleCountHttp(c)
      PROVE  /\ IsFrozen(c)
             /\ ~header[c].postIdempotencyKey
             /\ header'[c].postIdempotencyKey
  <2>1. PostGuard(c)
    BY <1>3 DEF PostCycleCountHttp, PostMismatch, PostFails, PostSucceeds
  <2>2. header'[c].postIdempotencyKey
    <3>1. CASE PostMismatch(c)
      BY <3>1 DEF PostMismatch, Header
    <3>2. CASE PostFails(c)
      BY <3>2 DEF PostFails, Header
    <3>3. CASE PostSucceeds(c)
      BY <3>3 DEF PostSucceeds, Header
    <3> QED BY <1>3, <3>1, <3>2, <3>3 DEF PostCycleCountHttp
  <2> QED BY <2>1, <2>2 DEF PostGuard, ClaimPostLock, IsFrozen
<1>4. \/ \E c \in Count : PostCycleCountHttp(c)
      \/ OtherLedgerWrite
      \/ UNCHANGED ledger
  BY DEF Next, vars, CreateCycleCountDraftHttp, AddCycleCountLineHttp,
         UpdateCycleCountLineHttp, DeleteCycleCountLineHttp,
         ApproveCycleCountHttp, RejectCycleCountHttp, SubmitCycleCountHttp,
         SubmitBegin, SubmitReadLine, SubmitRefused, SubmitHalfPersisted,
         SubmitSucceeds
<1>5. CASE \E c \in Count : PostCycleCountHttp(c)
  <2> PICK c \in Count : PostCycleCountHttp(c)
    BY <1>5
  <2>1. /\ IsFrozen(c)
        /\ ~header[c].postIdempotencyKey
        /\ header'[c].postIdempotencyKey
    BY <1>3
  <2> HIDE DEF TypeOK
  <2> PICK adj \in Seq(Event) :
        /\ ledger' = ledger \o adj
        /\ \A i \in DOMAIN adj : adj[i].count = c /\ adj[i].line \in lines[c]
        /\ \A i, j \in DOMAIN adj : adj[i].line = adj[j].line => i = j
    BY PostAppends
  <2> WITNESS adj \in Seq(Event)
  <2> QED BY <2>1
<1> QED BY <1>1, <1>2, <1>4, <1>5

LEMMA LedgerGrows ==
  ASSUME TypeOK, LinesSound, [Next]_vars
  PROVE  /\ Len(ledger') >= Len(ledger)
         /\ \A n \in 0..Len(ledger) :
              SubSeq(ledger', 1, n) = SubSeq(ledger, 1, n)
<1> PICK more \in Seq(Event) : ledger' = ledger \o more
  BY LedgerStep
<1>1. ledger \in Seq(Event)
  BY DEF TypeOK
<1> QED BY <1>1, PrefixKept

\* The lock of a claimed count stays claimed, and its lines stay.
LEMMA ClaimKept ==
  ASSUME IInv, [Next]_vars, NEW c \in Count, header[c].postIdempotencyKey
  PROVE  header'[c].postIdempotencyKey /\ lines'[c] = lines[c]
<1>1. IsFrozen(c)
  BY DEF IInv, LockSound, IsFrozen
<1> QED BY <1>1, LockStep, FrozenStep DEF IInv

LEMMA WrittenUnderClaimStep ==
  ASSUME IInv, [Next]_vars
  PROVE  WrittenUnderClaim'
<1>1. ledger \in Seq(Event)
  BY DEF IInv, TypeOK
<1>2. PICK more \in Seq(Event) :
      /\ ledger' = ledger \o more
      /\ \/ \A i \in DOMAIN more : more[i].line = Null
         \/ \E c \in Count :
              /\ IsFrozen(c)
              /\ ~header[c].postIdempotencyKey
              /\ header'[c].postIdempotencyKey
              /\ \A i \in DOMAIN more :
                   more[i].count = c /\ more[i].line \in lines[c]
              /\ \A i, j \in DOMAIN more :
                   more[i].line = more[j].line => i = j
  BY LedgerStep DEF IInv
<1>3. \A c \in Count : header'[c].postIdempotencyKey =>
        header'[c].status \in {"APPROVED", "POSTED"}
  BY LockStep DEF IInv
<1>4. ASSUME NEW i \in DOMAIN ledger, ledger[i].line # Null
      PROVE  /\ ledger[i].count \in Count
             /\ header'[ledger[i].count].postIdempotencyKey
             /\ ledger[i].line \in lines'[ledger[i].count]
  <2>1. /\ ledger[i].count \in Count
        /\ header[ledger[i].count].postIdempotencyKey
        /\ ledger[i].line \in lines[ledger[i].count]
    BY <1>4 DEF IInv, WrittenUnderClaim
  <2> QED BY <2>1, ClaimKept
<1>5. ASSUME NEW i \in DOMAIN more, more[i].line # Null
      PROVE  /\ more[i].count \in Count
             /\ header'[more[i].count].postIdempotencyKey
             /\ more[i].line \in lines'[more[i].count]
  <2>1. PICK c \in Count :
          /\ IsFrozen(c)
          /\ header'[c].postIdempotencyKey
          /\ more[i].count = c /\ more[i].line \in lines[c]
    BY <1>2, <1>5
  <2>2. lines'[c] = lines[c]
    BY <2>1, FrozenStep DEF IInv
  <2> QED BY <2>1, <2>2
<1>6. \A i \in DOMAIN ledger' :
        \/ i \in DOMAIN ledger /\ ledger'[i] = ledger[i]
        \/ \E j \in DOMAIN more : ledger'[i] = more[j]
  <2> TAKE i \in DOMAIN ledger'
  <2>1. i \in 1..(Len(ledger) + Len(more))
    BY <1>1, <1>2
  <2>2. CASE i <= Len(ledger)
    BY <1>1, <1>2, <2>1, <2>2
  <2>3. CASE i > Len(ledger)
    <3>1. i - Len(ledger) \in DOMAIN more
      BY <1>1, <2>1, <2>3
    <3>2. ledger'[i] = more[i - Len(ledger)]
      BY <1>1, <1>2, <2>1, <2>3
    <3> QED BY <3>1, <3>2
  <2> QED BY <1>1, <2>1, <2>2, <2>3
<1> QED BY <1>3, <1>4, <1>5, <1>6 DEF WrittenUnderClaim

\* A post adjusts a line at most once, and no line adjusted before: the lock
\* of the count the line belongs to was not claimed.
LEMMA AdjustedAtMostOnceStep ==
  ASSUME IInv, [Next]_vars
  PROVE  AdjustedAtMostOnce'
<1>1. ledger \in Seq(Event)
  BY DEF IInv, TypeOK
<1>2. PICK more \in Seq(Event) :
      /\ ledger' = ledger \o more
      /\ \/ \A i \in DOMAIN more : more[i].line = Null
         \/ \E c \in Count :
              /\ IsFrozen(c)
              /\ ~header[c].postIdempotencyKey
              /\ header'[c].postIdempotencyKey
              /\ \A i \in DOMAIN more :
                   more[i].count = c /\ more[i].line \in lines[c]
              /\ \A i, j \in DOMAIN more :
                   more[i].line = more[j].line => i = j
  BY LedgerStep DEF IInv
<1>3. ASSUME NEW i \in DOMAIN ledger, NEW j \in DOMAIN more,
             ledger[i].line # Null, ledger[i].line = more[j].line
      PROVE  FALSE
  <2>1. PICK c \in Count :
          ~header[c].postIdempotencyKey /\ more[j].line \in lines[c]
    BY <1>2, <1>3
  <2>2. PICK d \in Count :
          header[d].postIdempotencyKey /\ ledger[i].line \in lines[d]
    BY <1>3 DEF IInv, WrittenUnderClaim
  <2>3. c = d
    BY <1>3, <2>1, <2>2 DEF IInv, LinesSound
  <2> QED BY <2>1, <2>2, <2>3
<1>4. ASSUME NEW i \in DOMAIN more, NEW j \in DOMAIN more,
             more[i].line # Null, more[i].line = more[j].line
      PROVE  i = j
  BY <1>2, <1>4
<1>5. ASSUME NEW i \in DOMAIN ledger, NEW j \in DOMAIN ledger,
             ledger[i].line # Null, ledger[i].line = ledger[j].line
      PROVE  i = j
  BY <1>5 DEF IInv, AdjustedAtMostOnce
<1>6. \A i \in DOMAIN ledger' :
        /\ i \in Nat
        /\ \/ i \in DOMAIN ledger /\ ledger'[i] = ledger[i]
           \/ /\ i - Len(ledger) \in DOMAIN more
              /\ ledger'[i] = more[i - Len(ledger)]
  <2> TAKE i \in DOMAIN ledger'
  <2>1. i \in 1..(Len(ledger) + Len(more))
    BY <1>1, <1>2
  <2>2. CASE i <= Len(ledger)
    BY <1>1, <1>2, <2>1, <2>2
  <2>3. CASE i > Len(ledger)
    BY <1>1, <1>2, <2>1, <2>3
  <2> QED BY <1>1, <2>1, <2>2, <2>3
<1>7. Len(ledger) \in Nat
  BY <1>1
<1> SUFFICES ASSUME NEW i \in DOMAIN ledger', NEW j \in DOMAIN ledger',
                    ledger'[i].line # Null, ledger'[i].line = ledger'[j].line
             PROVE  i = j
  BY DEF AdjustedAtMostOnce
<1>8. CASE i \in DOMAIN ledger /\ ledger'[i] = ledger[i]
  BY <1>3, <1>5, <1>6, <1>8
<1>9. CASE /\ i - Len(ledger) \in DOMAIN more
           /\ ledger'[i] = more[i - Len(ledger)]
  <2>1. CASE j \in DOMAIN ledger /\ ledger'[j] = ledger[j]
    BY <1>3, <1>9, <2>1
  <2>2. CASE /\ j - Len(ledger) \in DOMAIN more
             /\ ledger'[j] = more[j - Len(ledger)]
    <3>1. i - Len(ledger) = j - Len(ledger)
      BY <1>4, <1>9, <2>2
    <3> QED BY <1>6, <1>7, <3>1
  <2> QED BY <1>6, <2>1, <2>2
<1> QED BY <1>6, <1>8, <1>9

-----------------------------------------------------------------------------
(* What a waiting submit holds, and what it makes of it                     *)

\* What a submit holds stays sound whatever else happens while it waits.
LEMMA HeldKept ==
  ASSUME IInv, [Next]_vars, NEW r \in Request, submit[r].running,
         submit'[r] = submit[r]
  PROVE  HeldSound(r)'
<1> DEFINE s == submit[r]
<1>1. /\ s.count \in Count /\ s.cursor \in 0..Len(ledger)
      /\ HeldSound(r)
  <2>1. HeldSound(r) /\ s \in Submit /\ ledger \in Seq(Event)
    BY DEF IInv, SubmitSound, TypeOK
  <2> QED BY <2>1 DEF HeldSound, Submit
<1>2. /\ s.cursor <= Len(ledger')
      /\ SubSeq(ledger', 1, s.cursor) = SubSeq(ledger, 1, s.cursor)
  <2>1. ledger \in Seq(Event) /\ ledger' \in Seq(Event)
    BY NextTypeOK DEF IInv, TypeOK
  <2> QED BY <1>1, <2>1, LedgerGrows DEF IInv
<1>3. ASSUME NEW t \in s.todo \cup s.snaps
      PROVE  /\ t.id \in issued'
             /\ t.id \in lines'[s.count] => line'[t.id].key = t.key
  BY <1>1, <1>3, LineStep DEF IInv, HeldSound
<1> QED BY <1>1, <1>2, <1>3 DEF HeldSound

LEMMA SubmitSoundStep ==
  ASSUME IInv, [Next]_vars
  PROVE  SubmitSound'
<1> SUFFICES ASSUME NEW q \in Request, submit'[q].running
             PROVE  HeldSound(q)'
  BY DEF SubmitSound
<1> USE DEF TypeOK, IInv
<1>1. ASSUME NEW r \in Request, NEW c \in Count, SubmitBegin(r, c)
      PROVE  HeldSound(q)'
  <2>1. CASE q = r
    <3> DEFINE copies == {[id |-> l, key |-> line[l].key,
                           countedQty |-> line[l].countedQty] : l \in lines[c]}
    <3>1. submit'[r] = [running |-> TRUE, count |-> c, cursor |-> Len(ledger),
                        todo |-> copies, snaps |-> {}]
      BY <1>1 DEF SubmitBegin, GetCursorAsOfNow
    <3>2. UNCHANGED <<lines, line, issued, ledger>>
      BY <1>1 DEF SubmitBegin
    <3>3. Len(ledger) <= Len(ledger)
      OBVIOUS
    <3> QED BY <2>1, <3>1, <3>2, <3>3 DEF HeldSound, LinesSound
  <2>2. CASE q # r
    BY <1>1, <2>2, HeldKept DEF SubmitBegin
  <2> QED BY <2>1, <2>2
<1>2. ASSUME NEW r \in Request, SubmitReadLine(r)
      PROVE  HeldSound(q)'
  <2>1. CASE q = r
    <3> PICK t \in submit[r].todo :
          LET qty == GetQtyAsOf(t.key, submit[r].cursor) IN
          submit' = [submit EXCEPT
             ![r].todo = @ \ {t},
             ![r].snaps = @ \cup {[id |-> t.id, key |-> t.key,
                                   systemQtyAtFreeze |-> qty,
                                   deltaPlanned |-> t.countedQty - qty]}]
      BY <1>2 DEF SubmitReadLine
    <3> DEFINE qty == GetQtyAsOf(t.key, submit[r].cursor)
               snap == [id |-> t.id, key |-> t.key,
                        systemQtyAtFreeze |-> qty,
                        deltaPlanned |-> t.countedQty - qty]
    <3>1. /\ snap.id = t.id /\ snap.key = t.key
          /\ snap.systemQtyAtFreeze =
               QtyOf(t.key, SubSeq(ledger, 1, submit[r].cursor))
      BY DEF GetQtyAsOf
    <3>2. submit[r] \in Submit
      OBVIOUS
    <3>3. /\ submit'[r].count = submit[r].count
          /\ submit'[r].cursor = submit[r].cursor
          /\ submit'[r].todo = submit[r].todo \ {t}
          /\ submit'[r].snaps = submit[r].snaps \cup {snap}
      BY <3>2 DEF Submit
    <3> HIDE DEF snap
    <3>4. UNCHANGED <<lines, line, issued, ledger>>
      BY <1>2 DEF SubmitReadLine
    <3>5. HeldSound(r)
      BY <1>2 DEF SubmitReadLine, SubmitSound
    <3> QED BY <2>1, <3>1, <3>3, <3>4, <3>5 DEF HeldSound
  <2>2. CASE q # r
    BY <1>2, <2>2, HeldKept DEF SubmitReadLine
  <2> QED BY <2>1, <2>2
<1>3. ASSUME NEW r \in Request,
             SubmitRefused(r) \/ SubmitHalfPersisted(r) \/ SubmitSucceeds(r)
      PROVE  HeldSound(q)'
  <2>1. ~Idle.running
    BY DEF Idle
  <2>2. q # r
    BY <1>3, <2>1 DEF SubmitRefused, SubmitHalfPersisted, SubmitSucceeds
  <2>3. submit'[q] = submit[q]
    BY <1>3, <2>2 DEF SubmitRefused, SubmitHalfPersisted, SubmitSucceeds
  <2> QED BY <2>3, HeldKept
<1>4. CASE UNCHANGED submit
  BY <1>4, HeldKept
<1>5. \/ \E r \in Request : SubmitCycleCountHttp(r)
      \/ UNCHANGED submit
  BY DEF Next, vars, CreateCycleCountDraftHttp, AddCycleCountLineHttp,
         UpdateCycleCountLineHttp, DeleteCycleCountLineHttp,
         ApproveCycleCountHttp, RejectCycleCountHttp, PostCycleCountHttp,
         PostMismatch, PostFails, PostSucceeds, OtherLedgerWrite
<1> QED
  BY <1>1, <1>2, <1>3, <1>4, <1>5 DEF SubmitCycleCountHttp

\* A count is frozen by a submit that succeeds, and by nothing else.
LEMMA OnlySubmitFreezes ==
  ASSUME TypeOK, LinesSound, SubmitSound, [Next]_vars,
         NEW c \in Count, ~IsFrozen(c), IsFrozen(c)'
  PROVE  \E r \in Request : SubmitSucceeds(r) /\ submit[r].count = c
<1> USE DEF TypeOK, IsFrozen
<1>1. ASSUME NEW d \in Count, CreateCycleCountDraftHttp(d)
      PROVE  FALSE
  BY <1>1 DEF CreateCycleCountDraftHttp, CreateDraft, Header
<1>2. ASSUME NEW d \in Count,
             ApproveCycleCountHttp(d) \/ RejectCycleCountHttp(d)
      PROVE  FALSE
  BY <1>2 DEF ApproveCycleCountHttp, RejectCycleCountHttp, TransitionStatus
<1>3. ASSUME NEW d \in Count, PostCycleCountHttp(d)
      PROVE  FALSE
  <2>1. header[d].status = "APPROVED"
    BY <1>3 DEF PostCycleCountHttp, PostMismatch, PostFails, PostSucceeds,
                PostGuard
  <2>2. c = d \/ header'[c] = header[c]
    BY <1>3 DEF PostCycleCountHttp, PostMismatch, PostFails, PostSucceeds
  <2> QED BY <2>1, <2>2
<1>4. ASSUME NEW r \in Request, SubmitHalfPersisted(r)
      PROVE  FALSE
  <2>1. submit[r].count \in Count
    BY <1>4, SubmitWritesDraft
  <2> QED BY <1>4, <2>1 DEF SubmitHalfPersisted, Header
<1>5. ASSUME NEW r \in Request, SubmitSucceeds(r)
      PROVE  submit[r].count = c
  BY <1>5, SubmitWritesDraft
<1>6. ASSUME UNCHANGED header
      PROVE  FALSE
  BY <1>6
<1>7. \/ UNCHANGED header
      \/ \E d \in Count : \/ CreateCycleCountDraftHttp(d)
                          \/ ApproveCycleCountHttp(d)
                          \/ RejectCycleCountHttp(d)
                          \/ PostCycleCountHttp(d)
      \/ \E r \in Request : SubmitHalfPersisted(r) \/ SubmitSucceeds(r)
  BY DEF Next, vars, AddCycleCountLineHttp, UpdateCycleCountLineHttp,
         DeleteCycleCountLineHttp, SubmitCycleCountHttp, SubmitBegin,
         SubmitReadLine, SubmitRefused, OtherLedgerWrite
<1> QED BY <1>1, <1>2, <1>3, <1>4, <1>5, <1>6, <1>7

\* Snapshots that are as many as the lines, one for an id, and none for an
\* unknown line: there is one for every line.
LEMMA SnapshotForEveryLine ==
  ASSUME TypeOK, SubmitSound, NEW r \in Request, submit[r].running,
         SnapshotRefusal(r) = "NONE", Unknown(r) = {}
  PROVE  \A l \in lines[submit[r].count] :
           \E s \in submit[r].snaps : s.id = l
<1> DEFINE S == submit[r].snaps
           L == lines[submit[r].count]
           id == [s \in S |-> s.id]
<1>1. HeldSound(r) /\ submit[r].count \in Count
  BY DEF SubmitSound, HeldSound
<1>2. IsFiniteSet(L)
  <2>1. L \in SUBSET LineId
    BY <1>1 DEF TypeOK
  <2> QED BY <2>1, CycleCountsAssumption, FS_Subset
<1>3. \A s \in S : s.id \in L
  BY DEF Unknown
<1>4. \A s, t \in S : s.id = t.id => s = t
  BY <1>1 DEF HeldSound
<1>5. id \in Injection(S, L)
  BY <1>3, <1>4 DEF Injection, IsInjective
<1>6. Cardinality(S) = Cardinality(L)
  BY DEF SnapshotRefusal
<1>7. id \in Surjection(S, L)
  <2> HIDE DEF id, S, L
  <2> QED BY <1>2, <1>5, <1>6, FS_Injection
<1> QED BY <1>7 DEF Surjection

LEMMA FreezeReproducible ==
  ASSUME IInv, NEW r \in Request, SubmitSucceeds(r)
  PROVE  LET c == submit[r].count
             cursor == header'[c].freezeLedgerCursor IN
         /\ cursor \in 1..Len(ledger)
         /\ \A l \in lines[c] :
              /\ line'[l].systemQtyDerivationCursor = cursor
              /\ line'[l].systemQtyAtFreeze =
                   QtyOf(line'[l].key, SubSeq(ledger, 1, cursor))
              /\ line'[l].deltaPlanned \in Int
<1> DEFINE c == submit[r].count
           cursor == submit[r].cursor
<1>1. /\ submit[r].running /\ SnapshotRefusal(r) = "NONE"
      /\ Unknown(r) = {}
      /\ line' = SnapshotLines(Applied(r), cursor)
  BY DEF SubmitSucceeds, SnapshotTaken, PersistFreezeSnapshot
<1>2. HeldSound(r) /\ c \in Count /\ cursor \in Nat /\ ledger \in Seq(Event)
  BY <1>1 DEF IInv, SubmitSound, HeldSound, TypeOK, Submit
<1>3. header'[c].freezeLedgerCursor = cursor
  <2>1. header \in [Count -> Header]
    BY DEF IInv, TypeOK
  <2> QED BY <1>2, <2>1 DEF SubmitSucceeds, Header
<1>4. cursor \in 1..Len(ledger)
  <2>1. cursor # 0
    BY <1>1 DEF SnapshotRefusal
  <2>2. cursor <= Len(ledger)
    BY <1>2 DEF HeldSound
  <2> QED BY <1>2, <2>1, <2>2
<1>5. ASSUME NEW l \in lines[c]
      PROVE  /\ line'[l].systemQtyDerivationCursor = cursor
             /\ line'[l].systemQtyAtFreeze =
                  QtyOf(line'[l].key, SubSeq(ledger, 1, cursor))
             /\ line'[l].deltaPlanned \in Int
  <2>1. l \in LineId /\ line[l] \in Line
    BY <1>2 DEF IInv, TypeOK, LinesSound
  <2>2. Applied(r) = submit[r].snaps
    BY <1>1 DEF Applied
  <2> DEFINE s == CHOOSE s \in Applied(r) : s.id = l
  <2>3. s \in Applied(r) /\ s.id = l
    BY <1>1, <2>2, SnapshotForEveryLine DEF IInv
  <2>4. line'[l] = [line[l] EXCEPT !.systemQtyAtFreeze = s.systemQtyAtFreeze,
                                   !.systemQtyDerivationCursor = cursor,
                                   !.deltaPlanned = s.deltaPlanned]
    BY <1>1, <2>1, <2>3 DEF SnapshotLines
  <2> HIDE DEF s
  <2>5. /\ line'[l].systemQtyAtFreeze = s.systemQtyAtFreeze
        /\ line'[l].systemQtyDerivationCursor = cursor
        /\ line'[l].key = line[l].key
        /\ line'[l].deltaPlanned = s.deltaPlanned
    BY <2>1, <2>4 DEF Line
  <2>6. line[l].key = s.key
    BY <1>2, <2>2, <2>3 DEF HeldSound
  <2>7. s.systemQtyAtFreeze = QtyOf(s.key, SubSeq(ledger, 1, cursor))
    BY <1>2, <2>2, <2>3 DEF HeldSound
  <2>8. s.deltaPlanned \in Int
    <3>1. s \in LineSnapshot
      BY <2>2, <2>3 DEF IInv, TypeOK, Submit
    <3> QED BY <3>1 DEF LineSnapshot
  <2> QED BY <2>5, <2>6, <2>7, <2>8
<1> QED BY <1>3, <1>4, <1>5

LEMMA SnapshotReproducibleStep ==
  ASSUME IInv, [Next]_vars
  PROVE  SnapshotReproducible'
<1> SUFFICES ASSUME NEW c \in Count, IsFrozen(c)'
             PROVE  LET cursor == header'[c].freezeLedgerCursor IN
                    /\ cursor \in 1..Len(ledger')
                    /\ \A l \in lines'[c] :
                         /\ line'[l].systemQtyDerivationCursor = cursor
                         /\ line'[l].systemQtyAtFreeze =
                              QtyOf(line'[l].key, SubSeq(ledger', 1, cursor))
  BY DEF SnapshotReproducible
<1> DEFINE cursor == header'[c].freezeLedgerCursor
<1>1. /\ cursor \in 1..Len(ledger)
      /\ \A l \in lines'[c] :
           /\ line'[l].systemQtyDerivationCursor = cursor
           /\ line'[l].systemQtyAtFreeze =
                QtyOf(line'[l].key, SubSeq(ledger, 1, cursor))
  <2>1. CASE IsFrozen(c)
    <3>1. /\ cursor = header[c].freezeLedgerCursor
          /\ lines'[c] = lines[c]
          /\ \A l \in lines[c] : line'[l] = line[l]
      BY <2>1, FrozenStep DEF IInv
    <3> QED BY <2>1, <3>1 DEF IInv, SnapshotReproducible
  <2>2. CASE ~IsFrozen(c)
    <3>1. PICK r \in Request : SubmitSucceeds(r) /\ submit[r].count = c
      BY <2>2, OnlySubmitFreezes DEF IInv
    <3>2. lines' = lines
      BY <3>1 DEF SubmitSucceeds
    <3> QED BY <3>1, <3>2, FreezeReproducible
  <2> QED BY <2>1, <2>2
<1>2. ledger \in Seq(Event) /\ ledger' \in Seq(Event)
  BY NextTypeOK DEF IInv, TypeOK
<1>3. SubSeq(ledger', 1, cursor) = SubSeq(ledger, 1, cursor)
  BY <1>1, <1>2, LedgerGrows DEF IInv
<1>4. cursor \in 1..Len(ledger')
  BY <1>1, <1>2, LedgerGrows DEF IInv
<1> QED BY <1>1, <1>3, <1>4

-----------------------------------------------------------------------------
(* What a count plans and carries out                                       *)

\* The places of a longer list.
LEMMA Appended ==
  ASSUME NEW S, NEW s \in Seq(S), NEW t \in Seq(S)
  PROVE  /\ \A i \in DOMAIN s : i \in DOMAIN (s \o t) /\ (s \o t)[i] = s[i]
         /\ \A j \in DOMAIN t : /\ Len(s) + j \in DOMAIN (s \o t)
                                /\ (s \o t)[Len(s) + j] = t[j]
         /\ \A i \in DOMAIN (s \o t) :
              i \in DOMAIN s \/ \E j \in DOMAIN t : i = Len(s) + j
<1>1. \A i \in DOMAIN s : i \in DOMAIN (s \o t) /\ (s \o t)[i] = s[i]
  OBVIOUS
<1>2. \A j \in DOMAIN t : Len(s) + j \in DOMAIN (s \o t) /\ (s \o t)[Len(s) + j] = t[j]
  OBVIOUS
<1>3. ASSUME NEW i \in DOMAIN (s \o t), i \notin DOMAIN s
      PROVE  \E j \in DOMAIN t : i = Len(s) + j
  <2>1. i \in 1..(Len(s) + Len(t)) /\ i > Len(s)
    BY <1>3
  <2>2. i - Len(s) \in DOMAIN t /\ i = Len(s) + (i - Len(s))
    BY <2>1
  <2> QED BY <2>2
<1> QED BY <1>1, <1>2, <1>3

\* A count that is where it was, or was only created.
Rests(c) ==
  \/ /\ header'[c].status = header[c].status
     /\ header'[c].postIdempotencyKey = header[c].postIdempotencyKey
  \/ header[c].status = "NONE" /\ header'[c].status = "DRAFT"

\* Only a successful submit, a review and a post move a count, and only a post
\* and other writers append to the ledger.
LEMMA StepCases ==
  ASSUME IInv, [Next]_vars
  PROVE  \/ /\ \A c \in Count : Rests(c)
            /\ OtherLedgerWrite \/ UNCHANGED ledger
         \/ \E r \in Request : SubmitSucceeds(r)
         \/ \E c \in Count : \/ ApproveCycleCountHttp(c)
                             \/ RejectCycleCountHttp(c)
                             \/ PostCycleCountHttp(c)
<1> DEFINE Quiet == /\ \A c \in Count : Rests(c)
                    /\ OtherLedgerWrite \/ UNCHANGED ledger
<1>1. CASE UNCHANGED header /\ (OtherLedgerWrite \/ UNCHANGED ledger)
  BY <1>1 DEF Rests
<1>2. ASSUME NEW d \in Count, CreateCycleCountDraftHttp(d) PROVE Quiet
  <2>1. header[d] \in Header
    BY DEF IInv, TypeOK
  <2>2. header[d].status = "NONE" /\ header'[d].status = "DRAFT"
        /\ \A c \in Count : c # d => header'[c] = header[c]
    BY <1>2, <2>1 DEF CreateCycleCountDraftHttp, CreateDraft, IInv, TypeOK, Header
  <2>3. UNCHANGED ledger
    BY <1>2 DEF CreateCycleCountDraftHttp
  <2> QED BY <2>2, <2>3 DEF Rests
<1>3. ASSUME NEW r \in Request, SubmitHalfPersisted(r) PROVE Quiet
  <2>1. /\ submit[r].count \in Count
        /\ \A c \in Count \ {submit[r].count} : header'[c] = header[c]
    BY <1>3, SubmitWritesDraft DEF IInv
  <2>2. /\ header'[submit[r].count].status = header[submit[r].count].status
        /\ header'[submit[r].count].postIdempotencyKey
             = header[submit[r].count].postIdempotencyKey
    BY <1>3, <2>1 DEF SubmitHalfPersisted, IInv, TypeOK, Header
  <2>3. UNCHANGED ledger
    BY <1>3 DEF SubmitHalfPersisted
  <2> QED BY <2>1, <2>2, <2>3 DEF Rests
<1>4. \/ UNCHANGED header /\ (OtherLedgerWrite \/ UNCHANGED ledger)
      \/ \E d \in Count : CreateCycleCountDraftHttp(d)
      \/ \E r \in Request : SubmitHalfPersisted(r) \/ SubmitSucceeds(r)
      \/ \E c \in Count : \/ ApproveCycleCountHttp(c)
                          \/ RejectCycleCountHttp(c)
                          \/ PostCycleCountHttp(c)
  BY DEF Next, vars, AddCycleCountLineHttp, UpdateCycleCountLineHttp,
         DeleteCycleCountLineHttp, SubmitCycleCountHttp, SubmitBegin,
         SubmitReadLine, SubmitRefused, OtherLedgerWrite
<1> QED BY <1>1, <1>2, <1>3, <1>4

\* A submit that succeeds moves its count to SUBMITTED.
LEMMA SubmitMoves ==
  ASSUME IInv, NEW r \in Request, SubmitSucceeds(r)
  PROVE  LET d == submit[r].count IN
         /\ d \in Count /\ header[d].status = "DRAFT"
         /\ header'[d].status = "SUBMITTED"
         /\ \A c \in Count : c # d => header'[c] = header[c]
         /\ UNCHANGED ledger
<1>1. /\ submit[r].count \in Count /\ header[submit[r].count].status = "DRAFT"
      /\ \A c \in Count \ {submit[r].count} : header'[c] = header[c]
  BY SubmitWritesDraft DEF IInv
<1> QED BY <1>1 DEF SubmitSucceeds, IInv, TypeOK, Header

\* An approval or a rejection moves its count only.
LEMMA ReviewMoves ==
  ASSUME IInv, NEW d \in Count, ApproveCycleCountHttp(d) \/ RejectCycleCountHttp(d)
  PROVE  /\ header[d].status = "SUBMITTED" /\ ~header[d].postIdempotencyKey
         /\ ~header'[d].postIdempotencyKey
         /\ header'[d].status = IF ApproveCycleCountHttp(d) THEN "APPROVED" ELSE "REJECTED"
         /\ \A c \in Count : c # d => header'[c] = header[c]
         /\ UNCHANGED ledger
<1>1. header \in [Count -> Header] /\ header[d].status = "SUBMITTED"
      /\ ~header[d].postIdempotencyKey
  BY DEF ApproveCycleCountHttp, RejectCycleCountHttp, TransitionStatus, IInv, TypeOK,
         LockSound
<1>2. CASE ApproveCycleCountHttp(d)
  BY <1>1, <1>2 DEF ApproveCycleCountHttp, TransitionStatus, Header
<1>3. CASE ~ApproveCycleCountHttp(d)
  BY <1>1, <1>3 DEF RejectCycleCountHttp, TransitionStatus, Header
<1> QED BY <1>2, <1>3

\* A post claims the lock, and moves its count to POSTED or leaves it.
LEMMA PostMoves ==
  ASSUME IInv, NEW d \in Count, PostCycleCountHttp(d)
  PROVE  /\ header[d].status = "APPROVED" /\ ~header[d].postIdempotencyKey
         /\ header'[d].postIdempotencyKey
         /\ header'[d].status \in {"APPROVED", "POSTED"}
         /\ \A c \in Count : c # d => header'[c] = header[c]
         /\ UNCHANGED <<lines, line>>
<1>1. header \in [Count -> Header]
  BY DEF IInv, TypeOK
<1>2. CASE PostMismatch(d)
  BY <1>1, <1>2 DEF PostMismatch, PostGuard, ClaimPostLock, Header
<1>3. CASE PostFails(d)
  BY <1>1, <1>3 DEF PostFails, PostGuard, ClaimPostLock, Header
<1>4. CASE PostSucceeds(d)
  BY <1>1, <1>4 DEF PostSucceeds, PostGuard, ClaimPostLock, Header
<1> QED BY <1>2, <1>3, <1>4 DEF PostCycleCountHttp

\* A line gets its key when it is added, and only if no other line has it.
LEMMA DistinctKeysStep ==
  ASSUME IInv, DistinctKeys, [Next]_vars
  PROVE  DistinctKeys'
<1> SUFFICES ASSUME NEW c \in Count, NEW l \in lines'[c], NEW m \in lines'[c],
                    line'[l].key = line'[m].key
             PROVE  l = m
  BY DEF DistinctKeys
<1> USE DEF IInv, TypeOK
<1>1. ASSUME NEW d \in Count, AddCycleCountLineHttp(d) PROVE l = m
  <2> PICK n \in LineId, k \in Key, q \in Qty : AddLine(d, n, k, q)
    BY <1>1 DEF AddCycleCountLineHttp
  <2>1. /\ n \notin issued
        /\ \A x \in lines[d] : line[x].key # k
        /\ lines' = [lines EXCEPT ![d] = @ \cup {n}]
        /\ line'[n].key = k
        /\ \A x \in LineId : x # n => line'[x] = line[x]
    BY DEF AddLine
  <2>2. \A x \in lines'[c] :
          \/ x \in lines[c] /\ x # n /\ x \in LineId /\ line'[x] = line[x]
          \/ x = n /\ c = d
    BY <2>1 DEF LinesSound
  <2> QED BY <2>1, <2>2 DEF DistinctKeys
<1>2. CASE issued' = issued
  <2>1. \A x \in lines'[c] : x \in lines[c] /\ line'[x].key = line[x].key
    BY <1>2, LineStep
  <2> QED BY <2>1 DEF DistinctKeys
<1>3. issued' = issued \/ \E d \in Count : AddCycleCountLineHttp(d)
  BY DEF Next, vars, CreateCycleCountDraftHttp, UpdateCycleCountLineHttp,
         DeleteCycleCountLineHttp, ApproveCycleCountHttp, RejectCycleCountHttp,
         PostCycleCountHttp, PostMismatch, PostFails, PostSucceeds,
         SubmitCycleCountHttp, SubmitBegin, SubmitReadLine, SubmitRefused,
         SubmitHalfPersisted, SubmitSucceeds, OtherLedgerWrite
<1> QED BY <1>1, <1>2, <1>3

\* What a frozen count is to adjust stays.
LEMMA ToAdjustKept ==
  ASSUME IInv, [Next]_vars, NEW c \in Count, IsFrozen(c)
  PROVE  ToAdjust(c)' = ToAdjust(c) /\ \A l \in ToAdjust(c) : line'[l] = line[l]
BY FrozenStep DEF IInv, ToAdjust

\* The events there are keep telling their lines' plan, and so do new ones.
LEMMA EventsTellPlanStep ==
  ASSUME IInv, EventsTellPlan, [Next]_vars
  PROVE  EventsTellPlan'
<1> DEFINE Tells(e) ==
             IF e.line = Null THEN e.count = Null
             ELSE /\ e.line \in lines[e.count] /\ line[e.line].deltaPlanned # 0
                  /\ e.key = line[e.line].key
                  /\ e.deltaQty = line[e.line].deltaPlanned
           TellsNow(e) ==
             IF e.line = Null THEN e.count = Null
             ELSE /\ e.line \in lines'[e.count] /\ line'[e.line].deltaPlanned # 0
                  /\ e.key = line'[e.line].key
                  /\ e.deltaQty = line'[e.line].deltaPlanned
<1>1. ledger \in Seq(Event) /\ ledger' \in Seq(Event)
  BY NextTypeOK DEF IInv, TypeOK
<1>2. ASSUME NEW i \in DOMAIN ledger PROVE TellsNow(ledger[i])
  <2>1. Tells(ledger[i])
    BY DEF EventsTellPlan, ToAdjust
  <2>2. CASE ledger[i].line = Null
    BY <2>1, <2>2
  <2>3. CASE ledger[i].line # Null
    <3> PICK c \in Count : c = ledger[i].count
      BY <2>3 DEF IInv, WrittenUnderClaim
    <3>1. IsFrozen(c)
      BY <2>3 DEF IInv, WrittenUnderClaim, IsFrozen
    <3>2. lines'[c] = lines[c] /\ \A l \in lines[c] : line'[l] = line[l]
      BY <3>1, FrozenStep DEF IInv
    <3> QED BY <2>1, <2>3, <3>2
  <2> QED BY <2>2, <2>3
<1> SUFFICES \A i \in DOMAIN ledger' : TellsNow(ledger'[i])
  BY DEF EventsTellPlan, ToAdjust
<1>3. CASE UNCHANGED ledger
  BY <1>2, <1>3
<1>4. CASE OtherLedgerWrite
  <2> PICK k \in Key, d \in OtherDelta :
        ledger' = Append(ledger, [count |-> Null, line |-> Null,
                                  key |-> k, deltaQty |-> d])
    BY <1>4 DEF OtherLedgerWrite
  <2>1. \A i \in DOMAIN ledger' :
          \/ i \in DOMAIN ledger /\ ledger'[i] = ledger[i]
          \/ ledger'[i] = [count |-> Null, line |-> Null, key |-> k, deltaQty |-> d]
    BY <1>1
  <2> QED BY <1>2, <2>1
<1>5. ASSUME NEW c \in Count, PostCycleCountHttp(c)
      PROVE  \A i \in DOMAIN ledger' : TellsNow(ledger'[i])
  <2>1. PICK adj \in Seq(Event) :
          /\ ledger' = ledger \o adj
          /\ \A i \in DOMAIN adj : /\ adj[i].line \in ToAdjust(c)
                                   /\ adj[i] = BuildAdjustmentEvent(c, adj[i].line)
    BY <1>5, PostAppends DEF IInv
  <2>2. UNCHANGED <<lines, line>>
    BY <1>5, PostMoves
  <2>3. ASSUME NEW j \in DOMAIN adj PROVE TellsNow(adj[j])
    <3> DEFINE l == adj[j].line
    <3>1. l \in lines[c] /\ line[l].deltaPlanned # 0 /\ adj[j] = BuildAdjustmentEvent(c, l)
      BY <2>1 DEF ToAdjust
    <3>2. adj[j].count = c /\ adj[j].key = line[l].key /\ adj[j].deltaQty = line[l].deltaPlanned
      BY <3>1 DEF BuildAdjustmentEvent
    <3>3. l # Null
      <4>1. l \in LineId
        BY <3>1 DEF IInv, TypeOK
      <4> QED BY <4>1, CycleCountsAssumption
    <3> QED BY <2>2, <3>1, <3>2, <3>3
  <2>4. \A i \in DOMAIN ledger' :
          \/ i \in DOMAIN ledger /\ ledger'[i] = ledger[i]
          \/ \E j \in DOMAIN adj : ledger'[i] = adj[j]
    BY <1>1, <2>1, Appended
  <2>5. ASSUME NEW i \in DOMAIN ledger' PROVE TellsNow(ledger'[i])
    <3>1. CASE i \in DOMAIN ledger /\ ledger'[i] = ledger[i]
      BY <1>2, <3>1
    <3>2. ASSUME NEW j \in DOMAIN adj, ledger'[i] = adj[j] PROVE TellsNow(ledger'[i])
      BY <2>3, <3>2
    <3> QED BY <2>4, <3>1, <3>2
  <2> QED BY <2>5
<1> QED BY <1>3, <1>4, <1>5, StepCases, SubmitMoves, ReviewMoves

\* A count is frozen with a delta for every line.
LEMMA PlanCompleteStep ==
  ASSUME IInv, PlanComplete, [Next]_vars
  PROVE  PlanComplete'
<1> SUFFICES ASSUME NEW c \in Count, IsFrozen(c)', NEW l \in lines'[c]
             PROVE  line'[l].deltaPlanned \in Int
  BY DEF PlanComplete
<1>1. CASE IsFrozen(c)
  BY <1>1, FrozenStep DEF IInv, PlanComplete
<1>2. CASE ~IsFrozen(c)
  <2>1. PICK r \in Request : SubmitSucceeds(r) /\ submit[r].count = c
    BY <1>2, OnlySubmitFreezes DEF IInv
  <2>2. lines' = lines
    BY <2>1 DEF SubmitSucceeds
  <2> QED BY <2>1, <2>2, FreezeReproducible
<1> QED BY <1>1, <1>2

\* Only a post that carried the plan out makes a count POSTED.
LEMMA PlanCarriedOutStep ==
  ASSUME IInv, PlanCarriedOut, [Next]_vars
  PROVE  PlanCarriedOut'
<1> SUFFICES ASSUME NEW c \in Count, header'[c].status = "POSTED"
             PROVE  /\ \A l \in lines'[c] : SnapshotMatches(l)'
                    /\ \A l \in ToAdjust(c)' : \E i \in DOMAIN ledger' : ledger'[i].line = l
  BY DEF PlanCarriedOut
<1>1. ledger \in Seq(Event)
  BY DEF IInv, TypeOK
<1>2. \A i \in DOMAIN ledger : i \in DOMAIN ledger' /\ ledger'[i] = ledger[i]
  <2>1. PICK more \in Seq(Event) : ledger' = ledger \o more
    BY LedgerStep DEF IInv
  <2> QED BY <1>1, <2>1, Appended
<1>3. CASE header[c].status = "POSTED"
  <2>1. IsFrozen(c)
    BY <1>3 DEF IsFrozen
  <2>2. \A l \in lines'[c] : l \in lines[c] /\ line'[l] = line[l]
    BY <2>1, FrozenStep DEF IInv
  <2>3. ASSUME NEW l \in lines'[c] PROVE SnapshotMatches(l)'
    BY <1>3, <2>2, <2>3 DEF PlanCarriedOut, SnapshotMatches
  <2>4. \A l \in ToAdjust(c)' : \E i \in DOMAIN ledger' : ledger'[i].line = l
    BY <1>2, <1>3, <2>1, ToAdjustKept DEF PlanCarriedOut
  <2> QED BY <2>3, <2>4
<1>4. CASE header[c].status # "POSTED"
  <2>1. PostCycleCountHttp(c)
    BY <1>4, StepCases, SubmitMoves, ReviewMoves, PostMoves DEF Rests
  <2>2. PICK adj \in Seq(Event) :
          /\ ledger' = ledger \o adj
          /\ \A l \in lines[c] : SnapshotMatches(l)
          /\ \A l \in ToAdjust(c) : \E i \in DOMAIN adj : adj[i].line = l
    BY <2>1, PostAppends DEF IInv
  <2>3. UNCHANGED <<lines, line>>
    BY <2>1, PostMoves
  <2>4. \A i \in DOMAIN adj :
          /\ Len(ledger) + i \in DOMAIN ledger'
          /\ ledger'[Len(ledger) + i] = adj[i]
    BY <1>1, <2>2, Appended
  <2>5. \A l \in lines'[c] : SnapshotMatches(l)'
    BY <2>2, <2>3 DEF SnapshotMatches
  <2>6. \A l \in ToAdjust(c)' : \E i \in DOMAIN ledger' : ledger'[i].line = l
    <3>1. ToAdjust(c)' = ToAdjust(c)
      BY <2>3 DEF ToAdjust
    <3> QED BY <2>2, <2>4, <3>1
  <2> QED BY <2>5, <2>6
<1> QED BY <1>3, <1>4

-----------------------------------------------------------------------------
(* What a posted count adds up to                                           *)

\* The events of a count that has a claimed lock, for one of its lines.
LEMMA EventOfLine ==
  ASSUME PlanIInv, NEW c \in Count, NEW l \in lines[c],
         NEW i \in DOMAIN ledger, ledger[i].count = c, ledger[i].key = line[l].key
  PROVE  ledger[i].line = l /\ ledger[i].deltaQty = line[l].deltaPlanned
<1>1. ledger[i].line # Null
  BY CycleCountsAssumption DEF PlanIInv, EventsTellPlan
<1>2. /\ ledger[i].line \in lines[c] /\ ledger[i].key = line[ledger[i].line].key
      /\ ledger[i].deltaQty = line[ledger[i].line].deltaPlanned
  BY <1>1 DEF PlanIInv, EventsTellPlan, ToAdjust
<1> QED BY <1>2 DEF PlanIInv, DistinctKeys

\* A posted count's events sum up, key by key, to what was planned.
LEMMA PostedSum ==
  ASSUME PlanIInv, NEW c \in Count, header[c].status = "POSTED", NEW l \in lines[c]
  PROVE  QtyOf(line[l].key, EventsOf(c)) = line[l].deltaPlanned
<1> DEFINE own == EventsOf(c)
           places == {i \in DOMAIN own : own[i].key = line[l].key}
           deltas == [i \in places |-> own[i].deltaQty]
<1>1. /\ DOMAIN own = {i \in DOMAIN ledger : ledger[i].count = c}
      /\ \A i \in DOMAIN own : own[i] = ledger[i]
  BY DEF EventsOf, Restrict
<1>2. \A i \in places : ledger[i].line = l /\ own[i].deltaQty = line[l].deltaPlanned
  BY <1>1, EventOfLine
<1>3. line[l].deltaPlanned \in Int
  BY DEF PlanIInv, PlanComplete, IsFrozen
<1>4. QtyOf(line[l].key, EventsOf(c)) = Total(deltas, places)
  BY DEF QtyOf, FoldFunction, Total
<1>5. \A i \in places : deltas[i] = line[l].deltaPlanned
  BY <1>2
<1>6. CASE line[l].deltaPlanned = 0
  <2>1. \A i \in places : FALSE
    <3> SUFFICES ASSUME NEW i \in places PROVE FALSE
      OBVIOUS
    <3>1. i \in DOMAIN ledger /\ ledger[i].count = c /\ ledger[i].line = l
      BY <1>1, <1>2
    <3>2. l \in ToAdjust(c)
      BY <3>1, CycleCountsAssumption DEF PlanIInv, EventsTellPlan
    <3> QED BY <1>6, <3>2 DEF ToAdjust
  <2>2. places = {}
    BY <2>1
  <2> HIDE DEF deltas, places
  <2> QED BY <1>4, <1>6, <2>2, TotalOfNone
<1>7. CASE line[l].deltaPlanned # 0
  <2>1. PICK i \in DOMAIN ledger : ledger[i].line = l
    BY <1>7 DEF PlanIInv, PlanCarriedOut, ToAdjust
  <2>2. l # Null
    BY CycleCountsAssumption DEF PlanIInv, IInv, TypeOK
  <2>3. ledger[i].count = c /\ ledger[i].key = line[l].key
    <3>1. ledger[i].count \in Count /\ l \in lines[ledger[i].count]
      BY <2>1, <2>2 DEF PlanIInv, IInv, WrittenUnderClaim
    <3>2. ledger[i].count = c
      BY <3>1 DEF PlanIInv, IInv, LinesSound
    <3> QED BY <2>1, <2>2, <3>2 DEF PlanIInv, EventsTellPlan
  <2>4. places = {i}
    <3>1. i \in places
      BY <1>1, <2>3
    <3>2. \A j \in places : j = i
      BY <1>1, <1>2, <2>1, <2>2 DEF PlanIInv, IInv, AdjustedAtMostOnce
    <3> QED BY <3>1, <3>2
  <2>5. deltas[i] = line[l].deltaPlanned
    BY <1>5, <2>4
  <2> HIDE DEF deltas, places
  <2>6. Total(deltas, {i}) = deltas[i]
    BY <1>3, <2>5, TotalOfOne
  <2> QED BY <1>4, <2>4, <2>5, <2>6
<1> QED BY <1>6, <1>7

LEMMA PlanReconciles == PlanIInv => PostedReconciles
<1> SUFFICES ASSUME PlanIInv, NEW c \in Count, header[c].status = "POSTED",
                    NEW l \in lines[c]
             PROVE  QtyOf(line[l].key, SubSeq(ledger, 1, header[c].freezeLedgerCursor))
                      + QtyOf(line[l].key, EventsOf(c)) = line[l].countedQty
  BY DEF PostedReconciles
<1>1. line[l].systemQtyAtFreeze =
        QtyOf(line[l].key, SubSeq(ledger, 1, header[c].freezeLedgerCursor))
  BY DEF PlanIInv, IInv, SnapshotReproducible, IsFrozen
<1>2. /\ line[l].systemQtyAtFreeze # Null
      /\ line[l].countedQty - line[l].systemQtyAtFreeze = line[l].deltaPlanned
  BY DEF PlanIInv, PlanCarriedOut, SnapshotMatches
<1>3. line[l].systemQtyAtFreeze \in Int /\ line[l].countedQty \in Int
  <2>1. line[l] \in Line
    BY DEF PlanIInv, IInv, LinesSound
  <2>2. line[l].systemQtyAtFreeze \in Int \cup {Null} /\ line[l].countedQty \in Qty
    BY <2>1 DEF Line
  <2>3. \A q \in Qty : q \in Int
    BY CycleCountsAssumption
  <2>4. line[l].countedQty \in Int
    BY <2>2, <2>3, Zenon
  <2> QED BY <1>2, <2>2, <2>4
<1>4. line[l].systemQtyAtFreeze + line[l].deltaPlanned = line[l].countedQty
  BY <1>2, <1>3
<1> QED BY <1>1, <1>4, PostedSum

-----------------------------------------------------------------------------
(* How cycle counts implement CountReconciliation                           *)

\* What is written is the plan, each adjustment at most once, and all of it
\* once the count is posted.
WrittenAsPlanned ==
  \A c \in Count :
    /\ Promise!ListsSome(WrittenBy(c), PlanOf(c))
    /\ header[c].status = "POSTED" =>
         \A p \in PlanOf(c) : \E i \in DOMAIN WrittenBy(c) : WrittenBy(c)[i] = p

LEMMA WrittenShape ==
  ASSUME NEW c
  PROVE  /\ DOMAIN WrittenBy(c) = {i \in DOMAIN ledger : ledger[i].count = c}
         /\ \A i \in DOMAIN WrittenBy(c) :
              WrittenBy(c)[i] = <<ledger[i].key, ledger[i].deltaQty>>
BY DEF WrittenBy, EventsOf, Restrict

LEMMA PlanIsWritten == PlanIInv => WrittenAsPlanned
<1> SUFFICES ASSUME PlanIInv, NEW c \in Count
             PROVE  /\ Promise!ListsSome(WrittenBy(c), PlanOf(c))
                    /\ header[c].status = "POSTED" =>
                         \A p \in PlanOf(c) :
                           \E i \in DOMAIN WrittenBy(c) : WrittenBy(c)[i] = p
  BY DEF WrittenAsPlanned
<1>1. ASSUME NEW i \in DOMAIN WrittenBy(c)
      PROVE  /\ i \in DOMAIN ledger
             /\ ledger[i].line # Null /\ ledger[i].line \in ToAdjust(c)
             /\ WrittenBy(c)[i] = <<line[ledger[i].line].key,
                                    line[ledger[i].line].deltaPlanned>>
             /\ IsFrozen(c)
  <2>1. /\ i \in DOMAIN ledger /\ ledger[i].count = c
        /\ WrittenBy(c)[i] = <<ledger[i].key, ledger[i].deltaQty>>
    BY WrittenShape
  <2>2. ledger[i].line # Null
    BY <2>1, CycleCountsAssumption DEF PlanIInv, EventsTellPlan
  <2>3. IsFrozen(c)
    BY <2>1, <2>2 DEF PlanIInv, IInv, WrittenUnderClaim, IsFrozen
  <2> QED BY <2>1, <2>2, <2>3 DEF PlanIInv, EventsTellPlan
<1>2. \A i \in DOMAIN WrittenBy(c) : WrittenBy(c)[i] \in PlanOf(c)
  BY <1>1 DEF PlanOf
<1>3. ASSUME NEW i \in DOMAIN WrittenBy(c), NEW j \in DOMAIN WrittenBy(c),
             WrittenBy(c)[i] = WrittenBy(c)[j]
      PROVE  i = j
  <2>1. line[ledger[i].line].key = line[ledger[j].line].key
    BY <1>1, <1>3
  <2>2. ledger[i].line = ledger[j].line
    BY <1>1, <2>1 DEF PlanIInv, DistinctKeys, ToAdjust
  <2> QED BY <1>1, <2>2 DEF PlanIInv, IInv, AdjustedAtMostOnce
<1>4. ASSUME header[c].status = "POSTED", NEW p \in PlanOf(c)
      PROVE  \E i \in DOMAIN WrittenBy(c) : WrittenBy(c)[i] = p
  <2>1. PICK l \in ToAdjust(c) : p = <<line[l].key, line[l].deltaPlanned>>
    BY <1>4 DEF PlanOf
  <2>2. PICK i \in DOMAIN ledger : ledger[i].line = l
    BY <1>4 DEF PlanIInv, PlanCarriedOut
  <2>3. l \in lines[c] /\ l # Null
    BY CycleCountsAssumption DEF PlanIInv, IInv, TypeOK, ToAdjust
  <2>4. ledger[i].count = c
    BY <2>2, <2>3 DEF PlanIInv, IInv, WrittenUnderClaim, LinesSound
  <2>5. i \in DOMAIN WrittenBy(c)
    BY <2>4, WrittenShape
  <2> QED BY <1>1, <2>1, <2>2, <2>5
<1> QED BY <1>2, <1>3, <1>4 DEF Promise!ListsSome

\* A frozen count's plan has one adjustment for a key, and none of nothing.
PlanSound ==
  \A c \in Count : /\ PlanOf(c) \subseteq Key \X (Int \ {0})
                   /\ \A p, q \in PlanOf(c) : p[1] = q[1] => p = q

LEMMA PlanIsSound == PlanIInv => PlanSound
<1> SUFFICES ASSUME PlanIInv, NEW c \in Count
             PROVE  /\ PlanOf(c) \subseteq Key \X (Int \ {0})
                    /\ \A p, q \in PlanOf(c) : p[1] = q[1] => p = q
  BY DEF PlanSound
<1>1. CASE ~IsFrozen(c)
  BY <1>1 DEF PlanOf
<1>2. CASE IsFrozen(c)
  <2>1. PlanOf(c) = {<<line[l].key, line[l].deltaPlanned>> : l \in ToAdjust(c)}
    BY <1>2 DEF PlanOf
  <2>2. \A l \in ToAdjust(c) :
          l \in lines[c] /\ line[l].key \in Key /\ line[l].deltaPlanned \in Int \ {0}
    BY <1>2 DEF PlanIInv, IInv, LinesSound, Line, PlanComplete, ToAdjust
  <2>3. \A l, m \in ToAdjust(c) : line[l].key = line[m].key => l = m
    BY <2>2 DEF PlanIInv, DistinctKeys
  <2> QED BY <2>1, <2>2, <2>3
<1> QED BY <1>1, <1>2

\* A count that is not frozen in the step keeps its plan.
LEMMA PlanStays ==
  ASSUME IInv, [Next]_vars, NEW c \in Count, IsFrozen(c)' => IsFrozen(c)
  PROVE  PlanOf(c)' = PlanOf(c)
<1>1. CASE IsFrozen(c)
  <2>1. lines'[c] = lines[c] /\ IsFrozen(c)' /\ \A l \in lines[c] : line'[l] = line[l]
    BY <1>1, FrozenStep DEF IInv
  <2>2. ToAdjust(c)' = ToAdjust(c)
    BY <2>1 DEF ToAdjust
  <2>3. {<<line'[l].key, line'[l].deltaPlanned>> : l \in ToAdjust(c)'}
          = {<<line[l].key, line[l].deltaPlanned>> : l \in ToAdjust(c)}
    BY <2>1, <2>2 DEF ToAdjust
  <2> QED BY <1>1, <2>1, <2>3 DEF PlanOf
<1>2. CASE ~IsFrozen(c)
  BY <1>2 DEF PlanOf
<1> QED BY <1>1, <1>2

\* A count keeps what it has written when others write.
LEMMA WrittenStays ==
  ASSUME NEW c, ledger \in Seq(Event), NEW more \in Seq(Event),
         ledger' = ledger \o more, \A j \in DOMAIN more : more[j].count # c
  PROVE  WrittenBy(c)' = WrittenBy(c)
<1>1. /\ \A i \in DOMAIN ledger : i \in DOMAIN ledger' /\ ledger'[i] = ledger[i]
      /\ \A i \in DOMAIN ledger' :
           i \in DOMAIN ledger \/ \E j \in DOMAIN more : ledger'[i] = more[j]
  BY Appended
<1>2. {i \in DOMAIN ledger' : ledger'[i].count = c}
        = {i \in DOMAIN ledger : ledger[i].count = c}
  BY <1>1
<1>3. \A i \in DOMAIN ledger : ledger'[i] = ledger[i]
  BY <1>1
<1> QED BY <1>2, <1>3 DEF WrittenBy, EventsOf, Restrict

\* Where a count is in its life, by its header.
StagesSound ==
  \A c \in Count :
    /\ header[c].status \in {"NONE", "DRAFT"} => StageOf(c) = "editing"
    /\ header[c].status = "SUBMITTED" => StageOf(c) = "planned"
    /\ header[c].status = "REJECTED" => StageOf(c) = "dropped"
    /\ header[c].status = "POSTED" => StageOf(c) = "complete"
    /\ header[c].status = "APPROVED" =>
         StageOf(c) = IF header[c].postIdempotencyKey THEN "broken" ELSE "accepted"

LEMMA StagesAreSound == StagesSound
BY DEF StagesSound, StageOf

\* A step of one count: the stages and the plans of the others.
LEMMA OthersStay ==
  ASSUME IInv, [Next]_vars, NEW c \in Count,
         \A d \in Count : d # c => header'[d] = header[d]
  PROVE  \A d \in Count : d # c => StageOf(d)' = StageOf(d) /\ PlanOf(d)' = PlanOf(d)
<1> SUFFICES ASSUME NEW d \in Count, d # c
             PROVE  StageOf(d)' = StageOf(d) /\ PlanOf(d)' = PlanOf(d)
  OBVIOUS
<1>1. header'[d] = header[d]
  OBVIOUS
<1>2. PlanOf(d)' = PlanOf(d)
  BY <1>1, PlanStays DEF IsFrozen
<1> QED BY <1>1, <1>2 DEF StageOf

\* Nothing is written when the ledger stays or others write.
LEMMA NothingWritten ==
  ASSUME IInv, OtherLedgerWrite \/ UNCHANGED ledger, NEW c \in Count
  PROVE  WrittenBy(c)' = WrittenBy(c)
<1>1. CASE UNCHANGED ledger
  BY <1>1 DEF WrittenBy, EventsOf
<1>2. CASE OtherLedgerWrite
  <2> PICK k \in Key, d \in OtherDelta :
        ledger' = Append(ledger, [count |-> Null, line |-> Null,
                                  key |-> k, deltaQty |-> d])
    BY <1>2 DEF OtherLedgerWrite
  <2>1. ledger \in Seq(Event) /\ c # Null
    BY CycleCountsAssumption DEF IInv, TypeOK
  <2>2. /\ \A i \in DOMAIN ledger : i \in DOMAIN ledger' /\ ledger'[i] = ledger[i]
        /\ \A i \in DOMAIN ledger' : i \in DOMAIN ledger \/ ledger'[i].count = Null
    BY <2>1
  <2>3. {i \in DOMAIN ledger' : ledger'[i].count = c}
          = {i \in DOMAIN ledger : ledger[i].count = c}
    BY <2>1, <2>2
  <2>4. \A i \in DOMAIN ledger : ledger'[i] = ledger[i]
    BY <2>2
  <2> QED BY <2>3, <2>4 DEF WrittenBy, EventsOf, Restrict
<1> QED BY <1>1, <1>2

LEMMA PromiseInitially == Init => Promise!Init
<1> SUFFICES ASSUME Init PROVE Promise!Init
  OBVIOUS
<1>1. \A c \in Count : StageOf(c) = "editing" /\ PlanOf(c) = {}
  BY DEF Init, StageOf, PlanOf, IsFrozen
<1>2. \A c \in Count : WrittenBy(c) = [i \in {} |-> {}]
  BY DEF Init, WrittenBy, EventsOf, Restrict
<1> QED BY <1>1, <1>2 DEF Promise!Init

LEMMA FreezeStep ==
  ASSUME PlanIInv, [Next]_vars, PlanSound', StagesSound, StagesSound',
         NEW r \in Request, SubmitSucceeds(r), NEW c \in Count, c = submit[r].count
  PROVE  Promise!Freeze(c)
<1>1. /\ header[c].status = "DRAFT" /\ header'[c].status = "SUBMITTED"
      /\ \A d \in Count : d # c => header'[d] = header[d]
      /\ UNCHANGED ledger
  BY SubmitMoves DEF PlanIInv
<1>2. \A d \in Count : d # c => StageOf(d)' = StageOf(d) /\ PlanOf(d)' = PlanOf(d)
  BY <1>1, OthersStay DEF PlanIInv
<1>3. StageOf(c) = "editing" /\ StageOf(c)' = "planned"
  BY <1>1 DEF StagesSound
<1>4. \A d \in Count : WrittenBy(d)' = WrittenBy(d)
  BY <1>1, NothingWritten DEF PlanIInv
<1>5. /\ PlanOf(c)' \subseteq Key \X (Int \ {0})
      /\ \A p, q \in PlanOf(c)' : p[1] = q[1] => p = q
  BY <1>1 DEF PlanSound
<1> QED BY <1>1, <1>2, <1>3, <1>4, <1>5 DEF Promise!Freeze, Promise!Move

LEMMA ReviewStep ==
  ASSUME PlanIInv, [Next]_vars, StagesSound, StagesSound', NEW c \in Count,
         ApproveCycleCountHttp(c) \/ RejectCycleCountHttp(c)
  PROVE  Promise!Accept(c) \/ Promise!Drop(c)
<1>1. /\ header[c].status = "SUBMITTED" /\ ~header'[c].postIdempotencyKey
      /\ header'[c].status \in {"APPROVED", "REJECTED"}
      /\ \A d \in Count : d # c => header'[d] = header[d]
      /\ UNCHANGED ledger
  BY ReviewMoves DEF PlanIInv
<1>2. \A d \in Count : d # c => StageOf(d)' = StageOf(d) /\ PlanOf(d)' = PlanOf(d)
  BY <1>1, OthersStay DEF PlanIInv
<1>3. StageOf(c) = "planned" /\ StageOf(c)' \in {"accepted", "dropped"}
  BY <1>1 DEF StagesSound
<1>4. \A d \in Count : WrittenBy(d)' = WrittenBy(d)
  BY <1>1, NothingWritten DEF PlanIInv
<1>5. PlanOf(c)' = PlanOf(c)
  BY <1>1, PlanStays DEF PlanIInv, IsFrozen
<1>6. CASE StageOf(c)' = "accepted"
  BY <1>2, <1>3, <1>4, <1>5, <1>6 DEF Promise!Accept, Promise!Move
<1>7. CASE StageOf(c)' = "dropped"
  BY <1>2, <1>3, <1>4, <1>5, <1>7 DEF Promise!Drop, Promise!Move
<1> QED BY <1>3, <1>6, <1>7

LEMMA PostStep ==
  ASSUME PlanIInv, [Next]_vars, StagesSound, StagesSound', WrittenAsPlanned',
         NEW c \in Count, PostCycleCountHttp(c)
  PROVE  Promise!BreakOff(c) \/ Promise!Complete(c)
<1>1. /\ header[c].status = "APPROVED" /\ ~header[c].postIdempotencyKey
      /\ header'[c].postIdempotencyKey
      /\ header'[c].status \in {"APPROVED", "POSTED"}
      /\ \A d \in Count : d # c => header'[d] = header[d]
  BY PostMoves DEF PlanIInv
<1>2. \A d \in Count : d # c => StageOf(d)' = StageOf(d) /\ PlanOf(d)' = PlanOf(d)
  BY <1>1, OthersStay DEF PlanIInv
<1>3. /\ StageOf(c) = "accepted"
      /\ StageOf(c)' = IF header'[c].status = "POSTED" THEN "complete" ELSE "broken"
  BY <1>1 DEF StagesSound
<1>4. PlanOf(c)' = PlanOf(c)
  BY <1>1, PlanStays DEF PlanIInv, IsFrozen
<1>5. \A d \in Count : d # c => WrittenBy(d)' = WrittenBy(d)
  <2>1. PICK adj \in Seq(Event) :
          ledger' = ledger \o adj /\ \A i \in DOMAIN adj : adj[i].count = c
    BY PostAppends DEF PlanIInv, IInv
  <2>2. ledger \in Seq(Event)
    BY DEF PlanIInv, IInv, TypeOK
  <2> QED BY <2>1, <2>2, WrittenStays
<1>6. /\ Promise!ListsSome(WrittenBy(c)', PlanOf(c))
      /\ header'[c].status = "POSTED" =>
           \A p \in PlanOf(c) : \E i \in DOMAIN WrittenBy(c)' : WrittenBy(c)'[i] = p
  BY <1>4 DEF WrittenAsPlanned, Promise!ListsSome
<1>7. Promise!Write(c)
  BY <1>2, <1>4, <1>5, <1>6 DEF Promise!Write, Promise!ListsSome
<1>8. CASE header'[c].status = "POSTED"
  BY <1>2, <1>3, <1>6, <1>7, <1>8 DEF Promise!Complete, Promise!Move
<1>9. CASE header'[c].status # "POSTED"
  BY <1>2, <1>3, <1>7, <1>9 DEF Promise!BreakOff, Promise!Move
<1> QED BY <1>8, <1>9

\* Each step of cycle counts is a step of the promise, or leaves it alone.
LEMMA PromiseStep ==
  ASSUME PlanIInv, PlanIInv', [Next]_vars,
         PlanSound', StagesSound, StagesSound', WrittenAsPlanned'
  PROVE  [Promise!Next]_Promise!vars
<1>1. CASE /\ \A c \in Count : Rests(c)
           /\ OtherLedgerWrite \/ UNCHANGED ledger
  <2>1. \A c \in Count : WrittenBy(c)' = WrittenBy(c)
    BY <1>1, NothingWritten DEF PlanIInv
  <2>2. ASSUME NEW c \in Count PROVE StageOf(c)' = StageOf(c) /\ PlanOf(c)' = PlanOf(c)
    <3>1. Rests(c)
      BY <1>1
    <3>2. PlanOf(c)' = PlanOf(c)
      BY <3>1, PlanStays DEF PlanIInv, Rests, IsFrozen
    <3>3. StageOf(c)' = StageOf(c)
      <4>1. CASE /\ header'[c].status = header[c].status
                 /\ header'[c].postIdempotencyKey = header[c].postIdempotencyKey
        BY <4>1 DEF StageOf
      <4>2. CASE header[c].status = "NONE" /\ header'[c].status = "DRAFT"
        BY <4>2 DEF StagesSound
      <4> QED BY <3>1, <4>1, <4>2 DEF Rests
    <3> QED BY <3>2, <3>3
  <2> QED BY <2>1, <2>2 DEF Promise!vars
<1>2. ASSUME NEW r \in Request, SubmitSucceeds(r) PROVE Promise!Next
  <2> PICK c \in Count : c = submit[r].count
    BY <1>2, SubmitMoves DEF PlanIInv
  <2> QED BY <1>2, FreezeStep DEF Promise!Next
<1>3. ASSUME NEW c \in Count,
             ApproveCycleCountHttp(c) \/ RejectCycleCountHttp(c) \/ PostCycleCountHttp(c)
      PROVE  Promise!Next
  BY <1>3, ReviewStep, PostStep DEF Promise!Next
<1> QED BY <1>1, <1>2, <1>3, StepCases DEF PlanIInv

-----------------------------------------------------------------------------
(* The theorems                                                             *)

\* IInv holds initially and every step preserves it.
THEOREM InductiveInvariant == Spec => []IInv
<1>1. Init => IInv
  BY InitIInv
<1>2. IInv /\ [Next]_vars => IInv'
  <2> SUFFICES ASSUME IInv, [Next]_vars PROVE IInv'
    OBVIOUS
  <2>1. TypeOK' /\ LinesSound' /\ LockSound'
    BY NextTypeOK, LinesSoundStep, LockStep DEF IInv, LockSound
  <2>2. WrittenUnderClaim' /\ AdjustedAtMostOnce'
    BY WrittenUnderClaimStep, AdjustedAtMostOnceStep
  <2>3. SubmitSound' /\ SnapshotReproducible'
    BY SubmitSoundStep, SnapshotReproducibleStep
  <2> QED BY <2>1, <2>2, <2>3 DEF IInv
<1> QED BY <1>1, <1>2, PTL DEF Spec

\* The store, the ledger and the waiting submits always have their types.
THEOREM TypeCorrect == Spec => []TypeOK
<1>1. IInv => TypeOK
  BY DEF IInv
<1> QED BY <1>1, InductiveInvariant, PTL

\* No line is adjusted twice, for any number of counts, lines and requests.
THEOREM NoDoubleAdjustment == Spec => []AdjustedAtMostOnce
<1>1. IInv => AdjustedAtMostOnce
  BY DEF IInv
<1> QED BY <1>1, InductiveInvariant, PTL

\* The ledger is only adjusted under a claimed post lock of an approved count.
THEOREM LedgerWrittenUnderClaim == Spec => []WrittenUnderClaim
<1>1. IInv => WrittenUnderClaim
  BY DEF IInv
<1> QED BY <1>1, InductiveInvariant, PTL

\* The snapshot of a frozen count can be recomputed from the ledger for ever.
THEOREM SnapshotsStayReproducible == Spec => []SnapshotReproducible
<1>1. IInv => SnapshotReproducible
  BY DEF IInv
<1> QED BY <1>1, InductiveInvariant, PTL

\* A frozen count is not edited, not even by a submit that was under way.
THEOREM FrozenCountsStayFrozen == Spec => FrozenOnceSubmitted
<1>1. IInv /\ [Next]_vars =>
        [\A c \in Count : IsFrozen(c) =>
           /\ lines'[c] = lines[c]
           /\ \A l \in lines[c] : line'[l] = line[l]
           /\ header'[c].freezeLedgerCursor = header[c].freezeLedgerCursor
        ]_vars
  BY FrozenStep DEF IInv
<1> QED BY <1>1, InductiveInvariant, PTL DEF Spec, FrozenOnceSubmitted

\* The plan of a frozen count stays what its lines say, its events say the
\* plan, and a posted count has carried it out.
THEOREM PlanInvariant == Spec => []PlanIInv
<1>1. Init => PlanIInv
  <2> SUFFICES ASSUME Init PROVE PlanIInv
    OBVIOUS
  <2>1. IInv
    BY InitIInv
  <2>2. DistinctKeys /\ EventsTellPlan /\ PlanComplete /\ PlanCarriedOut
    BY DEF Init, DistinctKeys, EventsTellPlan, PlanComplete, PlanCarriedOut, IsFrozen
  <2> QED BY <2>1, <2>2 DEF PlanIInv
<1>2. PlanIInv /\ [Next]_vars /\ IInv' => PlanIInv'
  <2> SUFFICES ASSUME PlanIInv, [Next]_vars, IInv' PROVE PlanIInv'
    OBVIOUS
  <2> QED BY DistinctKeysStep, EventsTellPlanStep, PlanCompleteStep, PlanCarriedOutStep
          DEF PlanIInv
<1> QED BY <1>1, <1>2, InductiveInvariant, PTL DEF Spec

\* A posted count reconciles: what was counted is what the ledger said at the
\* freeze and what the count's own events add.
THEOREM PostedCountsReconcile == Spec => []PostedReconciles
BY PlanInvariant, PlanReconciles, PTL

\* Cycle counts implement CountReconciliation: a plan is fixed once and is
\* carried out in one attempt.
THEOREM CountsKeepPromise == Spec => KeepsPromise
<1>1. PlanIInv /\ PlanIInv' /\ [Next]_vars /\ PlanSound' /\ StagesSound /\ StagesSound'
        /\ WrittenAsPlanned'
        => [Promise!Next]_Promise!vars
  BY PromiseStep
<1> QED
  BY <1>1, PromiseInitially, PlanInvariant, PlanIsWritten, PlanIsSound, StagesAreSound, PTL
  DEF Spec, KeepsPromise, Promise!Spec
=============================================================================
