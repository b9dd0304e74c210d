------------------------ MODULE SessionRegistry_proofs -----------------------
(***************************************************************************)
(* Theorems about the session registry, for any tokens, users, time to     *)
(* live and clock: types, NeverForks, and that it implements               *)
(* SessionLifecycle.  NeverForks and the types are inductive together; the *)
(* refinement needs the types only.                                        *)
(***************************************************************************)
EXTENDS SessionRegistry, TLAPS

RegistryInv == RegistryTypeOK /\ NeverForks

\* The record of a new token is a record, and it is live.
LEMMA NewRecordLive ==
  ASSUME RegistryTypeOK, NEW u \in User, NEW from \in Token \cup {Null}
  PROVE  /\ NewRecord(u, from) \in Record
         /\ NewRecord(u, from) # Null
         /\ NewRecord(u, from).user = u
         /\ NewRecord(u, from).rotatedFrom = from
         /\ NewRecord(u, from).revokedAt = Null
         /\ NewRecord(u, from).expiresAt > now
BY SessionRegistryAssumption DEF NewRecord, Record, RegistryTypeOK

\* A revoked record differs from the old one in its time of revocation.
LEMMA RevokedRecord ==
  ASSUME RegistryTypeOK, NEW t \in Token, rt[t] # Null
  PROVE  /\ rt[t] \in Record
         /\ Revoked(t) \in Record
         /\ Revoked(t) # Null
         /\ Revoked(t).revokedAt # Null
         /\ Revoked(t).user = rt[t].user
         /\ Revoked(t).rotatedFrom = rt[t].rotatedFrom
         /\ Revoked(t).expiresAt = rt[t].expiresAt
<1>1. rt[t] \in Record /\ now \in Nat
  BY DEF RegistryTypeOK
<1>2. now # Null
  BY <1>1, SessionRegistryAssumption
<1> QED BY <1>1, <1>2, SessionRegistryAssumption DEF Revoked, Record

\* What rotate finds of a token it does not refuse.
LEMMA AcceptedIsLive ==
  ASSUME RegistryTypeOK, NEW old \in Token, RotateRefusal(old) = "NONE"
  PROVE  rt[old] # Null /\ rt[old].revokedAt = Null /\ Live(old)
<1>1. rt[old] # Null /\ rt[old].revokedAt = Null /\ ~(rt[old].expiresAt <= now)
  BY DEF RotateRefusal
<1>2. rt[old] \in Record /\ now \in Nat
  BY <1>1 DEF RegistryTypeOK
<1> QED BY <1>1, <1>2 DEF Live, Record

(* The ways the table of tokens changes.                                    *)

\* A step leaves the tokens alone, issues one, rotates one, or revokes some.
Issued(t, u) ==
  /\ rt[t] = Null
  /\ rt' = [rt EXCEPT ![t] = NewRecord(u, Null)]

RevokedSome(S) ==
  /\ \A t \in S : rt[t] # Null
  /\ rt' = [t \in Token |-> IF t \in S THEN Revoked(t) ELSE rt[t]]

LEMMA EveryStep ==
  ASSUME RegistryTypeOK, [RegistryNext]_registryVars
  PROVE  \/ rt' = rt /\ now' \in {now, now + 1}
         \/ now' = now /\ \E t \in Token, u \in User : Issued(t, u)
         \/ now' = now /\ \E old, new \in Token : PutRotated(old, new)
         \/ now' = now /\ \E S \in SUBSET Token : RevokedSome(S)
<1>1. CASE UNCHANGED registryVars
  BY <1>1 DEF registryVars
<1>2. ASSUME NEW t \in Token, NEW u \in User, Issue(t, u) \/ IssueCut(t, u)
      PROVE  now' = now /\ Issued(t, u)
  BY <1>2 DEF Issue, IssueCut, PutIssued, Issued
<1>3. ASSUME NEW old \in Token, NEW new \in Token,
             Rotate(old, new) \/ RotateCut(old, new)
      PROVE  /\ now' = now
             /\ PutRotated(old, new) \/ RevokedSome({old})
  <2>1. CASE Rotate(old, new)
    BY <2>1 DEF Rotate
  <2>2. CASE RotateCut(old, new) /\ PutRotated(old, new)
    BY <2>2 DEF RotateCut
  <2>3. CASE RotateCut(old, new) /\ PutRevoked(old, new)
    <3>1. rt[old] # Null
      BY <2>3, AcceptedIsLive DEF PutRevoked
    <3>2. rt' = [rt EXCEPT ![old] = Revoked(old)]
      BY <2>3 DEF PutRevoked
    <3>3. rt' = [t \in Token |-> IF t \in {old} THEN Revoked(t) ELSE rt[t]]
      BY <3>2 DEF RegistryTypeOK
    <3> QED BY <2>3, <3>1, <3>3 DEF RotateCut, RevokedSome
  <2> QED BY <1>3, <2>1, <2>2, <2>3 DEF RotateCut
<1>4. ASSUME NEW t \in Token, Revoke(t)
      PROVE  now' = now /\ (rt' = rt \/ RevokedSome({t}))
  <2>1. CASE rt[t] = Null
    BY <1>4, <2>1 DEF Revoke
  <2>2. CASE rt[t] # Null
    <3>1. rt' = [rt EXCEPT ![t] = Revoked(t)]
      BY <1>4, <2>2 DEF Revoke
    <3>2. rt' = [s \in Token |-> IF s \in {t} THEN Revoked(s) ELSE rt[s]]
      BY <3>1 DEF RegistryTypeOK
    <3> QED BY <1>4, <2>2, <3>2 DEF Revoke, RevokedSome
  <2> QED BY <2>1, <2>2
<1>5. ASSUME NEW u \in User, NEW n, RevokeFirst(u, n)
      PROVE  now' = now /\ \E S \in SUBSET Token : RevokedSome(S)
  <2> DEFINE S == {t \in Token : /\ \E i \in 1..n : userSessions[u][i] = t
                                 /\ rt[t] # Null
                                 /\ rt[t].revokedAt = Null}
  <2>1. rt' = [t \in Token |-> IF t \in S THEN Revoked(t) ELSE rt[t]]
    BY <1>5 DEF RevokeFirst
  <2>2. RevokedSome(S)
    BY <2>1 DEF RevokedSome
  <2> QED BY <1>5, <2>2 DEF RevokeFirst
<1>6. ASSUME NEW u \in User, RevokeAll(u) \/ RevokeAllCut(u)
      PROVE  now' = now /\ \E S \in SUBSET Token : RevokedSome(S)
  BY <1>5, <1>6 DEF RevokeAll, RevokeAllCut
<1>7. CASE Tick
  BY <1>7 DEF Tick
<1> QED
  BY <1>1, <1>2, <1>3, <1>4, <1>6, <1>7 DEF RegistryNext

(* Types                                                                    *)

LEMMA TokensTyped ==
  ASSUME RegistryTypeOK, [RegistryNext]_registryVars
  PROVE  now' \in Nat /\ rt' \in [Token -> Record \cup {Null}]
<1>1. CASE rt' = rt /\ now' \in {now, now + 1}
  BY <1>1 DEF RegistryTypeOK
<1>2. ASSUME NEW t \in Token, NEW u \in User, Issued(t, u)
      PROVE  rt' \in [Token -> Record \cup {Null}]
  BY <1>2, NewRecordLive DEF Issued, RegistryTypeOK
<1>3. ASSUME NEW old \in Token, NEW new \in Token, PutRotated(old, new)
      PROVE  rt' \in [Token -> Record \cup {Null}]
  <2>1. rt[old] # Null /\ rt[old] \in Record
    BY <1>3, AcceptedIsLive DEF PutRotated, RegistryTypeOK
  <2>2. rt[old].user \in User
    BY <2>1 DEF Record
  <2>3. NewRecord(rt[old].user, old) \in Record
    BY <2>2, NewRecordLive
  <2>4. Revoked(old) \in Record
    BY <2>1, RevokedRecord
  <2> QED BY <1>3, <2>3, <2>4 DEF PutRotated, RegistryTypeOK
<1>4. ASSUME NEW S \in SUBSET Token, RevokedSome(S)
      PROVE  rt' \in [Token -> Record \cup {Null}]
  <2>1. \A t \in S : Revoked(t) \in Record
    BY <1>4, RevokedRecord DEF RevokedSome
  <2> QED BY <1>4, <2>1 DEF RevokedSome, RegistryTypeOK
<1> QED BY <1>1, <1>2, <1>3, <1>4, EveryStep DEF RegistryTypeOK

LEMMA IndexTyped ==
  ASSUME RegistryTypeOK, [RegistryNext]_registryVars
  PROVE  userSessions' \in [User -> Seq(Token)]
<1>1. ASSUME NEW t \in Token, NEW u \in User, Issue(t, u)
      PROVE  userSessions' \in [User -> Seq(Token)]
  BY <1>1 DEF Issue, RegistryTypeOK
<1>2. ASSUME NEW old \in Token, NEW new \in Token, Rotate(old, new)
      PROVE  userSessions' \in [User -> Seq(Token)]
  <2>1. rt[old] \in Record
    BY <1>2, AcceptedIsLive DEF Rotate, PutRotated, RegistryTypeOK
  <2>2. rt[old].user \in User
    BY <2>1 DEF Record
  <2> QED BY <1>2, <2>2 DEF Rotate, RegistryTypeOK
<1>3. UNCHANGED userSessions => userSessions' \in [User -> Seq(Token)]
  BY DEF RegistryTypeOK
<1> QED
  BY <1>1, <1>2, <1>3 DEF RegistryNext, IssueCut, RotateCut, Revoke,
     RevokeAll, RevokeAllCut, RevokeFirst, Tick, registryVars

(* NeverForks                                                               *)

\* Revoking some tokens makes no two successors of one.
LEMMA RevokedSomeKeepsNeverForks ==
  ASSUME RegistryInv, NEW S \in SUBSET Token, RevokedSome(S)
  PROVE  NeverForks'
<1>1. ASSUME NEW t \in Token
      PROVE  /\ rt'[t] = Null <=> rt[t] = Null
             /\ rt[t] # Null =>
                  /\ rt'[t].rotatedFrom = rt[t].rotatedFrom
                  /\ rt'[t].user = rt[t].user
                  /\ rt[t].revokedAt # Null => rt'[t].revokedAt # Null
  <2>1. CASE t \in S
    BY <2>1, RevokedRecord DEF RevokedSome, RegistryInv
  <2>2. CASE t \notin S
    BY <2>2 DEF RevokedSome
  <2> QED BY <2>1, <2>2
<1>2. \A s \in Token : rt[s] # Null /\ rt[s].rotatedFrom # Null =>
        rt[s].rotatedFrom \in Token
  BY DEF RegistryInv, RegistryTypeOK, Record
<1> QED BY <1>1, <1>2 DEF NeverForks, RegistryInv

LEMMA IssuedKeepsNeverForks ==
  ASSUME RegistryInv, NEW t \in Token, NEW u \in User, Issued(t, u)
  PROVE  NeverForks'
<1>1. /\ rt'[t] # Null /\ rt'[t].rotatedFrom = Null
      /\ \A s \in Token \ {t} : rt'[s] = rt[s]
  BY NewRecordLive DEF Issued, RegistryInv, RegistryTypeOK
<1>2. rt[t] = Null
  BY DEF Issued
<1>3. \A s \in Token : rt[s] # Null /\ rt[s].rotatedFrom # Null =>
        rt[s].rotatedFrom \in Token
  BY DEF RegistryInv, RegistryTypeOK, Record
<1> QED BY <1>1, <1>2, <1>3 DEF NeverForks, RegistryInv

\* A token that is handed over was not revoked, so nobody has it as its
\* predecessor yet.
LEMMA RotatedKeepsNeverForks ==
  ASSUME RegistryInv, NEW old \in Token, NEW new \in Token,
         PutRotated(old, new)
  PROVE  NeverForks'
<1>1. rt[old] # Null /\ rt[old].revokedAt = Null /\ rt[new] = Null
  BY AcceptedIsLive DEF PutRotated, RegistryInv
<1>2. rt[old] \in Record /\ rt[old].user \in User
  BY <1>1 DEF RegistryInv, RegistryTypeOK, Record
<1>3. /\ rt'[new] = NewRecord(rt[old].user, old)
      /\ rt'[old] = Revoked(old)
      /\ \A s \in Token \ {old, new} : rt'[s] = rt[s]
  BY <1>1 DEF PutRotated, RegistryInv, RegistryTypeOK
<1>4. /\ rt'[new] # Null /\ rt'[new].rotatedFrom = old
      /\ rt'[new].user = rt[old].user
  BY <1>2, <1>3, NewRecordLive DEF RegistryInv
<1>5. /\ rt'[old] # Null /\ rt'[old].revokedAt # Null
      /\ rt'[old].user = rt[old].user
      /\ rt'[old].rotatedFrom = rt[old].rotatedFrom
  BY <1>1, <1>3, RevokedRecord DEF RegistryInv
<1>6. \A s \in Token : rt[s] # Null => rt[s].rotatedFrom # old
  <2>1. old # Null
    BY SessionRegistryAssumption
  <2> QED BY <1>1, <2>1 DEF NeverForks, RegistryInv
<1>7. \A s \in Token : rt[s] # Null /\ rt[s].rotatedFrom # Null =>
        rt[s].rotatedFrom \in Token
  BY DEF RegistryInv, RegistryTypeOK, Record
<1>8. ASSUME NEW s \in Token, rt'[s] # Null, rt'[s].rotatedFrom # Null
      PROVE  LET p == rt'[s].rotatedFrom IN
             /\ rt'[p] # Null
             /\ rt'[p].revokedAt # Null
             /\ rt'[p].user = rt'[s].user
             /\ \A t \in Token : rt'[t] # Null /\ rt'[t].rotatedFrom = p => t = s
  <2> DEFINE p == rt'[s].rotatedFrom
  <2>1. CASE s = new
    <3>1. p = old
      BY <2>1, <1>4
    <3>2. \A t \in Token \ {new} : rt'[t] # Null => rt'[t].rotatedFrom # old
      BY <1>1, <1>3, <1>5, <1>6
    <3> QED BY <2>1, <3>1, <3>2, <1>4, <1>5
  <2>2. CASE s # new
    <3>1. /\ rt[s] # Null /\ rt[s].rotatedFrom = p /\ rt[s].user = rt'[s].user
          /\ p # Null
      BY <2>2, <1>1, <1>3, <1>5, <1>8
    <3>2. /\ p \in Token /\ rt[p] # Null /\ rt[p].revokedAt # Null
          /\ rt[p].user = rt[s].user
          /\ \A t \in Token : rt[t] # Null /\ rt[t].rotatedFrom = p => t = s
      BY <3>1, <1>7 DEF NeverForks, RegistryInv
    <3>3. p # old /\ p # new
      BY <3>2, <1>1
    <3>4. rt'[p] = rt[p]
      BY <3>2, <3>3, <1>3
    <3>5. \A t \in Token : rt'[t] # Null /\ rt'[t].rotatedFrom = p => t = s
      BY <1>1, <1>3, <1>4, <1>5, <3>2, <3>3
    <3> QED BY <3>1, <3>2, <3>4, <3>5
  <2> QED BY <2>1, <2>2
<1> QED BY <1>8 DEF NeverForks

LEMMA RegistryInvInductive ==
  ASSUME RegistryInv, [RegistryNext]_registryVars
  PROVE  RegistryInv'
<1>1. RegistryTypeOK'
  BY TokensTyped, IndexTyped DEF RegistryInv, RegistryTypeOK
<1>2. rt' = rt => NeverForks'
  BY DEF NeverForks, RegistryInv
<1> QED
  BY <1>1, <1>2, EveryStep, RevokedSomeKeepsNeverForks,
     IssuedKeepsNeverForks, RotatedKeepsNeverForks DEF RegistryInv

LEMMA RegistryInvInitially == RegistryInit => RegistryInv
BY DEF RegistryInit, RegistryInv, RegistryTypeOK, NeverForks

\* Types and NeverForks hold in every reachable state of the registry,
\* whoever calls it and wherever it crashes.
THEOREM RegistrySound == RegistrySpec => []RegistryInv
<1>1. RegistryInv /\ [RegistryNext]_registryVars => RegistryInv'
  BY RegistryInvInductive
<1> QED BY <1>1, RegistryInvInitially, PTL DEF RegistrySpec

\* A session never forks (rotate revokes before it hands over).
THEOREM SessionsNeverFork == RegistrySpec => []NeverForks
<1>1. RegistryInv => NeverForks
  BY DEF RegistryInv
<1> QED BY <1>1, RegistrySound, PTL

(* The registry implements SessionLifecycle                                 *)

LEMMA LifecycleInitially == RegistryInit => Lifecycle!Init
BY DEF RegistryInit, Lifecycle!Init, LifeOf, ParentOf

\* A token that is not touched stays as it is or expires.
LEMMA StepLifecycle ==
  ASSUME RegistryTypeOK, [RegistryNext]_registryVars
  PROVE  [Lifecycle!Next]_Lifecycle!vars
<1> DEFINE life == [t \in Token |-> LifeOf(t)]
           parent == [t \in Token |-> ParentOf(t)]
<1>1. CASE rt' = rt /\ now' \in {now, now + 1}
  <2> DEFINE S == {t \in Token : LifeOf(t) = "live" /\ LifeOf(t)' # "live"}
  <2>1. ASSUME NEW t \in Token
        PROVE  LifeOf(t)' = IF t \in S THEN "dead" ELSE LifeOf(t)
    <3>1. rt[t] # Null => rt[t] \in Record
      BY DEF RegistryTypeOK
    <3>2. now \in Nat
      BY DEF RegistryTypeOK
    <3>3. Live(t)' => Live(t)
      BY <1>1, <3>1, <3>2 DEF Live, Record
    <3> QED BY <1>1, <3>3 DEF LifeOf
  <2>2. Lifecycle!End(S)
    BY <1>1, <2>1 DEF Lifecycle!End, ParentOf
  <2> QED BY <2>2 DEF Lifecycle!Next
<1>2. ASSUME now' = now, NEW t \in Token, NEW u \in User, Issued(t, u)
      PROVE  Lifecycle!Next
  <2>1. /\ LifeOf(t) = "unborn" /\ LifeOf(t)' = "live"
        /\ ParentOf(t) = Null /\ ParentOf(t)' = Null
    BY <1>2, NewRecordLive
    DEF Issued, LifeOf, ParentOf, Live, RegistryTypeOK
  <2>2. \A s \in Token \ {t} : LifeOf(s)' = LifeOf(s) /\ ParentOf(s)' = ParentOf(s)
    BY <1>2 DEF Issued, LifeOf, ParentOf, Live, RegistryTypeOK
  <2>3. Lifecycle!Start(t)
    BY <2>1, <2>2 DEF Lifecycle!Start
  <2> QED BY <2>3 DEF Lifecycle!Next
<1>3. ASSUME now' = now, NEW old \in Token, NEW new \in Token,
             PutRotated(old, new)
      PROVE  Lifecycle!Next
  <2>1. rt[old] # Null /\ rt[new] = Null /\ Live(old)
    BY <1>3, AcceptedIsLive DEF PutRotated
  <2>2. rt[old].user \in User
    BY <2>1 DEF RegistryTypeOK, Record
  <2>3. /\ rt'[new] = NewRecord(rt[old].user, old)
        /\ rt'[old] = Revoked(old)
        /\ \A s \in Token \ {old, new} : rt'[s] = rt[s]
    BY <1>3, <2>1 DEF PutRotated, RegistryTypeOK
  <2>4. /\ LifeOf(new) = "unborn" /\ LifeOf(new)' = "live"
        /\ ParentOf(new)' = old
    BY <1>3, <2>1, <2>2, <2>3, NewRecordLive DEF LifeOf, ParentOf, Live
  <2>5. /\ LifeOf(old) = "live" /\ LifeOf(old)' = "dead"
        /\ ParentOf(old)' = ParentOf(old)
    BY <2>1, <2>3, RevokedRecord DEF LifeOf, ParentOf, Live
  <2>6. \A s \in Token \ {old, new} :
          LifeOf(s)' = LifeOf(s) /\ ParentOf(s)' = ParentOf(s)
    BY <1>3, <2>3 DEF LifeOf, ParentOf, Live
  <2>7. Lifecycle!HandOver(old, new)
    BY <2>1, <2>4, <2>5, <2>6 DEF Lifecycle!HandOver
  <2> QED BY <2>7 DEF Lifecycle!Next
<1>4. ASSUME now' = now, NEW R \in SUBSET Token, RevokedSome(R)
      PROVE  Lifecycle!Next
  <2> DEFINE S == {t \in R : LifeOf(t) = "live"}
  <2>1. ASSUME NEW t \in Token
        PROVE  /\ LifeOf(t)' = IF t \in S THEN "dead" ELSE LifeOf(t)
               /\ ParentOf(t)' = ParentOf(t)
    <3>1. CASE t \in R
      BY <1>4, <3>1, RevokedRecord DEF RevokedSome, LifeOf, ParentOf, Live
    <3>2. CASE t \notin R
      BY <1>4, <3>2 DEF RevokedSome, LifeOf, ParentOf, Live
    <3> QED BY <3>1, <3>2
  <2>2. Lifecycle!End(S)
    BY <2>1 DEF Lifecycle!End
  <2> QED BY <2>2 DEF Lifecycle!Next
<1> QED BY <1>1, <1>2, <1>3, <1>4, EveryStep

\* The registry implements SessionLifecycle: no token is revived, none is
\* succeeded twice, and a session moves on only as its token dies.
THEOREM RegistryKeepsLifecycle == RegistrySpec => KeepsLifecycle
<1>1. RegistryInv /\ [RegistryNext]_registryVars
        => [Lifecycle!Next]_Lifecycle!vars
  BY StepLifecycle DEF RegistryInv
<1> QED
  BY <1>1, LifecycleInitially, RegistrySound, PTL
  DEF RegistrySpec, KeepsLifecycle, Lifecycle!Spec
=============================================================================
