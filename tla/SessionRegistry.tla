--------------------------- MODULE SessionRegistry ---------------------------
(***************************************************************************)
(* The Durable Object that stores refresh tokens                           *)
(* (auth/sessionRegistry.do.mjs).                                          *)
(*                                                                         *)
(* While an operation awaits its storage the object's input gate holds     *)
(* back other events, so operations do not interleave and each is one      *)
(* action.  Its puts are awaited one after the other, and only puts with   *)
(* no await between them are stored as one: a crash can cut an operation   *)
(* between two puts.  The actions named ...Cut are those crashes; the      *)
(* caller of a cut operation gets no reply.                                *)
(***************************************************************************)
EXTENDS Integers, Sequences

CONSTANTS
  Token,   \* refresh tokens; 48 random bytes never repeat
  User,    \* (tenantId, actorId) pairs, each with the authLevel it has
  Ttl,     \* REFRESH_TOKEN_TTL_SEC, in ticks of the clock
  MaxNow,  \* the clock stops here
  Null

\* What is stored under "rt:<token>".
Record == [user : User,
           expiresAt : Nat,
           rotatedFrom : Token \cup {Null},
           revokedAt : Nat \cup {Null}]

ASSUME SessionRegistryAssumption ==
  /\ Ttl \in Nat \ {0}
  /\ MaxNow \in Nat
  /\ Null \notin Nat \cup Token \cup User
  /\ Null \notin Record

VARIABLES
  now,           \* the clock, nowSec()
  rt,            \* Token -> the record under "rt:<token>", or Null
  userSessions   \* User -> the list under "userSessions:<tenant>:<actor>"

registryVars == <<now, rt, userSessions>>

RegistryTypeOK ==
  /\ now \in Nat
  /\ rt \in [Token -> Record \cup {Null}]
  /\ userSessions \in [User -> Seq(Token)]

RegistryInit ==
  /\ now = 1
  /\ rt = [t \in Token |-> Null]
  /\ userSessions = [u \in User |-> << >>]

NewRecord(u, from) ==
  [user |-> u, expiresAt |-> now + Ttl, rotatedFrom |-> from,
   revokedAt |-> Null]

\* The first put of issue.
PutIssued(t, u) ==
  /\ rt[t] = Null
  /\ rt' = [rt EXCEPT ![t] = NewRecord(u, Null)]

Issue(t, u) ==
  /\ PutIssued(t, u)
  /\ userSessions' = [userSessions EXCEPT ![u] = Append(@, t)]
  /\ UNCHANGED now

IssueCut(t, u) ==
  /\ PutIssued(t, u)
  /\ UNCHANGED <<now, userSessions>>

\* Mutant: a token that was rotated once is accepted again.
RefusesExpiredOnly(t) ==
  IF rt[t] = Null THEN "REFRESH_NOT_FOUND"
  ELSE IF rt[t].expiresAt <= now THEN "REFRESH_EXPIRED"
  ELSE "NONE"

\* What rotate answers a token it refuses, in the order of its checks.
RotateRefusal(t) ==
  IF rt[t] = Null THEN "REFRESH_NOT_FOUND"
  ELSE IF rt[t].revokedAt # Null THEN "REFRESH_REVOKED"
  ELSE IF rt[t].expiresAt <= now THEN "REFRESH_EXPIRED"
  ELSE "NONE"

Revoked(t) == [rt[t] EXCEPT !.revokedAt = now]

\* Mutant: the new record is put before the old one is revoked.
PutNewFirst(old, new) ==
  /\ RotateRefusal(old) = "NONE"
  /\ rt[new] = Null
  /\ rt' = [rt EXCEPT ![new] = NewRecord(rt[old].user, old)]

\* The first put of rotate: the old token is revoked.
PutRevoked(old, new) ==
  /\ RotateRefusal(old) = "NONE"
  /\ rt[new] = Null
  /\ rt' = [rt EXCEPT ![old] = Revoked(old)]

\* The first two: the new token exists as well, with the same identity.
PutRotated(old, new) ==
  /\ RotateRefusal(old) = "NONE"
  /\ rt[new] = Null
  /\ rt' = [rt EXCEPT ![old] = Revoked(old),
                      ![new] = NewRecord(rt[old].user, old)]

\* Mutant: the list of the user's tokens is left as it is.
RotateWithoutIndex(old, new) ==
  /\ PutRotated(old, new)
  /\ UNCHANGED <<now, userSessions>>

Rotate(old, new) ==
  /\ PutRotated(old, new)
  /\ userSessions' = [userSessions EXCEPT ![rt[old].user] = Append(@, new)]
  /\ UNCHANGED now

RotateCut(old, new) ==
  /\ PutRevoked(old, new) \/ PutRotated(old, new)
  /\ UNCHANGED <<now, userSessions>>

\* Mutant: revoke answers ok and stores nothing.
RevokeNothing(t) == UNCHANGED registryVars

\* revoke does not look whether the token is revoked already.
Revoke(t) ==
  /\ rt' = IF rt[t] = Null THEN rt ELSE [rt EXCEPT ![t] = Revoked(t)]
  /\ UNCHANGED <<now, userSessions>>

\* The first n turns of the loop of revokeAll.
RevokeFirst(u, n) ==
  /\ n \in 0..Len(userSessions[u])
  /\ rt' = [t \in Token |->
       IF /\ \E i \in 1..n : userSessions[u][i] = t
          /\ rt[t] # Null
          /\ rt[t].revokedAt = Null
       THEN Revoked(t) ELSE rt[t]]
  /\ UNCHANGED <<now, userSessions>>

RevokeAll(u) == RevokeFirst(u, Len(userSessions[u]))

RevokeAllCut(u) == \E n \in 1..(Len(userSessions[u]) - 1) : RevokeFirst(u, n)

Tick ==
  /\ now < MaxNow
  /\ now' = now + 1
  /\ UNCHANGED <<rt, userSessions>>

RegistryNext ==
  \/ \E t \in Token, u \in User : Issue(t, u) \/ IssueCut(t, u)
  \/ \E old, new \in Token : Rotate(old, new) \/ RotateCut(old, new)
  \/ \E t \in Token : Revoke(t)
  \/ \E u \in User : RevokeAll(u) \/ RevokeAllCut(u)
  \/ Tick

RegistrySpec == RegistryInit /\ [][RegistryNext]_registryVars
-----------------------------------------------------------------------------
\* What /validate answers ok to.
Live(t) == /\ rt[t] # Null
           /\ rt[t].revokedAt = Null
           /\ rt[t].expiresAt > now

\* A session never forks: a token was handed over to at most one other, it
\* was revoked before that, and the identity went with it.
NeverForks ==
  \A s \in Token : rt[s] # Null /\ rt[s].rotatedFrom # Null =>
    LET old == rt[s].rotatedFrom IN
    /\ rt[old] # Null
    /\ rt[old].revokedAt # Null
    /\ rt[old].user = rt[s].user
    /\ \A t \in Token : rt[t] # Null /\ rt[t].rotatedFrom = old => t = s

LifeOf(t) == IF rt[t] = Null THEN "unborn"
             ELSE IF Live(t) THEN "live" ELSE "dead"

ParentOf(t) == IF rt[t] = Null THEN Null ELSE rt[t].rotatedFrom

Lifecycle == INSTANCE SessionLifecycle WITH
  life <- [t \in Token |-> LifeOf(t)],
  parent <- [t \in Token |-> ParentOf(t)]

\* Whoever calls the registry and wherever it crashes, tokens live the life
\* SessionLifecycle describes: none is revived, none is succeeded twice.
KeepsLifecycle == Lifecycle!Spec
=============================================================================
