------------------------- MODULE AuthSessions_proofs -------------------------
(***************************************************************************)
(* Theorems about browsers, handlers and registry together, for any number *)
(* of browsers, tabs and users, with and without lost messages and         *)
(* crashes.                                                                *)
(*                                                                         *)
(* Every step of the whole is a step of the registry or leaves it alone,   *)
(* so what SessionRegistry_proofs proves holds here.  The rest comes from  *)
(* IInv: what browsers and requests hold is in the lists of revokeAll, and *)
(* what was logged out is dead.                                            *)
(***************************************************************************)
EXTENDS AuthSessions, SessionRegistry_proofs

(* What a request sends the registry                                        *)

LEMMA CookiesSent ==
  ASSUME IInv, NEW r \in Request, req[r].phase # "idle"
  PROVE  /\ req[r].cookies.rt \in Token \cup {Null}
         /\ req[r].cookies.rt = Null => req[r].cookies.boot \in User
<1>1. req[r].cookies \in Cookies /\ req[r].cookies # NoCookies
  BY DEF IInv, TypeOK, Req, RequestSound
<1> QED BY <1>1 DEF Cookies, NoCookies

LEMMA StepIsRegistryStep ==
  ASSUME IInv, [Next]_vars
  PROVE  [RegistryNext]_registryVars
<1>1. ASSUME NEW r \in Request, RefreshRotates(r)
      PROVE  RegistryNext
  <2>1. req[r].cookies.rt \in Token
    BY <1>1, CookiesSent DEF RefreshRotates, Arrived
  <2> QED BY <1>1, <2>1 DEF RefreshRotates, RegistryNext
<1>2. ASSUME NEW r \in Request, RefreshIssues(r)
      PROVE  RegistryNext
  <2>1. req[r].cookies.boot \in User
    BY <1>2, CookiesSent DEF RefreshIssues, Arrived
  <2> QED BY <1>2, <2>1 DEF RefreshIssues, RegistryNext
<1>3. ASSUME NEW r \in Request, LogoutRevokes(r)
      PROVE  RegistryNext \/ UNCHANGED registryVars
  <2>1. req[r].cookies.rt \in Token \cup {Null}
    BY <1>3, CookiesSent DEF LogoutRevokes, Arrived
  <2> QED BY <1>3, <2>1 DEF LogoutRevokes, RegistryNext
<1>4. ASSUME NEW r \in Request, CallCut(r)
      PROVE  RegistryNext
  <2>1. /\ req[r].cookies.rt \in Token \cup {Null}
        /\ req[r].cookies.rt = Null => req[r].cookies.boot \in User
    BY <1>4, CookiesSent DEF CallCut
  <2>2. CASE req[r].kind = "logout"
    BY <1>4, <2>1, <2>2 DEF CallCut, RegistryNext
  <2>3. CASE req[r].kind # "logout" /\ req[r].cookies.rt # Null
    BY <1>4, <2>1, <2>3 DEF CallCut, RegistryNext
  <2>4. CASE req[r].kind # "logout" /\ req[r].cookies.rt = Null
    BY <1>4, <2>1, <2>4 DEF CallCut, RegistryNext
  <2> QED BY <2>2, <2>3, <2>4
<1>5. ASSUME NEW u \in User, Administer(u)
      PROVE  RegistryNext
  BY <1>5 DEF Administer, RegistryNext
<1>6. CASE Clock
  BY <1>6 DEF Clock, RegistryNext
<1>7. ASSUME NEW b \in Browser, CookieExpires(b) \/ \E u \in User : OidcCallback(b, u)
      PROVE  UNCHANGED registryVars
  BY <1>7 DEF CookieExpires, OidcCallback
<1>8. ASSUME NEW r \in Request,
             \/ RefreshRefused(r) \/ Deliver(r) \/ Lose(r)
             \/ \E b \in Browser, kind \in {"refresh", "logout"} : Send(r, b, kind)
      PROVE  UNCHANGED registryVars
  BY <1>8 DEF RefreshRefused, Deliver, Lose, Send
<1>9. CASE UNCHANGED vars
  BY <1>9 DEF vars, registryVars
<1> QED
  BY <1>1, <1>2, <1>3, <1>4, <1>5, <1>6, <1>7, <1>8, <1>9 DEF Next

(* What a step of the registry leaves as it is                              *)

\* An issued token stays issued to the same user, and a dead one stays dead.
LEMMA IssuedForGood ==
  ASSUME RegistryTypeOK, [RegistryNext]_registryVars, NEW t \in Token,
         rt[t] # Null
  PROVE  /\ rt'[t] # Null
         /\ rt'[t].user = rt[t].user
         /\ ~Live(t) => ~Live(t)'
<1>1. CASE rt' = rt /\ now' \in {now, now + 1}
  <2>1. rt[t] \in Record /\ now \in Nat
    BY DEF RegistryTypeOK
  <2> QED BY <1>1, <2>1 DEF Live, Record
<1>2. ASSUME now' = now, NEW s \in Token, NEW u \in User, Issued(s, u)
      PROVE  rt'[t] = rt[t]
  BY <1>2 DEF Issued, RegistryTypeOK
<1>3. ASSUME now' = now, NEW old \in Token, NEW new \in Token,
             PutRotated(old, new)
      PROVE  rt'[t] = rt[t] \/ (t = old /\ rt'[t] = Revoked(t))
  BY <1>3 DEF PutRotated, RegistryTypeOK
<1>4. ASSUME now' = now, NEW S \in SUBSET Token, RevokedSome(S)
      PROVE  rt'[t] = rt[t] \/ rt'[t] = Revoked(t)
  BY <1>4 DEF RevokedSome
<1>5. rt'[t] = Revoked(t) => /\ rt'[t] # Null
                             /\ rt'[t].user = rt[t].user
                             /\ ~Live(t)'
  BY RevokedRecord DEF Live
<1>6. now' = now /\ rt'[t] = rt[t] => Live(t)' = Live(t)
  BY DEF Live
<1> QED BY <1>1, <1>2, <1>3, <1>4, <1>5, <1>6, EveryStep

\* The list of a user only grows, at its end.
LEMMA IndexGrows ==
  ASSUME RegistryTypeOK, [RegistryNext]_registryVars, NEW u \in User,
         NEW i \in 1..Len(userSessions[u])
  PROVE  /\ i \in 1..Len(userSessions'[u])
         /\ userSessions'[u][i] = userSessions[u][i]
<1>1. ASSUME NEW t \in Token, NEW v \in User,
             userSessions' = [userSessions EXCEPT ![v] = Append(@, t)]
      PROVE  /\ i \in 1..Len(userSessions'[u])
             /\ userSessions'[u][i] = userSessions[u][i]
  <2>1. userSessions[u] \in Seq(Token)
    BY DEF RegistryTypeOK
  <2>2. CASE u = v
    <3>1. userSessions'[u] = Append(userSessions[u], t)
      BY <1>1, <2>2 DEF RegistryTypeOK
    <3> QED BY <2>1, <3>1
  <2>3. CASE u # v
    BY <1>1, <2>3 DEF RegistryTypeOK
  <2> QED BY <2>2, <2>3
<1>2. ASSUME NEW old \in Token, NEW new \in Token, Rotate(old, new)
      PROVE  rt[old].user \in User
  BY <1>2, AcceptedIsLive DEF Rotate, PutRotated, RegistryTypeOK, Record
<1>3. CASE UNCHANGED userSessions
  BY <1>3
<1>4. CASE \E t \in Token, v \in User : Issue(t, v)
  BY <1>1, <1>4 DEF Issue
<1>5. CASE \E old, new \in Token : Rotate(old, new)
  BY <1>1, <1>2, <1>5 DEF Rotate
<1> QED
  BY <1>3, <1>4, <1>5 DEF RegistryNext, IssueCut, RotateCut, Revoke,
     RevokeAll, RevokeAllCut, RevokeFirst, Tick, registryVars

\* revokeAll will find the token.
InIndex(t) ==
  /\ rt[t] # Null
  /\ \E i \in 1..Len(userSessions[rt[t].user]) :
       userSessions[rt[t].user][i] = t

LEMMA IndexedForGood ==
  ASSUME RegistryTypeOK, [RegistryNext]_registryVars, NEW t \in Token,
         InIndex(t)
  PROVE  InIndex(t)'
<1>1. rt[t] # Null /\ rt[t].user \in User
  BY DEF InIndex, RegistryTypeOK, Record
<1>2. rt'[t] # Null /\ rt'[t].user = rt[t].user
  BY <1>1, IssuedForGood
<1> QED BY <1>1, <1>2, IndexGrows DEF InIndex

\* A call that is not cut puts the new token into the list.
LEMMA AppendedIsLast ==
  ASSUME NEW s \in Seq(Token), NEW t \in Token
  PROVE  \E i \in 1..Len(Append(s, t)) : Append(s, t)[i] = t
<1>1. Len(s) + 1 \in 1..Len(Append(s, t))
  OBVIOUS
<1>2. Append(s, t)[Len(s) + 1] = t
  OBVIOUS
<1> QED BY <1>1, <1>2

LEMMA IssueIndexes ==
  ASSUME RegistryTypeOK, NEW t \in Token, NEW u \in User, Issue(t, u)
  PROVE  InIndex(t)'
<1>1. rt'[t] # Null /\ rt'[t].user = u
  BY NewRecordLive DEF Issue, PutIssued, RegistryTypeOK
<1>2. userSessions'[u] = Append(userSessions[u], t)
  BY DEF Issue, RegistryTypeOK
<1>3. userSessions[u] \in Seq(Token)
  BY DEF RegistryTypeOK
<1> QED BY <1>1, <1>2, <1>3, AppendedIsLast DEF InIndex

LEMMA RotateIndexes ==
  ASSUME RegistryTypeOK, NEW old \in Token, NEW new \in Token,
         Rotate(old, new)
  PROVE  InIndex(new)'
<1> DEFINE u == rt[old].user
<1>1. rt[old] # Null /\ rt[new] = Null
  BY AcceptedIsLive DEF Rotate, PutRotated
<1>2. u \in User
  BY <1>1 DEF RegistryTypeOK, Record
<1>3. rt'[new] = NewRecord(u, old)
  BY <1>1 DEF Rotate, PutRotated, RegistryTypeOK
<1>4. rt'[new] # Null /\ rt'[new].user = u
  BY <1>2, <1>3, NewRecordLive
<1>5. userSessions'[u] = Append(userSessions[u], new)
  BY <1>2 DEF Rotate, RegistryTypeOK
<1>6. userSessions[u] \in Seq(Token)
  BY <1>2 DEF RegistryTypeOK
<1> QED BY <1>4, <1>5, <1>6, AppendedIsLast DEF InIndex

(* Types                                                                    *)

LEMMA RefusalIsReply ==
  ASSUME NEW t PROVE RotateRefusal(t) \in Reply \cup {"NONE"}
BY DEF RotateRefusal, Reply

LEMMA AnswerTyped ==
  ASSUME TypeOK, NEW r \in Request, NEW reply \in Reply,
         NEW new \in Token \cup {Null}, Answer(r, reply, new)
  PROVE  req' \in [Request -> Req]
<1> DEFINE a == [req[r] EXCEPT !.phase = "answered", !.reply = reply,
                               !.newRt = new]
<1>1. req[r] \in Req /\ req \in [Request -> Req]
  BY DEF TypeOK
<1>2. a \in Req
  BY <1>1 DEF Req
<1>3. req' = [req EXCEPT ![r] = a]
  BY <1>1 DEF Answer, Req
<1> QED BY <1>1, <1>2, <1>3

LEMMA SetCookiesTyped ==
  ASSUME TypeOK, NEW r \in Request, req[r].browser \in Browser
  PROVE  SetCookies(r) \in Cookies
BY DEF SetCookies, TypeOK, Req, Cookies, NoCookies

LEMMA IdleTyped == Idle \in Req /\ NoCookies \in Cookies
BY DEF Idle, Req, NoCookies, Cookies

LEMMA TypePreserved ==
  ASSUME IInv, [Next]_vars
  PROVE  TypeOK'
<1> USE DEF IInv
<1>1. RegistryTypeOK'
  BY StepIsRegistryStep, TokensTyped, IndexTyped DEF TypeOK, RegistryTypeOK
<1> SUFFICES /\ jar' \in [Browser -> Cookies]
             /\ req' \in [Request -> Req]
             /\ logins' \in [User -> 0..MaxLogins]
             /\ disturbed' \subseteq Browser
  BY <1>1 DEF TypeOK
<1>2. ASSUME NEW b \in Browser, NEW u \in User, OidcCallback(b, u)
      PROVE  /\ jar' \in [Browser -> Cookies]
             /\ req' \in [Request -> Req]
             /\ logins' \in [User -> 0..MaxLogins]
  <2>1. jar' \in [Browser -> Cookies]
    BY <1>2 DEF OidcCallback, TypeOK, Cookies
  <2>2. logins' \in [User -> 0..MaxLogins]
    BY <1>2, AuthSessionsAssumption DEF OidcCallback, TypeOK
  <2> QED BY <1>2, <2>1, <2>2 DEF OidcCallback, TypeOK
<1>3. ASSUME NEW b \in Browser, CookieExpires(b)
      PROVE  jar' \in [Browser -> Cookies]
  BY <1>3 DEF CookieExpires, TypeOK, Cookies
<1>4. ASSUME NEW r \in Request, NEW b \in Browser,
             NEW kind \in {"refresh", "logout"}, Send(r, b, kind)
      PROVE  req' \in [Request -> Req]
  BY <1>4 DEF Send, TypeOK, Req, Reply
<1>5. ASSUME NEW r \in Request,
             \/ RefreshRotates(r) \/ RefreshRefused(r)
             \/ RefreshIssues(r) \/ LogoutRevokes(r)
      PROVE  req' \in [Request -> Req]
  <2>1. \E reply \in Reply, new \in Token \cup {Null} : Answer(r, reply, new)
    <3>1. "OK" \in Reply
      BY DEF Reply
    <3>2. CASE RefreshRotates(r) \/ RefreshIssues(r)
      BY <3>1, <3>2 DEF RefreshRotates, RefreshIssues
    <3>3. CASE RefreshRefused(r)
      BY <3>3, RefusalIsReply DEF RefreshRefused
    <3>4. CASE LogoutRevokes(r)
      BY <3>1, <3>4 DEF LogoutRevokes
    <3> QED BY <1>5, <3>2, <3>3, <3>4
  <2> QED BY <2>1, AnswerTyped
<1>6. ASSUME NEW r \in Request, Deliver(r)
      PROVE  jar' \in [Browser -> Cookies] /\ req' \in [Request -> Req]
  <2>1. req' \in [Request -> Req]
    BY <1>6, IdleTyped DEF Deliver, TypeOK
  <2>2. req[r].browser \in Browser => jar' \in [Browser -> Cookies]
    BY <1>6, SetCookiesTyped DEF Deliver, TypeOK
  <2>3. req[r].browser \notin Browser => jar' = jar
    BY <1>6 DEF Deliver, TypeOK
  <2> QED BY <2>1, <2>2, <2>3 DEF TypeOK
<1>7. ASSUME NEW r \in Request, Lose(r) \/ CallCut(r)
      PROVE  req' \in [Request -> Req]
  BY <1>7, IdleTyped DEF Lose, CallCut, TypeOK
<1>8. disturbed' \subseteq Browser
  <2>1. ASSUME NEW r \in Request, Lose(r) \/ CallCut(r)
        PROVE  req[r].browser \in Browser
    BY <2>1 DEF Lose, CallCut, RequestSound
  <2> QED
    BY <2>1
    DEF Next, vars, TypeOK, OidcCallback, CookieExpires, Send, RefreshRotates,
        RefreshRefused, RefreshIssues, LogoutRevokes, Deliver, Lose, CallCut,
        Disturb, Administer, Clock
<1> QED
  BY <1>2, <1>3, <1>4, <1>5, <1>6, <1>7, <1>8
  DEF Next, vars, TypeOK, CookieExpires, Send, RefreshRotates,
      RefreshRefused, RefreshIssues, LogoutRevokes, Deliver, Lose, CallCut,
      Administer, Clock

(* HeldIndexed                                                              *)

LEMMA HeldPreserved ==
  ASSUME IInv, [Next]_vars
  PROVE  HeldIndexed'
<1> USE DEF IInv
<1>1. RegistryTypeOK /\ [RegistryNext]_registryVars
  BY StepIsRegistryStep DEF TypeOK
<1>2. ASSUME NEW t \in Token, t \in Held PROVE InIndex(t)'
  <2>1. InIndex(t)
    BY <1>2 DEF HeldIndexed, InIndex
  <2> QED BY <1>1, <2>1, IndexedForGood
<1>3. ASSUME NEW t \in Token, t \in Held', t \notin Held
      PROVE  InIndex(t)'
  \* It is the answer of a rotation or of an issue.
  <2>1. ASSUME NEW r \in Request, NEW reply, NEW new \in Token \cup {Null},
               Answer(r, reply, new), jar' = jar
        PROVE  t = new
    <3>1. \A q \in Request \ {r} : req'[q] = req[q]
      BY <2>1 DEF Answer, TypeOK
    <3>2. req'[r].newRt = new
      BY <2>1 DEF Answer, TypeOK, Req
    <3> QED BY <1>3, <2>1, <3>1, <3>2 DEF Held
  <2>2. t # Null
    BY SessionRegistryAssumption
  <2>3. ASSUME NEW r \in Request, RefreshRotates(r)
        PROVE  InIndex(t)'
    <3>1. PICK new \in Token : /\ Rotate(req[r].cookies.rt, new)
                               /\ Answer(r, "OK", new)
      BY <2>3 DEF RefreshRotates
    <3>2. t = new
      BY <2>1, <2>3, <3>1 DEF RefreshRotates
    <3>3. req[r].cookies.rt \in Token
      BY <2>3, CookiesSent DEF RefreshRotates, Arrived
    <3> QED BY <1>1, <3>1, <3>2, <3>3, RotateIndexes
  <2>4. ASSUME NEW r \in Request, RefreshIssues(r)
        PROVE  InIndex(t)'
    <3>1. PICK new \in Token : /\ Issue(new, req[r].cookies.boot)
                               /\ Answer(r, "OK", new)
      BY <2>4 DEF RefreshIssues
    <3>2. t = new
      BY <2>1, <2>4, <3>1 DEF RefreshIssues
    <3>3. req[r].cookies.boot \in User
      BY <2>4, CookiesSent DEF RefreshIssues, Arrived
    <3> QED BY <1>1, <3>1, <3>2, <3>3, IssueIndexes
  <2>5. ~ \E r \in Request : RefreshRefused(r) \/ LogoutRevokes(r)
    <3>1. ASSUME NEW r \in Request, RefreshRefused(r) \/ LogoutRevokes(r)
          PROVE  t = Null
      BY <2>1, <3>1 DEF RefreshRefused, LogoutRevokes
    <3> QED BY <2>2, <3>1
  \* Every other step gives away nothing new.
  <2>6. ASSUME NEW r \in Request, Deliver(r) PROVE FALSE
    <3>1. /\ \A q \in Request \ {r} : req'[q] = req[q]
          /\ req'[r].phase = "idle"
          /\ \A b \in Browser : b # req[r].browser => jar'[b] = jar[b]
      BY <2>6 DEF Deliver, Idle, TypeOK
    <3>2. \E b \in Browser : b = req[r].browser /\ t = jar'[b].rt
      BY <1>3, <3>1 DEF Held
    <3>3. req[r].browser \in Browser /\ t = SetCookies(r).rt
      BY <2>6, <3>2 DEF Deliver, TypeOK
    <3>4. t \in {Null, req[r].newRt, jar[req[r].browser].rt}
      BY <3>3 DEF SetCookies, NoCookies, TypeOK, Cookies
    <3> QED BY <1>3, <2>2, <2>6, <3>3, <3>4 DEF Deliver, Held
  <2>7. ASSUME NEW b \in Browser,
               CookieExpires(b) \/ \E u \in User : OidcCallback(b, u)
        PROVE  FALSE
    <3>1. req' = req
      BY <2>7 DEF CookieExpires, OidcCallback
    <3>2. \A a \in Browser : jar'[a].rt \in {jar[a].rt, Null}
      BY <2>7 DEF CookieExpires, OidcCallback, TypeOK, Cookies
    <3> QED BY <1>3, <2>2, <3>1, <3>2 DEF Held
  <2>8. ASSUME NEW r \in Request,
               \/ Lose(r) \/ CallCut(r)
               \/ \E b \in Browser, kind \in {"refresh", "logout"} : Send(r, b, kind)
        PROVE  FALSE
    <3>1. /\ jar' = jar
          /\ \A q \in Request \ {r} : req'[q] = req[q]
          /\ req'[r].phase # "answered"
      BY <2>8 DEF Lose, CallCut, Send, Idle, TypeOK
    <3> QED BY <1>3, <3>1 DEF Held
  <2>9. ~ UNCHANGED <<jar, req>>
    BY <1>3 DEF Held
  <2> QED
    BY <2>3, <2>4, <2>5, <2>6, <2>7, <2>8, <2>9
    DEF Next, vars, Administer, Clock
<1> QED BY <1>2, <1>3 DEF HeldIndexed, InIndex

(* RequestSound                                                             *)

\* What an answer leaves as it was.
LEMMA AnswerKeeps ==
  ASSUME TypeOK, NEW r \in Request, NEW reply, NEW new, Answer(r, reply, new)
  PROVE  /\ \A q \in Request \ {r} : req'[q] = req[q]
         /\ req'[r].phase = "answered"
         /\ req'[r].kind = req[r].kind
         /\ req'[r].cookies = req[r].cookies
         /\ req'[r].browser = req[r].browser
BY DEF Answer, TypeOK, Req

\* The token a logout was sent with is dead once the registry revoked it.
LEMMA RevokeKills ==
  ASSUME RegistryTypeOK, NEW t \in Token, Revoke(t)
  PROVE  ~Live(t)'
<1>1. CASE rt[t] = Null
  BY <1>1 DEF Revoke, Live
<1>2. CASE rt[t] # Null
  <2>1. rt'[t] = Revoked(t)
    BY <1>2 DEF Revoke, RegistryTypeOK
  <2> QED BY <1>2, <2>1, RevokedRecord DEF Live
<1> QED BY <1>1, <1>2

\* What RequestSound says of one request.
Sound(r) ==
  req[r].phase # "idle" =>
    /\ req[r].browser \in Browser
    /\ req[r].cookies # NoCookies
    /\ req[r].cookies.rt # Null => rt[req[r].cookies.rt] # Null
    /\ \A t \in Token :
         /\ req[r].phase = "answered"
         /\ req[r].kind = "logout"
         /\ req[r].cookies.rt = t
         => ~Live(t)

LEMMA RequestPreserved ==
  ASSUME IInv, [Next]_vars
  PROVE  RequestSound'
<1> USE DEF IInv
<1>1. RegistryTypeOK /\ [RegistryNext]_registryVars
  BY StepIsRegistryStep DEF TypeOK
\* A request that keeps its cookies stays sound, if it is not a logout that
\* is answered in this step.
<1>2. ASSUME NEW q \in Request, req[q].phase # "idle",
             req'[q].cookies = req[q].cookies,
             req'[q].kind = req[q].kind,
             req'[q].browser = req[q].browser,
             req'[q].phase = req[q].phase \/ req[q].kind # "logout"
      PROVE  Sound(q)'
  <2>1. /\ req[q].cookies.rt \in Token \cup {Null}
        /\ req[q].cookies.rt # Null => rt[req[q].cookies.rt] # Null
        /\ req[q].cookies # NoCookies /\ req[q].browser \in Browser
    BY <1>2, CookiesSent DEF RequestSound
  <2>2. req[q].cookies.rt # Null => rt'[req[q].cookies.rt] # Null
    BY <1>1, <2>1, IssuedForGood
  <2>3. ASSUME NEW t \in Token, req'[q].phase = "answered",
               req'[q].kind = "logout", req'[q].cookies.rt = t
        PROVE  ~Live(t)'
    <3>1. rt[t] # Null /\ ~Live(t)
      BY <1>2, <2>1, <2>3, SessionRegistryAssumption DEF RequestSound
    <3> QED BY <1>1, <3>1, IssuedForGood
  <2> QED BY <1>2, <2>1, <2>2, <2>3 DEF Sound
<1>3. ASSUME NEW q \in Request, req'[q] = req[q] PROVE Sound(q)'
  <2>1. CASE req[q].phase = "idle"
    BY <1>3, <2>1 DEF Sound
  <2>2. CASE req[q].phase # "idle"
    BY <1>2, <1>3, <2>2
  <2> QED BY <2>1, <2>2
<1>4. ASSUME NEW q \in Request, req'[q] = Idle PROVE Sound(q)'
  BY <1>4 DEF Sound, Idle
<1> SUFFICES ASSUME NEW q \in Request PROVE Sound(q)'
  BY DEF Sound, RequestSound
<1>5. ASSUME NEW r \in Request, NEW b \in Browser,
             NEW kind \in {"refresh", "logout"}, Send(r, b, kind)
      PROVE  Sound(q)'
  <2>1. CASE q # r
    BY <1>3, <1>5, <2>1 DEF Send, TypeOK
  <2>2. CASE q = r
    <3>1. /\ req'[q].phase = "sent" /\ req'[q].cookies = jar[b]
          /\ req'[q].browser = b
          /\ jar[b] # NoCookies /\ jar[b] \in Cookies
      BY <1>5, <2>2 DEF Send, TypeOK
    <3>2. jar[b].rt # Null => jar[b].rt \in Token /\ jar[b].rt \in Held
      BY <3>1 DEF Cookies, Held
    <3>3. jar[b].rt # Null => rt'[jar[b].rt] # Null
      BY <1>1, <3>2, IssuedForGood DEF HeldIndexed
    <3> QED BY <3>1, <3>3 DEF Sound
  <2> QED BY <2>1, <2>2
<1>6. ASSUME NEW r \in Request,
             RefreshRotates(r) \/ RefreshRefused(r) \/ RefreshIssues(r)
      PROVE  Sound(q)'
  <2>1. \E reply, new : Answer(r, reply, new)
    BY <1>6 DEF RefreshRotates, RefreshRefused, RefreshIssues
  <2>2. req[r].phase # "idle" /\ req[r].kind # "logout"
    BY <1>6 DEF RefreshRotates, RefreshRefused, RefreshIssues, Arrived
  <2> QED BY <1>2, <1>3, <2>1, <2>2, AnswerKeeps
<1>7. ASSUME NEW r \in Request, LogoutRevokes(r)
      PROVE  Sound(q)'
  <2>1. Answer(r, "OK", Null) /\ req[r].phase # "idle"
    BY <1>7 DEF LogoutRevokes, Arrived
  <2>2. CASE q # r
    BY <1>3, <2>1, <2>2, AnswerKeeps
  <2>3. CASE q = r
    <3>1. /\ req[q].cookies.rt \in Token \cup {Null}
          /\ req[q].cookies.rt # Null => rt[req[q].cookies.rt] # Null
          /\ req[q].cookies # NoCookies /\ req[q].browser \in Browser
      BY <2>1, <2>3, CookiesSent DEF RequestSound
    <3>2. req[q].cookies.rt # Null => rt'[req[q].cookies.rt] # Null
      BY <1>1, <3>1, IssuedForGood
    <3>3. \A t \in Token : req[q].cookies.rt = t => ~Live(t)'
      BY <1>1, <1>7, <2>3, RevokeKills, SessionRegistryAssumption
      DEF LogoutRevokes
    <3> QED BY <2>1, <2>3, <3>1, <3>2, <3>3, AnswerKeeps DEF Sound
  <2> QED BY <2>2, <2>3
<1>8. ASSUME NEW r \in Request, Deliver(r) \/ Lose(r) \/ CallCut(r)
      PROVE  Sound(q)'
  BY <1>3, <1>4, <1>8 DEF Deliver, Lose, CallCut, TypeOK
<1>9. ASSUME UNCHANGED req
      PROVE  Sound(q)'
  BY <1>3, <1>9
<1> QED
  BY <1>5, <1>6, <1>7, <1>8, <1>9
  DEF Next, vars, OidcCallback, CookieExpires, Administer, Clock

(* The browsers that are not disturbed                                      *)

\* A step hands over the token old at most: every other parent was there.
HandsOver(old) ==
  \A s \in Token : rt'[s] # Null =>
    \/ rt'[s].rotatedFrom \in {Null, old}
    \/ rt[s] # Null /\ rt'[s].rotatedFrom = rt[s].rotatedFrom

LEMMA StillNewest ==
  ASSUME NEW old, HandsOver(old), NEW t, t # Null, t # old, Newest(t)
  PROVE  Newest(t)'
BY DEF HandsOver, Newest

\* Only a rotation hands a token over, and a token it gives is the newest.
LEMMA RevokeHandsOver ==
  ASSUME RegistryTypeOK,
         \/ \E t \in Token : Revoke(t)
         \/ \E u \in User : RevokeAll(u) \/ RevokeAllCut(u)
  PROVE  HandsOver(Null)
<1>1. ASSUME NEW s \in Token, rt'[s] # Null
      PROVE  rt[s] # Null /\ rt'[s] \in {rt[s], Revoked(s)}
  BY <1>1 DEF Revoke, RevokeAll, RevokeAllCut, RevokeFirst, RegistryTypeOK
<1> QED BY <1>1, RevokedRecord DEF HandsOver

LEMMA IssueHandsOver ==
  ASSUME RegistryInv, NEW new \in Token, NEW u \in User, Issue(new, u)
  PROVE  HandsOver(Null) /\ Newest(new)'
<1>1. /\ rt'[new].rotatedFrom = Null /\ rt[new] = Null
      /\ \A s \in Token \ {new} : rt'[s] = rt[s]
  BY NewRecordLive DEF Issue, PutIssued, RegistryInv, RegistryTypeOK
<1>2. Newest(new)
  BY <1>1, SessionRegistryAssumption DEF RegistryInv, NeverForks, Newest
<1> QED BY <1>1, <1>2, SessionRegistryAssumption DEF HandsOver, Newest

LEMMA RotateHandsOver ==
  ASSUME RegistryInv, NEW old \in Token, NEW new \in Token, Rotate(old, new)
  PROVE  HandsOver(old) /\ Newest(new)'
<1>1. rt[old] # Null /\ rt[new] = Null /\ rt[old].user \in User
  BY AcceptedIsLive
  DEF Rotate, PutRotated, RegistryInv, RegistryTypeOK, Record
<1>2. /\ rt'[new].rotatedFrom = old
      /\ rt'[old] = Revoked(old)
      /\ \A s \in Token \ {old, new} : rt'[s] = rt[s]
  BY <1>1, NewRecordLive DEF Rotate, PutRotated, RegistryInv, RegistryTypeOK
<1>3. rt'[old].rotatedFrom = rt[old].rotatedFrom
  BY <1>1, <1>2, RevokedRecord DEF RegistryInv
<1>4. Newest(new)
  BY <1>1, SessionRegistryAssumption DEF RegistryInv, NeverForks, Newest
<1>5. HandsOver(old)
  BY <1>1, <1>2, <1>3 DEF HandsOver
<1> QED BY <1>1, <1>4, <1>5, StillNewest, SessionRegistryAssumption

\* A call that is cut hands over the token that was sent, or none.
LEMMA CutHandsOver ==
  ASSUME IInv, RegistryInv, NEW r \in Request, Lose(r) \/ CallCut(r)
  PROVE  \E old \in {Null, req[r].cookies.rt} : HandsOver(old)
<1> DEFINE sent == req[r].cookies.rt
<1>1. CASE rt' = rt
  BY <1>1 DEF HandsOver
<1>2. ASSUME req[r].phase # "idle", sent # Null, Revoke(sent)
      PROVE  HandsOver(Null)
  BY <1>2, CookiesSent, RevokeHandsOver DEF RegistryInv
<1>3. ASSUME req[r].phase # "idle", sent # Null,
             NEW new \in Token, RotateCut(sent, new)
      PROVE  HandsOver(sent)
  <2>1. sent \in Token
    BY <1>3, CookiesSent
  <2>2. rt[sent] # Null /\ rt[new] = Null /\ rt[sent].user \in User
    BY <1>3, <2>1, AcceptedIsLive
    DEF RotateCut, PutRevoked, PutRotated, RegistryInv, RegistryTypeOK, Record
  <2>3. /\ \A s \in Token \ {sent, new} : rt'[s] = rt[s]
        /\ rt'[sent] = Revoked(sent)
        /\ rt'[new] = Null \/ rt'[new].rotatedFrom = sent
    BY <1>3, <2>1, <2>2, NewRecordLive
    DEF RotateCut, PutRevoked, PutRotated, RegistryInv, RegistryTypeOK
  <2>4. rt'[sent].rotatedFrom = rt[sent].rotatedFrom
    BY <2>1, <2>2, <2>3, RevokedRecord DEF RegistryInv
  <2> QED BY <2>2, <2>3, <2>4 DEF HandsOver
<1>4. ASSUME req[r].phase # "idle", sent = Null,
             NEW new \in Token, IssueCut(new, req[r].cookies.boot)
      PROVE  HandsOver(Null)
  <2>1. req[r].cookies.boot \in User
    BY <1>4, CookiesSent
  <2>2. /\ rt'[new].rotatedFrom = Null
        /\ \A s \in Token \ {new} : rt'[s] = rt[s]
    BY <1>4, <2>1, NewRecordLive DEF IssueCut, PutIssued, RegistryInv, RegistryTypeOK
  <2> QED BY <2>2 DEF HandsOver
<1> QED BY <1>1, <1>2, <1>3, <1>4 DEF Lose, CallCut, registryVars

\* What a browser has exists in the registry.
LEMMA HasKnown ==
  ASSUME IInv, NEW b \in Browser, NEW t \in Token, Has(b, t)
  PROVE  rt[t] # Null
<1>1. t # Null
  BY SessionRegistryAssumption
<1>2. CASE jar[b].rt = t
  BY <1>2 DEF IInv, HeldIndexed, Held
<1>3. ASSUME NEW r \in Request, UnderWay(r, b), req[r].cookies.rt = t
      PROVE  rt[t] # Null
  BY <1>1, <1>3 DEF IInv, RequestSound, UnderWay
<1>4. ASSUME NEW r \in Request, req[r].phase = "answered", req[r].newRt = t
      PROVE  rt[t] # Null
  BY <1>4 DEF IInv, HeldIndexed, Held
<1> QED BY <1>2, <1>3, <1>4 DEF Has

\* A step after which no browser has a token it had not, unless the token is
\* new.
LEMMA SharingKept ==
  ASSUME IInv, NothingShared, NEW a \in Browser, NEW new,
         \A b \in Browser, t \in Token :
           Has(b, t)' => Has(b, t) \/ (t = new /\ rt[t] = Null /\ b = a)
  PROVE  NothingShared'
BY HasKnown DEF NothingShared

\* The step of another: the requests of the browser stay as they are, its jar
\* keeps its token or drops it, and no token it has is handed over.
LEMMA OthersKeepOrder ==
  ASSUME IInv, NEW b \in Browser, Orderly(b), NEW old, HandsOver(old),
         old \in Token => ~Has(b, old),
         \A r \in Request : UnderWay(r, b) \/ UnderWay(r, b)' => req'[r] = req[r],
         jar'[b].rt \in {Null, jar[b].rt}
  PROVE  Orderly(b)'
<1>1. ASSUME NEW t \in Token, Has(b, t), Newest(t)
      PROVE  Newest(t)'
  BY <1>1, StillNewest, SessionRegistryAssumption
<1>2. \A r \in Request : UnderWay(r, b)' <=> UnderWay(r, b)
  BY DEF UnderWay
<1>3. /\ jar[b].rt \in Token \cup {Null}
      /\ \A r \in Request : /\ req[r].cookies.rt \in Token \cup {Null}
                            /\ req[r].newRt \in Token \cup {Null}
  BY DEF IInv, TypeOK, Cookies, Req
<1>4. jar'[b].rt # Null =>
        \/ Newest(jar[b].rt)'
        \/ \E r \in Request : UnderWay(r, b)' /\ req'[r].phase = "answered"
  <2> SUFFICES ASSUME jar'[b].rt # Null PROVE Newest(jar[b].rt)'
                 \/ \E r \in Request : UnderWay(r, b)' /\ req'[r].phase = "answered"
    OBVIOUS
  <2> DEFINE t == jar[b].rt
  <2>1. jar'[b].rt = t /\ t \in Token /\ Has(b, t)
    BY <1>3 DEF Has
  <2>2. CASE Newest(t)
    <3>1. \A x \in Token : Has(b, x) /\ Newest(x) =>
            \A s \in Token : rt'[s] # Null => rt'[s].rotatedFrom # x
      BY <1>1 DEF Newest
    <3> QED BY <2>1, <2>2, <3>1 DEF Newest
  <2>3. CASE \E r \in Request : UnderWay(r, b) /\ req[r].phase = "answered"
    BY <1>2, <2>3
  <2> QED BY <2>1, <2>2, <2>3 DEF Orderly
<1>5. ASSUME NEW r \in Request, UnderWay(r, b)
      PROVE  /\ (req[r].phase = "sent" /\ req[r].cookies.rt # Null) =>
                  Newest(req[r].cookies.rt)'
             /\ (req[r].phase = "answered" /\ req[r].newRt # Null) =>
                  Newest(req[r].newRt)'
             /\ (req[r].phase = "answered" /\ req[r].reply = "REFRESH_REVOKED") =>
                  req[r].cookies.rt # Null /\ Newest(req[r].cookies.rt)'
  <2> DEFINE t == req[r].cookies.rt
             n == req[r].newRt
  <2>1. req'[r] = req[r] /\ t \in Token \cup {Null} /\ n \in Token \cup {Null}
    BY <1>3, <1>5
  <2>2. t # Null => Has(b, t)
    BY <1>5 DEF Has
  <2>3. req[r].phase = "answered" /\ n # Null => Has(b, n)
    BY <1>5 DEF Has
  <2>4. \A x \in Token : Has(b, x) /\ Newest(x) =>
          \A s \in Token : rt'[s] # Null => rt'[s].rotatedFrom # x
    BY <1>1 DEF Newest
  <2>5. /\ (req[r].phase = "sent" /\ t # Null) => Newest(t)
        /\ (req[r].phase = "answered" /\ n # Null) => Newest(n)
        /\ (req[r].phase = "answered" /\ req[r].reply = "REFRESH_REVOKED") =>
             t # Null /\ Newest(t)
    BY <1>5 DEF Orderly
  <2> QED BY <2>1, <2>2, <2>3, <2>4, <2>5 DEF Newest
<1> QED BY <1>2, <1>4, <1>5 DEF Orderly

\* The answer to the one request of the browser: it hands over the token the
\* browser sent or none, brings a newest token or none, and refuses a newest.
LEMMA AnswerKeepsOrder ==
  ASSUME IInv, OrderInv,
         NEW r \in Request, req[r].phase = "sent",
         NEW reply, NEW new \in Token \cup {Null}, Answer(r, reply, new),
         UNCHANGED <<jar, disturbed>>,
         NEW old \in {Null, req[r].cookies.rt}, HandsOver(old),
         new # Null => rt[new] = Null /\ Newest(new)',
         reply = "REFRESH_REVOKED" /\ req[r].browser \notin disturbed =>
           req[r].cookies.rt # Null /\ Newest(req[r].cookies.rt)'
  PROVE  OrderInv'
<1>1. PICK a \in Browser : a = req[r].browser
  BY DEF IInv, RequestSound
<1>2. UnderWay(r, a)
  BY <1>1 DEF UnderWay
<1>3. /\ req'[r].phase = "answered"
      /\ req'[r].browser = a
      /\ req'[r].cookies = req[r].cookies
      /\ req'[r].reply = reply
      /\ req'[r].newRt = new
      /\ \A q \in Request \ {r} : req'[q] = req[q]
  BY <1>1 DEF Answer, IInv, TypeOK, Req
<1>4. \A q \in Request, b \in Browser : UnderWay(q, b)' <=> UnderWay(q, b)
  BY <1>1, <1>3 DEF UnderWay
<1>5. NothingShared'
  <2>1. ASSUME NEW b \in Browser, NEW t \in Token, Has(b, t)'
        PROVE  Has(b, t) \/ (t = new /\ rt[t] = Null /\ b = a)
    <3>1. CASE jar[b].rt = t
      BY <3>1 DEF Has
    <3>2. ASSUME NEW q \in Request, UnderWay(q, b), req'[q].cookies.rt = t
          PROVE  Has(b, t)
      BY <1>3, <3>2 DEF Has
    <3>3. ASSUME NEW q \in Request, UnderWay(q, b),
                 req'[q].phase = "answered", req'[q].newRt = t
          PROVE  Has(b, t) \/ (t = new /\ rt[t] = Null /\ b = a)
      <4>1. CASE q # r
        BY <1>3, <3>3, <4>1 DEF Has
      <4>2. CASE q = r
        BY <1>1, <1>3, <3>3, <4>2, SessionRegistryAssumption DEF UnderWay
      <4> QED BY <4>1, <4>2
    <3> QED BY <1>4, <2>1, <3>1, <3>2, <3>3 DEF Has
  <2> QED BY <1>1, <2>1, SharingKept DEF OrderInv
<1>6. ASSUME NEW b \in Browser \ disturbed, b # a
      PROVE  Orderly(b)'
  <2>1. old \in Token => ~Has(b, old)
    BY <1>2, <1>6, SessionRegistryAssumption DEF OrderInv, NothingShared, Has
  <2>2. \A q \in Request : UnderWay(q, b) => req'[q] = req[q]
    BY <1>1, <1>3, <1>6 DEF UnderWay
  <2> QED BY <1>4, <1>6, <2>1, <2>2, OthersKeepOrder DEF OrderInv
<1>7. ASSUME a \notin disturbed
      PROVE  Orderly(a)'
  <2>1. \A q \in Request : UnderWay(q, a) => q = r
    BY <1>2, <1>7 DEF OrderInv, Orderly
  <2>2. UnderWay(r, a)'
    BY <1>2, <1>4
  <2>3. \A q \in Request : UnderWay(q, a)' => q = r
    BY <1>4, <2>1
  <2>4. new # Null => Newest(req[r].newRt)'
    BY <1>3 DEF Newest
  <2> QED BY <1>1, <1>3, <1>7, <2>2, <2>3, <2>4 DEF Orderly
<1> QED BY <1>1, <1>5, <1>6, <1>7 DEF OrderInv

\* A step that leaves requests and parents alone and adds nothing to a jar.
LEMMA QuietKeepsOrder ==
  ASSUME IInv, OrderInv, UNCHANGED <<req, disturbed>>, HandsOver(Null),
         \A b \in Browser : jar'[b].rt \in {Null, jar[b].rt}
  PROVE  OrderInv'
<1>1. \A r \in Request, b \in Browser : UnderWay(r, b)' <=> UnderWay(r, b)
  BY DEF UnderWay
<1>2. NothingShared'
  <2>1. \A b \in Browser, t \in Token : Has(b, t)' => Has(b, t)
    BY <1>1, SessionRegistryAssumption DEF Has
  <2> QED BY <2>1 DEF OrderInv, NothingShared
<1>3. ASSUME NEW b \in Browser \ disturbed
      PROVE  Orderly(b)'
  BY <1>3, OthersKeepOrder, SessionRegistryAssumption DEF OrderInv
<1> QED BY <1>2, <1>3 DEF OrderInv

\* A request of browser a comes to its end, or is given up with the browser
\* disturbed; the jar of a gets the token of the answer, or drops its own.
LEMMA EndKeepsOrder ==
  ASSUME IInv, OrderInv, NEW r \in Request, NEW a \in Browser, UnderWay(r, a),
         req' = [req EXCEPT ![r] = Idle],
         \A b \in Browser \ {a} : jar'[b] = jar[b],
         jar'[a].rt \in {Null, jar[a].rt}
           \/ (req[r].phase = "answered" /\ jar'[a].rt = req[r].newRt),
         disturbed \subseteq disturbed',
         a \notin disturbed' =>
           req[r].phase = "answered" /\ jar'[a].rt \in {Null, req[r].newRt},
         NEW old \in {Null, req[r].cookies.rt}, HandsOver(old),
         a \notin disturbed' => old = Null
  PROVE  OrderInv'
<1>1. /\ ~(\E b \in Browser : UnderWay(r, b)')
      /\ \A q \in Request \ {r} : req'[q] = req[q]
  BY DEF IInv, TypeOK, Idle, UnderWay
<1>2. NothingShared'
  <2>1. ASSUME NEW b \in Browser, NEW t \in Token, Has(b, t)'
        PROVE  Has(b, t)
    <3>1. t # Null
      BY SessionRegistryAssumption
    <3>2. jar'[b].rt = t => Has(b, t)
      BY <3>1 DEF Has
    <3>3. \A q \in Request : UnderWay(q, b)' => UnderWay(q, b) /\ req'[q] = req[q]
      BY <1>1 DEF UnderWay
    <3> QED BY <2>1, <3>2, <3>3 DEF Has
  <2> QED BY <2>1 DEF OrderInv, NothingShared
<1>3. ASSUME NEW b \in Browser \ disturbed', b # a
      PROVE  Orderly(b)'
  <2>1. old \in Token => ~Has(b, old)
    BY <1>3, SessionRegistryAssumption DEF OrderInv, NothingShared, Has
  <2>2. \A q \in Request : UnderWay(q, b) \/ UnderWay(q, b)' => req'[q] = req[q]
    BY <1>1, <1>3 DEF UnderWay
  <2> QED BY <1>3, <2>1, <2>2, OthersKeepOrder DEF OrderInv
<1>4. ASSUME a \notin disturbed'
      PROVE  Orderly(a)'
  <2>1. Orderly(a)
    BY <1>4 DEF OrderInv
  <2>2. \A q \in Request : ~UnderWay(q, a)'
    BY <1>1, <2>1 DEF Orderly, UnderWay
  <2>3. jar'[a].rt # Null => Newest(jar[a].rt)'
    BY <1>4, <2>1 DEF Orderly, HandsOver, Newest
  <2> QED BY <2>2, <2>3 DEF Orderly
<1> QED BY <1>2, <1>3, <1>4 DEF OrderInv

LEMMA OrderPreserved ==
  ASSUME IInv, NeverForks, OrderInv, [Next]_vars
  PROVE  OrderInv'
<1>1. TypeOK /\ RegistryTypeOK /\ RegistryInv
  BY DEF IInv, TypeOK, RegistryInv
<1>2. rt' = rt => HandsOver(Null)
  BY DEF HandsOver
<1>3. ASSUME NEW b \in Browser,
             CookieExpires(b) \/ \E u \in User : OidcCallback(b, u)
      PROVE  OrderInv'
  <2>1. \A a \in Browser : jar'[a].rt \in {Null, jar[a].rt}
    BY <1>1, <1>3 DEF CookieExpires, OidcCallback, TypeOK, Cookies
  <2>2. req' = req /\ rt' = rt /\ disturbed' = disturbed
    BY <1>3 DEF CookieExpires, OidcCallback, registryVars
  <2> QED BY <1>2, <2>1, <2>2, QuietKeepsOrder
<1>4. ASSUME NEW r \in Request, NEW b \in Browser,
             NEW kind \in {"refresh", "logout"}, Send(r, b, kind)
      PROVE  OrderInv'
  <2>1. /\ req[r].phase = "idle"
        /\ rt' = rt /\ jar' = jar
        /\ disturbed \subseteq disturbed' /\ disturbed' \subseteq disturbed \cup {b}
        /\ b \notin disturbed' => \A q \in Request : ~UnderWay(q, b)
    BY <1>4 DEF Send, Disturb, registryVars
  <2>2. /\ req'[r] = [phase |-> "sent", kind |-> kind, browser |-> b,
                      cookies |-> jar[b], reply |-> Null, newRt |-> Null]
        /\ \A q \in Request \ {r} : req'[q] = req[q]
    BY <1>1, <1>4 DEF Send, TypeOK
  <2>3. \A q \in Request \ {r}, a \in Browser :
          UnderWay(q, a)' <=> UnderWay(q, a)
    BY <2>2 DEF UnderWay
  <2>4. \A a \in Browser : ~UnderWay(r, a) /\ (UnderWay(r, a)' <=> a = b)
    BY <2>1, <2>2 DEF UnderWay
  <2>5. NothingShared'
    <3>1. ASSUME NEW a \in Browser, NEW t \in Token, Has(a, t)'
          PROVE  Has(a, t)
      <4>1. CASE jar[a].rt = t
        BY <4>1 DEF Has
      <4>2. CASE jar[a].rt # t
        <5>1. PICK q \in Request :
                /\ UnderWay(q, a)'
                /\ \/ req'[q].cookies.rt = t
                   \/ req'[q].phase = "answered" /\ req'[q].newRt = t
          BY <2>1, <3>1, <4>2 DEF Has
        <5>2. q # r
          BY <2>2, <2>4, <4>2, <5>1
        <5> QED BY <2>2, <2>3, <5>1, <5>2 DEF Has
      <4> QED BY <4>1, <4>2
    <3> QED BY <3>1 DEF OrderInv, NothingShared
  <2>6. \A t : Newest(t)' <=> Newest(t)
    BY <2>1 DEF Newest
  <2>7. ASSUME NEW a \in Browser \ disturbed', a # b
        PROVE  Orderly(a)'
    <3>1. HandsOver(Null)
      BY <1>2, <2>1
    <3>2. \A q \in Request : UnderWay(q, a) \/ UnderWay(q, a)' => req'[q] = req[q]
      BY <2>2, <2>4, <2>7
    <3> QED
      BY <2>1, <2>7, <3>1, <3>2, OthersKeepOrder, SessionRegistryAssumption
      DEF OrderInv
  <2>8. ASSUME b \notin disturbed'
        PROVE  Orderly(b)'
    <3>1. \A q \in Request : UnderWay(q, b)' <=> q = r
      BY <2>1, <2>3, <2>4, <2>8
    <3>2. jar[b].rt # Null => Newest(jar[b].rt)
      BY <2>1, <2>8 DEF OrderInv, Orderly
    <3> QED BY <2>1, <2>2, <2>6, <3>1, <3>2 DEF Orderly
  <2> QED BY <2>5, <2>7, <2>8 DEF OrderInv
<1>5. ASSUME NEW r \in Request, RefreshRotates(r)
      PROVE  OrderInv'
  <2> DEFINE old == req[r].cookies.rt
  <2>1. PICK new \in Token : Rotate(old, new) /\ Answer(r, "OK", new)
    BY <1>5 DEF RefreshRotates
  <2>2. /\ old \in Token /\ req[r].phase = "sent"
        /\ jar' = jar /\ disturbed' = disturbed
    BY <1>5, CookiesSent DEF RefreshRotates, Arrived
  <2>3. HandsOver(old) /\ Newest(new)'
    BY <1>1, <2>1, <2>2, RotateHandsOver
  <2>4. rt[new] = Null
    BY <2>1 DEF Rotate, PutRotated
  <2> QED BY <2>1, <2>2, <2>3, <2>4, AnswerKeepsOrder
<1>6. ASSUME NEW r \in Request, RefreshRefused(r)
      PROVE  OrderInv'
  <2> DEFINE reply == RotateRefusal(req[r].cookies.rt)
  <2>1. /\ Answer(r, reply, Null) /\ req[r].phase = "sent"
        /\ req[r].cookies.rt # Null /\ jar' = jar /\ rt' = rt
        /\ disturbed' = disturbed
    BY <1>6 DEF RefreshRefused, Arrived, registryVars
  <2>2. req[r].browser \notin disturbed => Newest(req[r].cookies.rt)'
    <3>1. req[r].browser \notin disturbed => Newest(req[r].cookies.rt)
      BY <2>1 DEF OrderInv, Orderly, IInv, RequestSound, UnderWay
    <3>2. req'[r].cookies = req[r].cookies
      BY <1>1, <2>1, AnswerKeeps
    <3> QED BY <2>1, <3>1, <3>2 DEF Newest
  <2>3. HandsOver(Null)
    BY <1>2, <2>1
  <2> HIDE DEF reply
  <2> QED BY <2>1, <2>2, <2>3, AnswerKeepsOrder
<1>7. ASSUME NEW r \in Request, RefreshIssues(r)
      PROVE  OrderInv'
  <2>1. PICK new \in Token : /\ Issue(new, req[r].cookies.boot)
                             /\ Answer(r, "OK", new)
    BY <1>7 DEF RefreshIssues
  <2>2. /\ req[r].cookies.boot \in User /\ req[r].phase = "sent"
        /\ jar' = jar /\ disturbed' = disturbed
    BY <1>7, CookiesSent DEF RefreshIssues, Arrived
  <2>3. HandsOver(Null) /\ Newest(new)'
    BY <1>1, <2>1, <2>2, IssueHandsOver
  <2>4. rt[new] = Null
    BY <2>1 DEF Issue, PutIssued
  <2> QED BY <2>1, <2>2, <2>3, <2>4, AnswerKeepsOrder
<1>8. ASSUME NEW r \in Request, LogoutRevokes(r)
      PROVE  OrderInv'
  <2>1. /\ Answer(r, "OK", Null) /\ req[r].phase = "sent"
        /\ jar' = jar /\ disturbed' = disturbed
    BY <1>8 DEF LogoutRevokes, Arrived
  <2>2. req[r].cookies.rt \in Token \cup {Null}
    BY <2>1, CookiesSent
  <2>3. HandsOver(Null)
    BY <1>1, <1>2, <1>8, <2>2, RevokeHandsOver DEF LogoutRevokes, registryVars
  <2> QED BY <2>1, <2>3, AnswerKeepsOrder
<1>9. ASSUME NEW r \in Request, Deliver(r)
      PROVE  OrderInv'
  <2> DEFINE b == req[r].browser
  <2>1. req[r].phase = "answered" /\ rt' = rt /\ disturbed' = disturbed
    BY <1>9 DEF Deliver, registryVars
  <2>2. b \in Browser /\ UnderWay(r, b) /\ req' = [req EXCEPT ![r] = Idle]
    BY <1>9, <2>1 DEF Deliver, IInv, RequestSound, UnderWay
  <2>3. jar'[b].rt \in {Null, req[r].newRt}
    BY <1>1, <1>9, <2>2 DEF Deliver, SetCookies, NoCookies, TypeOK, Cookies
  <2>4. \A a \in Browser \ {b} : jar'[a] = jar[a]
    BY <1>1, <1>9 DEF Deliver, TypeOK
  <2> QED BY <1>2, <2>1, <2>2, <2>3, <2>4, EndKeepsOrder
<1>10. ASSUME NEW r \in Request, Lose(r) \/ CallCut(r)
       PROVE  OrderInv'
  <2> DEFINE b == req[r].browser
  <2>1. /\ req[r].phase # "idle" /\ jar' = jar
        /\ req' = [req EXCEPT ![r] = Idle]
        /\ disturbed' = disturbed \cup {b}
    BY <1>10 DEF Lose, CallCut, Disturb
  <2>2. b \in Browser /\ UnderWay(r, b)
    BY <2>1 DEF IInv, RequestSound, UnderWay
  <2>3. \E old \in {Null, req[r].cookies.rt} : HandsOver(old)
    BY <1>1, <1>2, <1>10, CutHandsOver
  <2> QED BY <2>1, <2>2, <2>3, EndKeepsOrder
<1>11. ASSUME NEW u \in User, Administer(u)
       PROVE  OrderInv'
  <2>1. /\ RevokeAll(u) \/ RevokeAllCut(u)
        /\ req' = req /\ jar' = jar /\ disturbed' = disturbed
    BY <1>11 DEF Administer
  <2> QED BY <1>1, <2>1, RevokeHandsOver, QuietKeepsOrder
<1>12. CASE Clock \/ UNCHANGED vars
  <2>1. req' = req /\ jar' = jar /\ rt' = rt /\ disturbed' = disturbed
    BY <1>12 DEF Clock, Tick, vars
  <2> QED BY <1>2, <2>1, QuietKeepsOrder
<1> QED
  BY <1>3, <1>4, <1>5, <1>6, <1>7, <1>8, <1>9, <1>10, <1>11, <1>12 DEF Next

(* Theorems                                                                 *)

LEMMA Initially == Init => IInv /\ RegistryInit
<1> SUFFICES ASSUME Init PROVE IInv /\ RegistryInit
  OBVIOUS
<1>1. RegistryTypeOK /\ RegistryInit
  BY RegistryInvInitially DEF Init, RegistryInv
<1>2. TypeOK
  BY <1>1, IdleTyped, AuthSessionsAssumption DEF Init, TypeOK
<1>3. HeldIndexed
  BY SessionRegistryAssumption DEF Init, HeldIndexed, Held, Idle, NoCookies
<1>4. RequestSound
  BY DEF Init, RequestSound, Idle
<1> QED BY <1>1, <1>2, <1>3, <1>4 DEF IInv

\* Types, HeldIndexed and RequestSound hold in every reachable state.
THEOREM InductiveInvariant == Spec => []IInv
<1>1. IInv /\ [Next]_vars => IInv'
  BY TypePreserved, HeldPreserved, RequestPreserved DEF IInv
<1> QED BY <1>1, Initially, PTL DEF Spec

\* Type correctness of browsers, requests and registry.
THEOREM TypeCorrect == Spec => []TypeOK
<1>1. IInv => TypeOK
  BY DEF IInv
<1> QED BY <1>1, InductiveInvariant, PTL

\* Whatever browsers do and whatever gets lost, the registry sees a behaviour
\* of its own specification, so a session never forks.
THEOREM RegistryInside == Spec => RegistrySpec
<1>1. IInv /\ [Next]_vars => [RegistryNext]_registryVars
  BY StepIsRegistryStep
<1> QED BY <1>1, Initially, InductiveInvariant, PTL DEF Spec, RegistrySpec

\* NeverForks of the composed system.
THEOREM SessionsNeverForkInside == Spec => []NeverForks
BY RegistryInside, SessionsNeverFork, PTL

\* The composed system implements SessionLifecycle.
THEOREM LifecycleInside == Spec => KeepsLifecycle
BY RegistryInside, RegistryKeepsLifecycle, PTL

\* revokeAll kills every token a browser holds or is about to be given.
THEOREM RevokeAllReachesEverySession == Spec => RevokeAllReaches
<1>1. ASSUME IInv, NEW u \in User, NEW t \in Token, RevokeAll(u),
             t \in Held, rt[t].user = u
      PROVE  ~Live(t)'
  <2>1. rt[t] # Null /\ RegistryTypeOK
    BY <1>1 DEF IInv, HeldIndexed, TypeOK
  <2>2. PICK i \in 1..Len(userSessions[u]) : userSessions[u][i] = t
    BY <1>1 DEF IInv, HeldIndexed
  <2>3. CASE rt[t].revokedAt = Null
    <3>1. rt'[t] = Revoked(t)
      BY <1>1, <2>1, <2>2, <2>3 DEF RevokeAll, RevokeFirst
    <3> QED BY <2>1, <3>1, RevokedRecord DEF Live
  <2>4. CASE rt[t].revokedAt # Null
    <3>1. rt'[t] = rt[t]
      BY <1>1, <2>4 DEF RevokeAll, RevokeFirst
    <3> QED BY <2>4, <3>1 DEF Live
  <2> QED BY <2>3, <2>4
<1>2. IInv => [\A u \in User, t \in Token :
                 RevokeAll(u) /\ t \in Held /\ rt[t].user = u
                   => ~Live(t)']_vars
  BY <1>1
<1> QED BY <1>2, InductiveInvariant, PTL DEF RevokeAllReaches

\* When the answer to a logout arrives, the token it was sent with is dead.
THEOREM LogoutEndsTheToken == Spec => LogoutEndsToken
<1>1. ASSUME IInv, NEW r \in Request, NEW t \in Token,
             req[r].phase = "answered", req[r].kind = "logout",
             req[r].cookies.rt = t, Deliver(r)
      PROVE  ~Live(t)'
  <2>1. ~Live(t)
    BY <1>1 DEF IInv, RequestSound
  <2> QED BY <1>1, <2>1 DEF Deliver, Live, registryVars
<1>2. IInv => [\A r \in Request, t \in Token :
                 /\ req[r].phase = "answered"
                 /\ req[r].kind = "logout"
                 /\ req[r].cookies.rt = t
                 /\ Deliver(r)
                 => ~Live(t)']_vars
  BY <1>1
<1> QED BY <1>2, InductiveInvariant, PTL DEF LogoutEndsToken

\* A browser that has one request under way at a time and loses none is refused
\* as revoked only when its session was ended, never because a token was handed
\* over: what it sends is the last token of its session, whatever other
\* browsers do and wherever the registry crashes (auth.worker.mjs, case A).
THEOREM NobodyThrownOut == Spec => []RefusedOnlyWhenEnded
<1>1. Init => OrderInv
  BY SessionRegistryAssumption
  DEF Init, OrderInv, NothingShared, Orderly, Has, UnderWay, Idle, NoCookies
<1>2. IInv /\ NeverForks /\ OrderInv /\ [Next]_vars => OrderInv'
  BY OrderPreserved
<1>3. IInv /\ OrderInv => RefusedOnlyWhenEnded
  BY DEF IInv, RequestSound, OrderInv, Orderly, UnderWay, RefusedOnlyWhenEnded,
         Newest
<1> QED BY <1>1, <1>2, <1>3, InductiveInvariant, SessionsNeverForkInside, PTL DEF Spec
=============================================================================
