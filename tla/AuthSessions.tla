----------------------------- MODULE AuthSessions ----------------------------
(***************************************************************************)
(* Browsers, the refresh and logout handlers of the worker                 *)
(* (worker/auth.worker.mjs) and the session registry they call.            *)
(*                                                                         *)
(* A browser has one cookie jar for all of its tabs and sends a request    *)
(* with the cookies it has at that moment; the handler calls the registry; *)
(* the response changes the jar when it arrives.  Requests of one browser  *)
(* overlap, and with Lossy requests and responses get lost and the         *)
(* registry crashes.                                                       *)
(***************************************************************************)
EXTENDS SessionRegistry, FiniteSets

CONSTANTS
  Browser,
  Request,    \* requests that may be under way at the same time
  MaxLogins,  \* how often the identity provider sends a user back
  Lossy       \* whether messages get lost and the registry crashes

Reply == {"OK", "REFRESH_NOT_FOUND", "REFRESH_REVOKED", "REFRESH_EXPIRED"}

ASSUME AuthSessionsAssumption ==
  /\ MaxLogins \in Nat
  /\ Lossy \in BOOLEAN
  /\ Null \notin Reply

VARIABLES
  jar,     \* Browser -> its cookies __asora_rt and __asora_boot
  req,     \* Request -> the progress of a request
  logins,  \* User -> how many bootstrap cookies were set for the user
  disturbed  \* the browsers that had two requests under way at once or lost
             \* one: kept for the properties, no code reads it

vars == <<now, rt, userSessions, jar, req, logins, disturbed>>

Cookies == [rt : Token \cup {Null}, boot : User \cup {Null}]

Req == [phase : {"idle", "sent", "answered"},
        kind : {"refresh", "logout"},
        browser : Browser \cup {Null},
        cookies : Cookies,
        reply : Reply \cup {Null},
        newRt : Token \cup {Null}]

TypeOK ==
  /\ RegistryTypeOK
  /\ jar \in [Browser -> Cookies]
  /\ req \in [Request -> Req]
  /\ logins \in [User -> 0..MaxLogins]
  /\ disturbed \subseteq Browser

NoCookies == [rt |-> Null, boot |-> Null]

Idle == [phase |-> "idle", kind |-> "refresh", browser |-> Null,
         cookies |-> NoCookies, reply |-> Null, newRt |-> Null]

Init ==
  /\ RegistryInit
  /\ jar = [b \in Browser |-> NoCookies]
  /\ req = [r \in Request |-> Idle]
  /\ logins = [u \in User |-> 0]
  /\ disturbed = {}

\* The callback of the identity provider, once its checks are passed,
\* sets the signed bootstrap cookie.  A refresh cookie that is
\* still in the jar stays there.
OidcCallback(b, u) ==
  /\ logins[u] < MaxLogins
  /\ jar' = [jar EXCEPT ![b].boot = u]
  /\ logins' = [logins EXCEPT ![u] = @ + 1]
  /\ UNCHANGED <<registryVars, req, disturbed>>

\* Cookies outlive neither the token (Max-Age is its time to live) nor the
\* two minutes of the bootstrap cookie.
CookieExpires(b) ==
  /\ \/ /\ jar[b].rt # Null
        /\ rt[jar[b].rt].expiresAt <= now
        /\ jar' = [jar EXCEPT ![b].rt = Null]
     \/ /\ jar[b].boot # Null
        /\ jar' = [jar EXCEPT ![b].boot = Null]
  /\ UNCHANGED <<registryVars, req, logins, disturbed>>

UnderWay(r, b) == req[r].phase # "idle" /\ req[r].browser = b

Disturb(b) == disturbed' = disturbed \cup {b}

\* Mutant: the refresh handler goes on without any cookie.
SendAnyway(r, b, kind) ==
  /\ req[r].phase = "idle"
  /\ req' = [req EXCEPT ![r] =
       [phase |-> "sent", kind |-> kind, browser |-> b, cookies |-> jar[b],
        reply |-> Null, newRt |-> Null]]
  /\ UNCHANGED <<registryVars, jar, logins, disturbed>>

\* A refresh without either cookie is refused (NO_REFRESH_CONTEXT) and a
\* logout without them does nothing; both are left out.
Send(r, b, kind) ==
  /\ req[r].phase = "idle"
  /\ jar[b] # NoCookies
  /\ req' = [req EXCEPT ![r] =
       [phase |-> "sent", kind |-> kind, browser |-> b, cookies |-> jar[b],
        reply |-> Null, newRt |-> Null]]
  /\ IF \E q \in Request : UnderWay(q, b) THEN Disturb(b)
     ELSE UNCHANGED disturbed
  /\ UNCHANGED <<registryVars, jar, logins>>

Arrived(r, kind) == req[r].phase = "sent" /\ req[r].kind = kind

Answer(r, reply, newRt) ==
  req' = [req EXCEPT ![r].phase = "answered", ![r].reply = reply,
                     ![r].newRt = newRt]

\* Case A of authRefreshFetch: there is a refresh cookie, so it is rotated,
\* whether or not there is a bootstrap cookie too.
RefreshRotates(r) ==
  LET old == req[r].cookies.rt IN
  /\ Arrived(r, "refresh")
  /\ old # Null
  /\ \E new \in Token : Rotate(old, new) /\ Answer(r, "OK", new)
  /\ UNCHANGED <<jar, logins, disturbed>>

RefreshRefused(r) ==
  LET old == req[r].cookies.rt IN
  /\ Arrived(r, "refresh")
  /\ old # Null
  /\ RotateRefusal(old) # "NONE"
  /\ Answer(r, RotateRefusal(old), Null)
  /\ UNCHANGED <<registryVars, jar, logins, disturbed>>

\* Case B: only the bootstrap cookie, whose signature holds.
RefreshIssues(r) ==
  /\ Arrived(r, "refresh")
  /\ req[r].cookies.rt = Null
  /\ \E new \in Token : /\ Issue(new, req[r].cookies.boot)
                        /\ Answer(r, "OK", new)
  /\ UNCHANGED <<jar, logins, disturbed>>

\* authLogoutFetch revokes the refresh token the browser sent, if any.
LogoutRevokes(r) ==
  /\ Arrived(r, "logout")
  /\ IF req[r].cookies.rt # Null THEN Revoke(req[r].cookies.rt)
     ELSE UNCHANGED registryVars
  /\ Answer(r, "OK", Null)
  /\ UNCHANGED <<jar, logins, disturbed>>

\* Mutant: the response of a rotation does not set the refresh cookie.
CookieNotReplaced(r) ==
  LET j == jar[req[r].browser] IN
  IF req[r].kind = "logout" THEN NoCookies
  ELSE IF req[r].cookies.rt # Null THEN j
  ELSE [rt |-> req[r].newRt, boot |-> Null]

\* The jar after the Set-Cookie headers of the response.  A refused rotation
\* expires the refresh cookie, whatever token the jar holds by now.
SetCookies(r) ==
  LET j == jar[req[r].browser] IN
  IF req[r].kind = "logout" THEN NoCookies
  ELSE IF req[r].cookies.rt # Null THEN [j EXCEPT !.rt = req[r].newRt]
  ELSE [rt |-> req[r].newRt, boot |-> Null]

Deliver(r) ==
  /\ req[r].phase = "answered"
  /\ jar' = [jar EXCEPT ![req[r].browser] = SetCookies(r)]
  /\ req' = [req EXCEPT ![r] = Idle]
  /\ UNCHANGED <<registryVars, logins, disturbed>>

\* The request or its response gets lost; the jar keeps what it has.
Lose(r) ==
  /\ Lossy
  /\ req[r].phase # "idle"
  /\ req' = [req EXCEPT ![r] = Idle]
  /\ Disturb(req[r].browser)
  /\ UNCHANGED <<registryVars, jar, logins>>

\* The registry crashes in the call; the handler throws and handleFetch
\* answers 500 without a cookie.
CallCut(r) ==
  /\ Lossy
  /\ req[r].phase = "sent"
  /\ LET sent == req[r].cookies IN
     CASE req[r].kind = "logout" -> sent.rt # Null /\ Revoke(sent.rt)
       [] sent.rt # Null -> \E new \in Token : RotateCut(sent.rt, new)
       [] OTHER -> \E new \in Token : IssueCut(new, sent.boot)
  /\ req' = [req EXCEPT ![r] = Idle]
  /\ Disturb(req[r].browser)
  /\ UNCHANGED <<jar, logins>>

\* /revokeAll has no caller in the worker; whoever holds the internal key
\* may use it at any time.
Administer(u) ==
  /\ RevokeAll(u) \/ (Lossy /\ RevokeAllCut(u))
  /\ UNCHANGED <<jar, req, logins, disturbed>>

Clock == Tick /\ UNCHANGED <<jar, req, logins, disturbed>>

Next ==
  \/ \E b \in Browser, u \in User : OidcCallback(b, u)
  \/ \E b \in Browser : CookieExpires(b)
  \/ \E r \in Request, b \in Browser, kind \in {"refresh", "logout"} :
       Send(r, b, kind)
  \/ \E r \in Request :
       \/ RefreshRotates(r)
       \/ RefreshRefused(r)
       \/ RefreshIssues(r)
       \/ LogoutRevokes(r)
       \/ Deliver(r)
       \/ Lose(r)
       \/ CallCut(r)
  \/ \E u \in User : Administer(u)
  \/ Clock

Spec == Init /\ [][Next]_vars
-----------------------------------------------------------------------------
\* The refresh tokens browsers hold or are about to be given.
Held == {jar[b].rt : b \in Browser}
          \cup {req[r].newRt : r \in {q \in Request : req[q].phase = "answered"}}

\* revokeAll reaches every session of the user: whatever rotations came
\* before, and wherever the registry crashed, no token that a browser holds
\* or that is on its way to one is live afterwards.
RevokeAllReaches ==
  [][\A u \in User, t \in Token :
       RevokeAll(u) /\ t \in Held /\ rt[t].user = u => ~Live(t)']_vars

\* The token a browser logged out with is dead when the response arrives, for
\* good, even if the same token was being rotated by another tab.
LogoutEndsToken ==
  [][\A r \in Request, t \in Token :
       /\ req[r].phase = "answered"
       /\ req[r].kind = "logout"
       /\ req[r].cookies.rt = t
       /\ Deliver(r)
       => ~Live(t)']_vars

\* A browser that has one request under way at a time and loses none is not
\* thrown out by rotations, whatever other browsers do and lose: a refusal
\* means that the token expired or that the session was ended, never that the
\* token had been handed over.
RefusedOnlyWhenEnded ==
  \A r \in Request :
    /\ req[r].phase = "answered"
    /\ req[r].reply = "REFRESH_REVOKED"
    /\ req[r].browser \notin disturbed
    => \A s \in Token : rt[s] # Null => rt[s].rotatedFrom # req[r].cookies.rt

\* "Case B: bootstrap cookie (one-time)" (auth.worker.mjs:154): a login opens
\* one session, however often its bootstrap cookie is sent.
BootstrapOneTime ==
  \A u \in User :
    Cardinality({t \in Token : /\ rt[t] # Null
                               /\ rt[t].user = u
                               /\ rt[t].rotatedFrom = Null}) <= logins[u]
-----------------------------------------------------------------------------
(* Why the properties hold, for the proofs.                                 *)

\* A token a browser holds, or is about to be given, exists and is in the
\* list revokeAll will go through: a call that was cut before it put the list
\* gave no token away.
HeldIndexed ==
  \A t \in Token : t \in Held =>
    /\ rt[t] # Null
    /\ \E i \in 1..Len(userSessions[rt[t].user]) :
         userSessions[rt[t].user][i] = t

\* A request is a browser's and carries a cookie, its token was issued, and a token that was
\* logged out is dead.
RequestSound ==
  \A r \in Request : req[r].phase # "idle" =>
    /\ req[r].browser \in Browser
    /\ req[r].cookies # NoCookies
    /\ req[r].cookies.rt # Null => rt[req[r].cookies.rt] # Null
    /\ \A t \in Token :
         /\ req[r].phase = "answered"
         /\ req[r].kind = "logout"
         /\ req[r].cookies.rt = t
         => ~Live(t)

IInv == TypeOK /\ HeldIndexed /\ RequestSound

\* A token is in the jar of the browser, or in a request or answer of its.
Has(b, t) ==
  \/ jar[b].rt = t
  \/ \E r \in Request :
       /\ UnderWay(r, b)
       /\ req[r].cookies.rt = t \/ (req[r].phase = "answered" /\ req[r].newRt = t)

NothingShared ==
  \A a, b \in Browser, t \in Token : Has(a, t) /\ Has(b, t) => a = b

\* The token was not handed over to another.
Newest(t) == \A s \in Token : rt[s] # Null => rt[s].rotatedFrom # t

\* One request at a time: what the browser holds is the last token of its
\* session, unless the answer that replaces it is on its way; what it sends is
\* the last, what an answer brings is, and a refusal concerns the last.
Orderly(b) ==
  /\ \A q, r \in Request : UnderWay(q, b) /\ UnderWay(r, b) => q = r
  /\ jar[b].rt # Null =>
       \/ Newest(jar[b].rt)
       \/ \E r \in Request : UnderWay(r, b) /\ req[r].phase = "answered"
  /\ \A r \in Request : UnderWay(r, b) =>
       /\ (req[r].phase = "sent" /\ req[r].cookies.rt # Null) =>
            Newest(req[r].cookies.rt)
       /\ (req[r].phase = "answered" /\ req[r].newRt # Null) =>
            Newest(req[r].newRt)
       /\ (req[r].phase = "answered" /\ req[r].reply = "REFRESH_REVOKED") =>
            req[r].cookies.rt # Null /\ Newest(req[r].cookies.rt)

OrderInv == NothingShared /\ \A b \in Browser \ disturbed : Orderly(b)
=============================================================================
