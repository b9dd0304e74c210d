------------------------------- MODULE Gateway -------------------------------
(***************************************************************************)
(* The worker's entry (worker/handleFetch.mjs): sessions from tokens        *)
(* (auth/session.worker.mjs, auth/token.worker.mjs), rate limits, and the   *)
(* routes that read or write a tenant's documents.                          *)
(*                                                                          *)
(* Each isolate keeps its own counts, which end with it, and has its own    *)
(* clock.  A request waits while its token is verified, but reads nothing   *)
(* there that changes, and does not wait from there to its count: it is one *)
(* step.  Login, callback, refresh and logout go to AuthSessions before a   *)
(* session is asked for.                                                    *)
(***************************************************************************)
EXTENDS Integers

CONSTANTS
  Isolate,
  Tenant, Ip,
  Reading,      \* paths that only read a document: inventory, notifications
  Token,        \* what clients send for a token
  Config,       \* the bindings a deployment may have
  Limit,        \* RL_LIMITS
  MaxWindow,    \* windows an isolate lives through
  MaxRequests,
  Null

Class == {"infra", "read", "write"}

VARIABLES
  config,    \* the bindings: a KV store, a secret, whether dev tokens pass
  now,       \* each isolate's window of its clock
  rl,        \* __RL
  granted,   \* what each isolate let pass under a key in its window
  served,    \* how many requests came
  answer     \* the last answer

vars == <<config, now, rl, granted, served, answer>>

Infra     == {"/", "/__build", "/__meta", "/__health"}
AuthEntry == {"login", "callback", "refresh", "logout"}

\* /api/alerts, /api/alerts/rules, .../rules/dev-low-stock and .../dev/evaluate
Alerts == {"alerts", "rules", "dev-low-stock", "dev-evaluate"}

Path == Infra \cup AuthEntry \cup Reading \cup Alerts \cup {"me", "unknown", "elsewhere"}

\* A bearer token of the first or the second version, signed by nobody, or the
\* name of a tenant for development; "level" is the authLevel a signed token
\* gives, "query" the tenant the query names.
Kind == {"none", "v1", "v2", "forged", "dev"}

AnyOf == [kind : Kind, tenant : Tenant, live : BOOLEAN, level : {"user", "dev"},
          query : Tenant \cup {Null}]

Bindings == [kv : BOOLEAN, secret : BOOLEAN, dev : BOOLEAN]

GatewayAssumption ==
  /\ Token \subseteq AnyOf /\ Config \subseteq Bindings
  /\ Limit \in [Class -> Nat \ {0}]
  /\ MaxWindow \in Nat /\ MaxRequests \in Nat
  /\ Null \notin Tenant \cup Ip \cup [window : Nat, count : Nat]

RateKey == ({"infra"} \X Ip) \cup ({"read", "write"} \X Tenant)

Status == {0, 200, 201, 204, 400, 401, 403, 404, 405, 429, 500, 503}

\* "auth" says that the answer is AuthSessions', "doc" whose document it shows
\* or, with 201, has changed.
Answer == [status : Status, auth : BOOLEAN, token : Token \cup {Null},
           doc : Tenant \cup {Null}, isolate : Isolate \cup {Null},
           key : RateKey \cup {Null}]

TypeOK ==
  /\ config \in Config
  /\ now \in [Isolate -> 0..MaxWindow]
  /\ rl \in [Isolate -> [RateKey -> [window : 0..MaxWindow, count : Nat] \cup {Null}]]
  /\ granted \in [Isolate -> [RateKey -> Nat]]
  /\ served \in 0..MaxRequests
  /\ answer \in Answer

NoAnswer == [status |-> 0, auth |-> FALSE, token |-> Null, doc |-> Null,
             isolate |-> Null, key |-> Null]

Uncounted == [k \in RateKey |-> Null]
NoneGranted == [k \in RateKey |-> 0]

Init ==
  /\ config \in Config
  /\ now = [i \in Isolate |-> 0]
  /\ rl = [i \in Isolate |-> Uncounted]
  /\ granted = [i \in Isolate |-> NoneGranted]
  /\ served = 0
  /\ answer = NoAnswer

-----------------------------------------------------------------------------
(* Sessions.                                                               *)

\* verifySessionToken: signed with the secret, of version 1, not expired.
VerifySessionToken(token) == config.secret /\ token.kind = "v1" /\ token.live

\* resolveSessionFromHeaders: the tenant of the session, if there is one.  The
\* query counts only for a request without a bearer token.
ResolveSession(token) ==
  IF token.kind = "none" THEN IF config.dev THEN token.query ELSE Null
  ELSE IF VerifySessionToken(token) \/ (token.kind = "dev" /\ config.dev)
       THEN token.tenant ELSE Null

\* isDev, of a token that gives a session.
IsDev(token) == token.kind = "v1" => token.level = "dev"

-----------------------------------------------------------------------------
(* Rate limits.                                                            *)

\* Mutant: the window is not compared.
SameForever(i, key) == rl[i][key] # Null

\* The entry of the key is of the window the isolate is in.
Current(i, key) == rl[i][key] # Null /\ rl[i][key].window = now[i]

Count(i, key) == IF Current(i, key) THEN rl[i][key].count + 1 ELSE 1

Passes(i, key) == ~Current(i, key) \/ Count(i, key) <= Limit[key[1]]

\* rateLimitCheck: a refused request is counted as well.
RateLimitCheck(i, key) ==
  /\ rl' = [rl EXCEPT ![i][key] = [window |-> now[i], count |-> Count(i, key)]]
  /\ granted' = IF Passes(i, key) THEN [granted EXCEPT ![i][key] = @ + 1] ELSE granted

Unlimited == UNCHANGED <<rl, granted>>

-----------------------------------------------------------------------------
Arrives == served < MaxRequests /\ served' = served + 1

Says(status) == answer' = [NoAnswer EXCEPT !.status = status]

Refuses(i, key) ==
  answer' = [NoAnswer EXCEPT !.status = 429, !.isolate = i, !.key = key]

Still == UNCHANGED <<config, now>>

\* OPTIONS are answered before anything else.
Preflight ==
  \E elsewhere \in BOOLEAN :
    /\ Arrives /\ Still /\ Unlimited
    /\ Says(IF elsewhere THEN 404 ELSE 204)

\* The public routes: limited by address, without a session.
PublicInfra(i, ip, method) ==
  /\ Arrives /\ Still
  /\ \/ method = "POST" /\ Unlimited /\ Says(405)
     \/ /\ method = "GET"
        /\ RateLimitCheck(i, <<"infra", ip>>)
        /\ IF Passes(i, <<"infra", ip>>) THEN Says(200) ELSE Refuses(i, <<"infra", ip>>)

\* Login and callback are GET, refresh and logout POST.
AuthRoute(path, method) ==
  /\ Arrives /\ Still /\ Unlimited
  /\ IF (path \in {"login", "callback"}) = (method = "GET")
     THEN answer' = [NoAnswer EXCEPT !.auth = TRUE]
     ELSE Says(405)

\* A request of another path, with the tenant of its session.
Asked(i, path, method, token) ==
  [isolate |-> i, path |-> path, method |-> method, token |-> token,
   tenant |-> ResolveSession(token)]

KeyOf(f) == <<IF f.method = "GET" THEN "read" ELSE "write", f.tenant>>

\* Requests without a session, and of paths that are not of the API, are not
\* counted.
Limited(f) == f.path # "elsewhere" /\ f.tenant # Null

Counts(f) == IF Limited(f) THEN RateLimitCheck(f.isolate, KeyOf(f)) ELSE Unlimited

LetsPass(f) == Limited(f) => Passes(f.isolate, KeyOf(f))

\* A rule is added by POST of rules, or in development by a link.
Writes(f) == \/ f.path = "rules" /\ f.method = "POST"
             \/ f.path = "dev-low-stock" /\ f.method = "GET"

DevOnly(f) == Writes(f) \/ f.path = "dev-evaluate"

GetOnly(f) == f.path \in Reading \/ f.path \in {"alerts", "dev-low-stock", "dev-evaluate"}

\* Where a request goes that the limit lets pass; 200 is "me", an evaluation
\* that is scheduled, or a document.
RouteStatus(f) ==
  IF f.path = "me" /\ f.method # "GET" THEN 405
  ELSE IF f.path # "elsewhere" /\ f.tenant = Null THEN 401
  ELSE IF GetOnly(f) /\ f.method # "GET" THEN 405
  ELSE IF DevOnly(f) /\ ~IsDev(f.token) THEN 403
  ELSE IF f.path \in {"unknown", "elsewhere"} THEN 404 ELSE 200

\* The request is let to a document.
Opens(f) ==
  /\ f.path \notin {"me", "dev-evaluate"} /\ RouteStatus(f) = 200
  /\ LetsPass(f)

Ends(f, status, doc) ==
  /\ Still /\ Counts(f)
  /\ IF status = 429 THEN Refuses(f.isolate, KeyOf(f))
     ELSE answer' = [NoAnswer EXCEPT !.status = status, !.doc = doc,
                                     !.token = IF doc = Null THEN Null ELSE f.token]

\* tooManyRequests
TooMany(f) == ~LetsPass(f) /\ Ends(f, 429, Null)

\* An answer that needs no document.
Decide(f) == LetsPass(f) /\ ~Opens(f) /\ Ends(f, RouteStatus(f), Null)

\* The filter of a list is no status, or the rule is not valid.
Malformed(f) ==
  /\ f.path = "alerts" \/ Writes(f)
  /\ Opens(f)
  /\ Ends(f, 400, Null)

\* Without a store the answer is mapExceptionToHttp's, or safeLoad's and
\* safeSave's, as it is when the store fails.
StoreFails(f) ==
  /\ Opens(f)
  /\ Ends(f, IF config.kv THEN 500 ELSE 503, Null)

\* The document of the session's tenant is read, or gets a rule.
UseDocument(f) ==
  /\ Opens(f) /\ config.kv
  /\ Ends(f, IF Writes(f) THEN 201 ELSE 200, f.tenant)

Tick(i) ==
  /\ now[i] < MaxWindow
  /\ now' = [now EXCEPT ![i] = @ + 1]
  /\ granted' = [granted EXCEPT ![i] = NoneGranted]
  /\ answer' = NoAnswer
  /\ UNCHANGED <<config, rl, served>>

\* The isolate is stopped; another takes its place, with its clock.
Evicted(i) ==
  /\ rl[i] # Uncounted
  /\ rl' = [rl EXCEPT ![i] = Uncounted]
  /\ granted' = [granted EXCEPT ![i] = NoneGranted]
  /\ answer' = NoAnswer
  /\ UNCHANGED <<config, now, served>>

Next ==
  \/ Preflight
  \/ \E i \in Isolate, ip \in Ip, method \in {"GET", "POST"} : PublicInfra(i, ip, method)
  \/ \E path \in AuthEntry, method \in {"GET", "POST"} : AuthRoute(path, method)
  \/ /\ Arrives
     /\ \E i \in Isolate, path \in (Path \ Infra) \ AuthEntry,
           method \in {"GET", "POST"}, token \in Token :
          LET f == Asked(i, path, method, token)
          IN  TooMany(f) \/ Decide(f) \/ Malformed(f) \/ StoreFails(f) \/ UseDocument(f)
  \/ \E i \in Isolate : Tick(i) \/ Evicted(i)

Spec == Init /\ [][Next]_vars

-----------------------------------------------------------------------------
\* In one window an isolate lets at most the limit of a key pass, however the
\* requests overlap and whichever were refused before (rateLimitCheck).
WithinLimit == \A i \in Isolate, k \in RateKey : granted[i][k] <= Limit[k[1]]

\* A request is refused only when its isolate let the whole limit of its key
\* pass in this window: requests of other tenants, of another class, of former
\* windows and the ones refused do not take it away.
RefusedWhenFull ==
  answer.status = 429 => granted[answer.isolate][answer.key] = Limit[answer.key[1]]

\* What is read or written is a document of the tenant the token names, and the
\* token is one of version 1 that was verified, or a development one where these
\* pass: an access token of version 2, as login gives, opens nothing, and a token
\* that is refused does not let the query name a tenant.  A rule is written only
\* in a development session.
ReadsOwnDocuments ==
  answer.doc # Null =>
    LET token == answer.token
    IN  /\ \/ /\ token.kind = "v1" /\ token.live /\ config.secret
              /\ answer.doc = token.tenant
           \/ token.kind = "dev" /\ config.dev /\ answer.doc = token.tenant
           \/ token.kind = "none" /\ config.dev /\ answer.doc = token.query
        /\ answer.status = 201 => IsDev(token)
=============================================================================
