------------------------------- MODULE Vendors -------------------------------
(***************************************************************************)
(* Vendors, their compliance evidence and a tenant's compliance rules       *)
(* (api/vendors.js, api/compliance.js over domain/vendors/store.js), behind *)
(* the front of the Node server (server.js).  The store is in the memory of *)
(* the process, and every handler runs to its end before another starts.    *)
(*                                                                          *)
(* The routers call isVendorEligible(vendor, rules, now); its parameters    *)
(* are a tenant and a vendor id, and it looks them up in a store that is    *)
(* asynchronous.  Without rules it says FALSE.  With rules the promise it   *)
(* takes for an array has no find: the handler fails, and the promise's own *)
(* rejection, which nobody waits for, ends the process.                     *)
(***************************************************************************)
EXTENDS Integers

CONSTANTS
  Tenant,       \* tenants of sessions
  MaxVendors,   \* how many vendors may be created
  Document,     \* bodies of evidence that normalizeEvidenceInput accepts
  Complete,     \* those with every document, none of them expired
  Ruleset,      \* what normalizeRulesInput makes of bodies
  MaxRestarts,
  Null

VARIABLES
  bucket,     \* TENANT: of each tenant the vendors, the evidence and the rules
  issued,     \* how many vendor ids were made
  acked,      \* the vendors created, as <<tenant, id>>, since the process started
  restarts,
  answer      \* the last answer: which vendors were asked about and are eligible

vars == <<bucket, issued, acked, restarts, answer>>

Id == 1..MaxVendors
VendorStatus == {"ACTIVE", "INACTIVE", "SUSPENDED"}

Vendor == [status : VendorStatus, createdAt : Id]

\* A new vendor's evidence is an empty object.
NoDocuments == "{}"

VendorsAssumption ==
  /\ MaxVendors \in Nat /\ MaxRestarts \in Nat /\ Complete \subseteq Document
  /\ Null \notin Tenant \cup Vendor \cup Document \cup {NoDocuments} \cup Ruleset

Bucket == [vendors : [Id -> Vendor \cup {Null}],
           evidence : [Id -> Document \cup {NoDocuments, Null}],
           rules : Ruleset \cup {Null}]

Status == {0, 200, 201, 400, 401, 403, 404, 405, 409, 500}

TypeOK ==
  /\ bucket \in [Tenant -> Bucket]
  /\ issued \in 0..MaxVendors
  /\ acked \subseteq Tenant \X Id
  /\ restarts \in 0..MaxRestarts
  /\ answer \in [tenant : Tenant \cup {Null}, status : Status,
                 asked : SUBSET Id, eligible : SUBSET Id]

\* getTenantBucket of a tenant that has none.
EmptyBucket == [vendors |-> [i \in Id |-> Null], evidence |-> [i \in Id |-> Null],
                rules |-> Null]

Init ==
  /\ bucket = [t \in Tenant |-> EmptyBucket]
  /\ issued = 0 /\ acked = {} /\ restarts = 0
  /\ answer = [tenant |-> Null, status |-> 0, asked |-> {}, eligible |-> {}]

-----------------------------------------------------------------------------
Says(t, status, asked, eligible) ==
  answer' = [tenant |-> t, status |-> status, asked |-> asked, eligible |-> eligible]

Tells(t, status) == Says(t, status, {}, {})

Answers(t, status) ==
  /\ Tells(t, status)
  /\ UNCHANGED <<bucket, issued, acked, restarts>>

\* What a request may lack before it reaches a router: it names a tenant, its
\* path is not of the API, its body cannot be parsed, it asks for /api/auth/me
\* with another method, it has no session.
FrontStatus(override, api, json, me, session) ==
  IF override THEN 403
  ELSE IF ~api THEN 404
  ELSE IF ~json THEN 400
  ELSE IF me THEN 405
  ELSE IF ~session THEN 401 ELSE 0

\* The request listener of server.js.
Front ==
  \E s \in {FrontStatus(override, api, json, me, session) :
                override, api, json, me, session \in BOOLEAN} \ {0} :
    Answers(Null, s)

\* routeAuthed: no router has the path, or it has another method; the routes of
\* one vendor answer another method with 409.
RouteAuthed(t) == \E s \in {404, 405, 409} : Answers(t, s)

Has(t, i) == bucket[t].vendors[i] # Null

\* Mutant: the tenants share one bucket.
OneBucket(t, i, v) ==
  bucket' = [u \in Tenant |-> [bucket[u] EXCEPT !.vendors[i] = v,
                                                !.evidence[i] = NoDocuments]]

\* The vendor is put; it has evidence from then on.
PutVendor(t, i, v) ==
  bucket' = [bucket EXCEPT ![t].vendors[i] = v,
                           ![t].evidence[i] = IF @ = Null THEN NoDocuments ELSE @]

\* GET /api/vendors
ListVendors(t) == Answers(t, 200)

\* POST /api/vendors.  "ok" says that there is a body and that
\* normalizeVendorInput accepts it.
CreateVendor(t, ok) ==
  \/ ~ok /\ Answers(t, 400)
  \/ /\ ok /\ issued < MaxVendors
     /\ issued' = issued + 1
     /\ \E s \in VendorStatus :
          PutVendor(t, issued', [status |-> s, createdAt |-> issued'])
     /\ acked' = acked \cup {<<t, issued'>>}
     /\ Tells(t, 201)
     /\ UNCHANGED restarts

\* GET /api/vendors/:id
GetVendor(t, i) == Answers(t, IF Has(t, i) THEN 200 ELSE 404)

\* A change of a vendor: without a body it is refused before the vendor is
\* looked for, with one that is not accepted after.
ChangeStatus(t, i, body) ==
  IF body = "missing" THEN 400
  ELSE IF ~Has(t, i) THEN 404
  ELSE IF body = "invalid" THEN 400 ELSE 200

Refuses(t, i, body) ==
  /\ ChangeStatus(t, i, body) # 200
  /\ Answers(t, ChangeStatus(t, i, body))

Puts(t, i, v) ==
  /\ PutVendor(t, i, v)
  /\ Tells(t, 200)
  /\ UNCHANGED <<issued, acked, restarts>>

\* PUT /api/vendors/:id; the vendor keeps the time it was created.
ReplaceVendor(t, i, body) ==
  \/ Refuses(t, i, body)
  \/ /\ ChangeStatus(t, i, body) = 200
     /\ \E s \in VendorStatus :
          Puts(t, i, [status |-> s, createdAt |-> bucket[t].vendors[i].createdAt])

\* PATCH /api/vendors/:id/status
PatchVendorStatus(t, i, body) ==
  \/ Refuses(t, i, body)
  \/ /\ ChangeStatus(t, i, body) = 200
     /\ \E s \in VendorStatus : Puts(t, i, [bucket[t].vendors[i] EXCEPT !.status = s])

\* GET /api/vendors/:id/compliance
GetEvidence(t, i) == Answers(t, IF Has(t, i) THEN 200 ELSE 404)

\* PUT /api/vendors/:id/compliance
ReplaceEvidence(t, i, body) ==
  \/ Refuses(t, i, body)
  \/ /\ ChangeStatus(t, i, body) = 200
     /\ \E d \in Document : bucket' = [bucket EXCEPT ![t].evidence[i] = d]
     /\ Tells(t, 200)
     /\ UNCHANGED <<issued, acked, restarts>>

\* GET and PUT /api/compliance/rules
GetRules(t) == Answers(t, 200)

ReplaceRules(t, ok) ==
  \/ ~ok /\ Answers(t, 400)
  \/ /\ ok
     /\ \E r \in Ruleset : bucket' = [bucket EXCEPT ![t].rules = r]
     /\ Tells(t, 200)
     /\ UNCHANGED <<issued, acked, restarts>>

-----------------------------------------------------------------------------
(* Eligibility.                                                            *)

\* isVendorEligible as the routers call it: an answer, or a failure.
IsVendorEligible(t, i) == IF bucket[t].rules = Null THEN "no" ELSE "throws"

Restarts ==
  /\ restarts < MaxRestarts
  /\ restarts' = restarts + 1
  /\ bucket' = [t \in Tenant |-> EmptyBucket]
  /\ acked' = {}
  /\ UNCHANGED issued

\* The promise is rejected: the process ends, unless the store can be read.
Throws(t, I) ==
  /\ Says(t, 500, I, {})
  /\ \/ Restarts
     \/ UNCHANGED <<bucket, issued, acked, restarts>>

Asked(t, I) ==
  \/ \E i \in I : IsVendorEligible(t, i) = "throws" /\ Throws(t, I)
  \/ /\ \A i \in I : IsVendorEligible(t, i) # "throws"
     /\ Says(t, 200, I, {i \in I : IsVendorEligible(t, i) = "yes"})
     /\ UNCHANGED <<bucket, issued, acked, restarts>>

\* GET /api/vendors?eligible=true
ListEligible(t) ==
  \/ bucket[t].rules = Null /\ Answers(t, 409)
  \/ bucket[t].rules # Null /\ Asked(t, {i \in Id : Has(t, i)})

\* GET /api/vendors/:id/eligibility, eligibilityGateOrFail
GetEligibility(t, i) ==
  \/ ~Has(t, i) /\ Answers(t, 404)
  \/ Has(t, i) /\ Asked(t, {i})

\* The process is stopped and started.
Stopped == Restarts /\ UNCHANGED answer

Next ==
  \/ Front
  \/ \E t \in Tenant :
       \/ RouteAuthed(t) \/ ListVendors(t) \/ GetRules(t) \/ ListEligible(t)
       \/ \E ok \in BOOLEAN : CreateVendor(t, ok) \/ ReplaceRules(t, ok)
       \/ \E i \in Id : GetVendor(t, i) \/ GetEvidence(t, i) \/ GetEligibility(t, i)
       \/ \E i \in Id, body \in {"missing", "invalid", "good"} :
            \/ ReplaceVendor(t, i, body) \/ PatchVendorStatus(t, i, body)
            \/ ReplaceEvidence(t, i, body)
  \/ Stopped

Spec == Init /\ [][Next]_vars

-----------------------------------------------------------------------------
\* While the process lives the vendors are exactly the created ones, each with
\* the place in the list it was created at; no other tenant has them (store.js).
CreatedStay ==
  \A t \in Tenant, i \in Id :
    /\ Has(t, i) <=> <<t, i>> \in acked
    /\ Has(t, i) => bucket[t].vendors[i].createdAt = i

\* The vendors with evidence are exactly the tenant's vendors: the two maps of a
\* bucket, written by different functions, keep the same keys (store.js).
EvidenceStays ==
  \A t \in Tenant, i \in Id : Has(t, i) <=> bucket[t].evidence[i] # Null

\* A tenant's requests leave the data of the others alone, unless they end the
\* process; then they take everyone's, which only an eligibility question of a
\* tenant with rules does.
TenantsApart ==
  [][\A t \in Tenant :
       bucket'[t] # bucket[t] =>
         \/ answer'.tenant = t /\ restarts' = restarts
         \/ restarts' > restarts /\ (answer' = answer \/ bucket[answer'.tenant].rules # Null)]_vars

\* "Central enforcement hook for procurement phases. B5 uses it for: eligible
\* list + any "selectable/eligible" view" (vendors.js:45-46): with rules set, a
\* client that asks about an active vendor with complete evidence is told that
\* the vendor is eligible.
CompliantIsEligible ==
  \A i \in answer.asked :
    LET b == bucket[answer.tenant]
    IN  (/\ b.rules # Null
         /\ Has(answer.tenant, i) /\ b.vendors[i].status = "ACTIVE"
         /\ b.evidence[i] \in Complete) => i \in answer.eligible
=============================================================================
