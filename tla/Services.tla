------------------------------- MODULE Services -------------------------------
(***************************************************************************)
(* The components that share no state with each other, side by side: the   *)
(* B3 ledger with idempotency keys (the module itself, which extends       *)
(* KeyedLedger), the web pages and their cache, the reports, the tenants'  *)
(* documents, the vendors and the worker's gate.  A step is a step of one  *)
(* of them, and the properties say what each of them promises; their parts *)
(* are stated, one by one, in the modules of the components.               *)
(***************************************************************************)
EXTENDS KeyedLedger

CONSTANTS
  Tenants,                                        \* the vendors' and the gate's
  Item, Blank, Stocked, PageEvent, PageSize,      \* LedgerPages
  Time, ReportEvent,                              \* Reports
  Request, ClientDraft, Content, Alert,           \* TenantDocuments
  Document, Complete, Ruleset,                    \* Vendors
  Isolate, Ip, Reading, Token, Config, Limit,     \* Gateway
  MaxEvents, MaxLoads, MaxMounts, MaxCorruptions, MaxVendors, MaxRequests,
  MaxWindow

VARIABLES
  pageLedger, cache, fetches, started, starts, loads, view,
  reportLedger, reportAnswer,
  docs, version, lossy, corruptions, req,
  bucket, vendorIds, acked, stops, vendorAnswer,
  config, now, rl, granted, served, gatewayAnswer

LP == INSTANCE LedgerPages WITH Event <- PageEvent, ledger <- pageLedger

RP == INSTANCE Reports
        WITH Event <- ReportEvent, ledger <- reportLedger, answer <- reportAnswer

TD == INSTANCE TenantDocuments

VE == INSTANCE Vendors
        WITH Tenant <- Tenants, issued <- vendorIds, restarts <- stops,
             answer <- vendorAnswer

GW == INSTANCE Gateway WITH Tenant <- Tenants, answer <- gatewayAnswer

ASSUME ServicesAssumption ==
  /\ KeyedLedgerAssumption /\ LP!LedgerPagesAssumption
  /\ RP!ReportsAssumption /\ TD!TenantDocumentsAssumption
  /\ VE!VendorsAssumption /\ GW!GatewayAssumption

-----------------------------------------------------------------------------
pageVars     == <<pageLedger, cache, fetches, started, starts, loads, view>>
reportVars   == <<reportLedger, reportAnswer>>
documentVars == <<docs, version, lossy, corruptions, req>>
vendorVars   == <<bucket, vendorIds, acked, stops, vendorAnswer>>
gatewayVars  == <<config, now, rl, granted, served, gatewayAnswer>>

allVars == <<vars, pageVars, reportVars, documentVars, vendorVars, gatewayVars>>

ServicesInit == Init /\ LP!Init /\ RP!Init /\ TD!Init /\ VE!Init /\ GW!Init

KeyedLedgerStep ==
  Next /\ UNCHANGED <<pageVars, reportVars, documentVars, vendorVars, gatewayVars>>
PagesStep ==
  LP!Next /\ UNCHANGED <<vars, reportVars, documentVars, vendorVars, gatewayVars>>
ReportsStep ==
  RP!Next /\ UNCHANGED <<vars, pageVars, documentVars, vendorVars, gatewayVars>>
DocumentsStep ==
  TD!Next /\ UNCHANGED <<vars, pageVars, reportVars, vendorVars, gatewayVars>>
VendorsStep ==
  VE!Next /\ UNCHANGED <<vars, pageVars, reportVars, documentVars, gatewayVars>>
GatewayStep ==
  GW!Next /\ UNCHANGED <<vars, pageVars, reportVars, documentVars, vendorVars>>

ServicesNext ==
  KeyedLedgerStep \/ PagesStep \/ ReportsStep \/ DocumentsStep \/ VendorsStep \/ GatewayStep

\* Each of the pages' requests is answered, or given up by the browser.
ServicesSpec ==
  ServicesInit /\ [][ServicesNext]_allVars /\ WF_pageVars(LP!Answer)

-----------------------------------------------------------------------------
\* The types of every component's state.
TypesOK ==
  TypeOK /\ LP!TypeOK /\ RP!TypeOK /\ TD!TypeOK /\ VE!TypeOK /\ GW!TypeOK

\* However their loads overlap, the pages share one fetch, show data or say why
\* not, stay within their tables, and agree on every total (ledgerCache.js and
\* the pages' load and useMemo).
PagesTellTheTruth ==
  LP!SingleFlight /\ LP!SaysWhatItShows /\ LP!PageInRange /\ LP!PagesAgree

\* A forced load shows no less than the server had when it was forced.
ForcedIsFresh == LP!ForcedIsFresh

\* The reports agree with each other and with themselves: adjacent windows add
\* up, what is received or lost has moved, and neither a filter by place nor a
\* transfer changes what goods are worth (reporting.js).  The reports of an
\* empty collection are empty.
ReportsAddUp ==
  /\ [](reportLedger # << >> =>
          RP!WindowsAddUp /\ RP!ActivityIsMovement /\ RP!ValuedAlike)
  /\ RP!TransferKeepsWorth

\* What a client was told is stored, or has gone on from there, and a draft is
\* stored once, however the handlers' loads and puts interleave.
AcceptedStays == TD!OneDraftPerId /\ TD!AcceptedStays

\* No handler takes back what another has stored, and damage to the drafts
\* document costs no draft.
NothingComesBack == TD!NothingComesBack /\ TD!DamageCostsNoDraft

\* A tenant's vendors are the created ones, with their evidence, and other
\* tenants change them only by ending the process.
VendorsStay == [](VE!CreatedStay /\ VE!EvidenceStays) /\ VE!TenantsApart

\* An active vendor with complete evidence is found eligible (vendors.js:45-46).
CompliantIsEligible == VE!CompliantIsEligible

\* An isolate lets exactly the limit of a key pass in a window, and the document
\* that is read is the one of the tenant of a valid token.
GateHolds == GW!WithinLimit /\ GW!RefusedWhenFull /\ GW!ReadsOwnDocuments
=============================================================================
