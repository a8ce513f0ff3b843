----------------------------- MODULE ConsoleApi -----------------------------
(***************************************************************************)
(* The staff Console's HTTP server, apps/api/src: which routes there are,  *)
(* what each demands before it runs the operation of a package, and how a  *)
(* request passes those demands while the staff member's session and the   *)
(* client's standing change around it.  What an operation does is in the   *)
(* module of its package; how an answer is worded is left out.             *)
(***************************************************************************)
EXTENDS Desk

VARIABLES level,         \* the staff member's Authority Level
          staffSession,  \* live or not
          standing,      \* of the client: eligible for work, or not
          onLedger       \* actions the ledger has been told are authorised

consoleRows == <<level, staffSession, standing, onLedger>>
consoleVars == <<consoleRows, deskVars>>

-----------------------------------------------------------------------------
(***************************************************************************)
(* The catalogue of actions, core/authority.ts, as far as routes name it.  *)
(***************************************************************************)
MinimumLevel ==
    LET Level1 == {"trigger_firewall", "draft_recommendation", "generate_conflict_disclosure",
                   "manage_lead", "record_market_intelligence", "draft_deliverable",
                   "record_lead_activity", "run_workflow", "record_partner_finding"}
        Level2 == {"record_client_consent", "create_client_record", "tag_venture",
                   "record_funding_outcome", "record_entity_graph", "deliver_deliverable",
                   "onboard_partner", "record_partner_completion"}
        Level3 == {"transition_compliance_state", "change_system_parameter", "publish_offer",
                   "manage_engagement", "publish_contract_clause", "generate_client_contract",
                   "reveal_protected_identifier", "place_legal_hold", "release_legal_hold",
                   "decide_deletion_request", "remove_vault_document", "set_document_retention",
                   "publish_curriculum_module", "raise_intercompany_invoice",
                   "mark_attempt_funded", "convert_lead", "register_deliverable_template",
                   "end_partner_relationship", "approve_partner_claim", "correct_attribution",
                   "publish_playbook", "resolve_partner_finding"}
    IN  [a \in Level1 \union Level2 \union Level3 |->
            IF a \in Level1 THEN 1 ELSE IF a \in Level2 THEN 2 ELSE 3]

GovernanceActions ==
    {"transition_compliance_state", "trigger_firewall", "record_client_consent",
     "create_client_record", "place_legal_hold", "release_legal_hold",
     "decide_deletion_request", "record_entity_graph", "record_funding_outcome",
     "mark_attempt_funded", "tag_venture"}

-----------------------------------------------------------------------------
(***************************************************************************)
(* The routes, screen by screen: the operation, its gate, and whether the  *)
(* chain is told of a client - named in the path, perhaps in the body, or  *)
(* not at all.  Gates: "open", "limited" (per source), "staff" (a session),*)
(* "own" (a session, and proof for one's own account), "module" (a session,*)
(* and a check of Level 3 in the package), or an action of the catalogue.  *)
(***************************************************************************)
Route(op, gate, client, writes) ==
    [op |-> op, gate |-> gate, client |-> client, writes |-> writes]
Routes(gate, ops)         == {Route(o, gate, "none", gate # "staff") : o \in ops}
Gets(ops)                == Routes("staff", ops)
Named(action, ops)        == {Route(o, action, "path", TRUE) : o \in ops}
PerhapsNamed(action, ops) == {Route(o, action, "body", TRUE) : o \in ops}

SignInRoutes ==
    Routes("limited", {"authenticateStaff", "enrolStaffFromInvitation", "confirmStaffEnrolment"})
        \union Routes("open", {"health", "revokeStaffSession"})
        \union Routes("module", {"inviteStaff"}) \union Gets({"integrationHealth", "me"})

OverviewRoutes == Gets({"overview", "vocabulary", "systemHealth", "openFor", "openObligations",
                         "listClients", "findClient", "timelineFor"})

ClientRoutes ==
    Routes("create_client_record", {"createClient"})
        \union Named("transition_compliance_state", {"transitionComplianceState"})
        \union Named("record_client_consent", {"grantConsent"})
        \union Named("trigger_firewall", {"triggerFirewall"}) \union Gets({"firewallStatus"})

\* Its own chain, inside requestRecommendation.
PlacementRoutes == Named("draft_recommendation", {"requestRecommendation"})
                       \union Gets({"readLedger", "verifyIntegrity"})

StaffKeySignIn == Routes("limited", {"beginStaffPasskeySignIn", "completeStaffPasskeySignIn"})
                      \union Gets({"staffSecurityPosture"})

StaffKeyRoutes ==
    Routes("own", {"beginStaffKeyRegistration", "completeStaffKeyRegistration",
                   "beginStaffReauthentication", "removeStaffKey", "disableStaffPasswordSignIn"})
        \union Routes("module", {"restoreStaffPasswordSignIn"})

AdminReads  == Gets({"configuration"})
AdminRoutes == Routes("change_system_parameter",
                      {"setParameter", "promoteStagedChange", "rollback"})

BillingReads  == Gets({"ladder", "clientBilling"})
BillingRoutes == Routes("publish_offer", {"publishOffer"})
                     \union PerhapsNamed("manage_engagement", {"startEngagement"})
                     \union Routes("manage_engagement", {"cancelEngagement", "applyCredit"})

\* Modelling a stack is a POST that writes nothing.
StackReads   == Gets({"stackOf"})
ModelRoute   == Gets({"modelCapital"})

EvidenceRoutes == Gets({"assembleEvidenceFile", "exportHistory", "reconcileExport"})

ContractReads  == Gets({"applicableClauses", "clauseHistory", "exhibitInputFor"})
ContractRoutes == Routes("publish_contract_clause", {"publishClause"})
                      \union PerhapsNamed("generate_client_contract", {"generateContract"})

DashboardRoutes == Gets({"executiveDashboard", "unitEconomics", "gardnerRollup", "gaps"})

DeliverableReads  == Gets({"templates", "deliverablesFor", "findDeliverable"})
DeliverableRoutes ==
    PerhapsNamed("draft_deliverable", {"draft"})
        \union Routes("deliver_deliverable", {"approve", "reject", "deliver"})
        \union Routes("register_deliverable_template", {"registerTemplate"})

GovernanceRoutes == Gets({"reviewQueue", "governanceFile", "stateRestrictions"})

GraphReads == Gets({"loadGraph", "relationshipProfile"})
RevealRoutes == Routes("reveal_protected_identifier", {"revealSsn", "revealEin"})
GraphRoutes ==
    Named("record_entity_graph", {"upsertEntity", "upsertOwner", "addEdge", "endEdge",
                                  "recordStatedRevenue", "setPrimaryEntity"})

IntegrationRoutes  == Gets({"activation"})
IntelligenceReads  == Gets({"intelligenceOf"})
IntelligenceRoutes ==
    Named("record_market_intelligence", {"ingest", "recordNormalizedFeed", "recordFindings"})

InterventureReads  == Gets({"relationships", "mayProceed", "clientRelationship"})
InterventureRoutes ==
    Named("tag_venture", {"tagIfVenture"})
        \union Named("generate_conflict_disclosure", {"generateDisclosure"})
        \union Named("raise_intercompany_invoice", {"raiseInvoice"})

MarketingRoutes == Gets({"activeLibrary", "pendingProposals", "assetsFor"})

OutcomeReads  == Gets({"decidedIn", "approvedAndUnfunded", "attemptsForClient"})
OutcomeRoutes ==
    PerhapsNamed("record_funding_outcome", {"submitAttempt"})
        \union Routes("record_funding_outcome", {"approveAttempt", "declineAttempt",
                                                 "withdrawAttempt", "recordSatisfaction"})
        \union Routes("mark_attempt_funded", {"markAttemptFunded"})

PartnerRiskReads  == Gets({"assessPartner", "findingsFor", "partnersNeedingReview"})
PartnerRiskRoutes == Routes("record_partner_finding", {"recordFinding"})
                         \union Routes("resolve_partner_finding", {"resolveFinding"})

PartnerReads  == Gets({"listPartners", "findPartner"})
PartnerRoutes ==
    Routes("publish_curriculum_module", {"publishModule"})
        \union Routes("onboard_partner", {"registerPartner", "recordQualification",
                                          "completeOnboarding"})
PartnerEndings ==
    Routes("end_partner_relationship", {"suspendPartner", "terminatePartner"})
        \union Routes("record_partner_completion", {"recordCompletion"})
        \union Routes("approve_partner_claim", {"approveClaim", "withdrawClaim"})

\* No action of the catalogue: the package's gate is the stronger (ADR-0047).
RegulatoryReads  == Gets({"coverage", "stateStanding"})
ActivationRoutes == Routes("module", {"activateState", "withdrawState"})

\* Mutant: the review of a hold asks for a session and no more.
ReviewByAnyStaff ==
    PerhapsNamed("place_legal_hold", {"placeHold"})
        \union {Route("recordReview", "staff", "none", TRUE)}
        \union Routes("release_legal_hold", {"releaseHold"})
        \union Routes("decide_deletion_request", {"decideRequest", "recordDeletion"})

RetentionReads  == Gets({"activeHolds", "undecidedRequests", "clientRetention"})
RetentionRoutes ==
    PerhapsNamed("place_legal_hold", {"placeHold"})
        \union Routes("place_legal_hold", {"recordReview"})
        \union Routes("release_legal_hold", {"releaseHold"})
        \union Routes("decide_deletion_request", {"decideRequest", "recordDeletion"})

SalesReads  == Gets({"pipeline", "expansion", "findLead"})
SalesRoutes ==
    Routes("manage_lead", {"createLead", "qualifyLead", "closeLead"})
        \union Routes("convert_lead", {"convertLead"})
        \union Routes("record_lead_activity", {"recordActivity"})
        \union Named("record_lead_activity", {"recordReadiness"})
        \union Routes("correct_attribution", {"correctAttribution"})

VaultReads  == Gets({"documentsOf", "accessLog"})
VaultRoutes ==
    Routes("place_legal_hold", {"setLegalHold"})
        \union Routes("release_legal_hold", {"releaseLegalHold"})
        \union Routes("set_document_retention", {"setRetention"})
        \union Routes("remove_vault_document", {"removeDocument"})

WarehouseRoutes == Gets({"snapshotsBetween", "trend", "cohortRetention"})
WorkbenchRoutes == Gets({"workbench", "decisionQueue"})

WorkflowReads  == Gets({"findInstance", "instancesFor"})
WorkflowRoutes == Routes("publish_playbook", {"publishPlaybook"})
                      \union PerhapsNamed("run_workflow", {"start"})
                      \union Routes("run_workflow", {"completeExternalTask"})

ConsoleRoutes == UNION {
    SignInRoutes, OverviewRoutes, ClientRoutes, PlacementRoutes, StaffKeySignIn, StaffKeyRoutes,
    AdminReads, AdminRoutes, BillingReads, BillingRoutes, StackReads, ModelRoute, EvidenceRoutes,
    ContractReads, ContractRoutes, DashboardRoutes, DeliverableReads, DeliverableRoutes,
    GovernanceRoutes, GraphReads, RevealRoutes, GraphRoutes, IntegrationRoutes,
    IntelligenceReads, IntelligenceRoutes, InterventureReads, InterventureRoutes,
    MarketingRoutes, OutcomeReads, OutcomeRoutes, PartnerRiskReads, PartnerRiskRoutes,
    PartnerReads, PartnerRoutes, PartnerEndings, RegulatoryReads, ActivationRoutes,
    RetentionReads, RetentionRoutes, SalesReads, SalesRoutes, VaultReads, VaultRoutes,
    WarehouseRoutes, WorkbenchRoutes, WorkflowReads, WorkflowRoutes}

-----------------------------------------------------------------------------
(***************************************************************************)
(* A request on its way.                                                   *)
(***************************************************************************)
ConsoleInit == /\ level \in 0..3 /\ staffSession = TRUE
               /\ standing \in {"eligible", "ineligible"} /\ onLedger = {}

Asks(op, route) == [op |-> op, route |-> route, barred |-> standing = "ineligible"]
Onward(c, op) == GoesOn(c, [request[c] EXCEPT !.op = op])

\* requireStaff; an open or limited route has no one to ask for.
RequireStaff(c) ==
    /\ \E route \in ConsoleRoutes :
          /\ route.gate \notin {"open", "limited"} => staffSession
          /\ Begins(c, Asks(IF route.gate \in DOMAIN MinimumLevel THEN "chain"
                            ELSE IF route.gate \in {"own", "module"} THEN "proof"
                            ELSE "runs", route))
    /\ UNCHANGED consoleRows

\* Step 4 of the chain: skipped without a client, and for a determination.
GatePasses(route) ==
    \/ route.client = "none" \/ route.gate \in GovernanceActions \/ standing = "eligible"

\* chain: the level, the gate, the event.  A body that names no client is not
\* asked about one.  A refusal, an append that fails included, ends the request.
Authorised(c) ==
    /\ Doing(c, "chain") /\ level >= MinimumLevel[request[c].route.gate]
    /\ \/ GatePasses(request[c].route)
       \/ request[c].route.client = "body"
    /\ onLedger' = onLedger \union {request[c].route.gate}
    /\ Onward(c, "runs") /\ UNCHANGED <<level, staffSession, standing>>

\* A package's own gate: Level 3, read again; or the proof of one's own account.
ModuleGate(c) ==
    /\ Doing(c, "proof") /\ (request[c].route.gate = "module" => level >= 3)
    /\ Onward(c, "runs") /\ UNCHANGED consoleRows

IsRefused(c) == /\ request[c].op \in {"chain", "proof"} /\ Finishes(c) /\ UNCHANGED consoleRows

\* The operation: signing out, disabling an account and the determinations
\* about a client change what other requests find.
Runs(c) ==
    /\ Doing(c, "runs") /\ UNCHANGED <<level, onLedger>>
    /\ IF request[c].route.op = "revokeStaffSession"
       THEN staffSession' = FALSE ELSE UNCHANGED staffSession
    /\ IF request[c].route.op \in {"transitionComplianceState", "triggerFirewall"}
       THEN /\ standing' \in {"eligible", "ineligible"}
            /\ request' = [d \in Clerks |->
                  IF d = c \/ request[d] = AtRest THEN AtRest
                  ELSE [request[d] EXCEPT !.barred = @ /\ standing' = "ineligible"]]
            /\ UNCHANGED <<begun, deaths, today>>
       ELSE Finishes(c) /\ UNCHANGED standing

ConsoleNext == \E c \in Clerks :
    RequireStaff(c) \/ Authorised(c) \/ ModuleGate(c) \/ IsRefused(c) \/ Runs(c)

-----------------------------------------------------------------------------
ConsoleTypeOK ==
    /\ level \in 0..3 /\ standing \in {"eligible", "ineligible"}
    /\ onLedger \subseteq DOMAIN MinimumLevel
    /\ \A r \in ConsoleRoutes : r.gate \in DOMAIN MinimumLevel
                                    \union {"open", "limited", "staff", "own", "module"}

Running(c) == Doing(c, "runs") /\ request[c].route.writes

\* An observer with a session changes nothing but how he signs in himself,
\* whichever of the routes he calls: every other write declares an action, or
\* meets a gate in its package ("a Level 0 observer with a session could move a
\* client to pass", authorised in app.ts).
ObserverChangesNothing ==
    \A c \in Clerks : Running(c) /\ level = 0 => request[c].route.gate \in {"open", "limited", "own"}

\* The law of a state, and who may sign in, are for a Level 3 human, though no
\* action of the catalogue says so (ADR-0047, inviteStaff).
GraveNeedsLevel3 ==
    \A c \in Clerks :
        Running(c) /\ request[c].route.op \in {"activateState", "withdrawState", "inviteStaff",
                           "restoreStaffPasswordSignIn", "releaseHold", "releaseLegalHold",
                           "transitionComplianceState"} => level = 3

\* A client who has been ineligible ever since the request came in gets no
\* recommendation, feed, disclosure, invoice or readiness score by a route that
\* names him, though officers make determinations about him meanwhile (step 4).
IneligibleIsNotWorkedFor ==
    \A c \in Clerks :
        Running(c) /\ request[c].barred
            => request[c].route.op \notin {"requestRecommendation", "ingest", "recordFindings",
                   "recordNormalizedFeed", "generateDisclosure", "raiseInvoice",
                   "recordReadiness"}

\* Nothing that declares an action runs before the ledger says it may (step 6).
AuthorisedIsOnTheLedger ==
    \A c \in Clerks : Running(c) /\ request[c].route.gate \in DOMAIN MinimumLevel
                          => request[c].route.gate \in onLedger
=============================================================================
