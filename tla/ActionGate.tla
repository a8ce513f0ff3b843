----------------------------- MODULE ActionGate -----------------------------
(***************************************************************************)
(* The middleware chain, packages/middleware/src/index.ts, for one client, *)
(* with the two modules that run it for client work (placement and comms)  *)
(* and the determinations it reads: the compliance state (clients), the    *)
(* Do Not Fund listings and overrides and the conduct breaches (risk), the *)
(* Firewall (firewall), authorizations (consent), the state's activation   *)
(* (regulatory) and contact preferences (comms).                           *)
(*                                                                         *)
(* Nothing locks those rows while a request goes through its steps: each   *)
(* read is a step, officers act in between, and a request or an officer's  *)
(* handler may die after any statement.                                    *)
(***************************************************************************)
EXTENDS ConductPolicy, Sequences, FiniteSets

CONSTANTS Requests, Officers,
          Humans,       \* the officers who are Level 3 humans
          Listings,     \* 1..n, model bound, in order of listedAt, taken to be
                        \* the order in which the rows are created
          Overrides,    \* 1..n, model bound; older overrides have lesser ids
          Consents,     \* authorizations for the application at hand
          Breaches,     \* conduct breaches: a kind and a severity each
          MaxActs,      \* model bound on officers' acts
          MaxDeaths     \* model bound on deaths

ASSUME GateAssumption ==
    /\ Humans \subseteq Officers
    /\ IsFiniteSet(Listings) /\ Listings = 1..Cardinality(Listings)
    /\ IsFiniteSet(Overrides) /\ Overrides = 1..Cardinality(Overrides)
    /\ \A b \in Breaches : b.kind \in BreachKinds /\ b.severity \in Severities
    /\ MaxActs \in Nat /\ MaxDeaths \in Nat

VARIABLES compliance,  \* clients.complianceState
          firewall,    \* client_firewall_state
          listing,     \* listing[l]: do_not_fund_listings
          override,    \* override[o]: the listing it excepts from, 0 if not granted
          breach,      \* breach[b]: "none", "open", "overdue" or "resolved"
          consents,    \* live authorizations
          activated,   \* the client's state is activated (regulatory)
          contactable, \* the preference gate permits the contact
          kind,        \* kind[r]: "placement" or "message"
          at, locals,  \* a request: its next statement and what it has read
          log,         \* log[r]: the events written on behalf of r, in order
          message,     \* message[r]: the communications row
          reason,      \* reason[r]: the block its refusal named
          stood,       \* history: blocks in force ever since r began
          desk,        \* desk[o]: the statement an officer's handler is at
          owed,        \* history: automatic blocks no human has lifted
          acts, deaths

standingVars == <<compliance, firewall, listing, override, breach, consents,
                  activated, contactable>>
requestVars  == <<kind, at, locals, log, message, reason>>
officeVars   == <<desk, owed, acts>>
gateVars     == <<standingVars, requestVars, stood, officeVars, deaths>>

ComplianceStates == {"pending_assessment", "pass", "pass_with_findings",
                     "needs_review", "fail"}
Eligible == {"pass", "pass_with_findings"}

\* activeListing: the newest that is listed; 0 when there is none.
Live(l)       == listing[l] = "listed"
ActiveListing == Max({0} \union {l \in Listings : Live(l)})

\* conductStanding(...).servicePaused
OpenResponses == {EffectiveResponse(b.kind, b.severity, breach[b] = "overdue") :
                     b \in {c \in Breaches : breach[c] \in {"open", "overdue"}}}
ServicePaused == PausesService(Standing(OpenResponses))

\* Nobody ever spends an override: consumeOverride has no caller.
Excepted(l) == \E o \in Overrides : override[o] = l

\* What stands in the way of a kind of request, and, of the listing, which.
\* Communication is on both permitted lists, and only it is client-facing.
Block(what, l) == [what |-> what, listing |-> l]
When(condition, what) == IF condition THEN {Block(what, 0)} ELSE {}
BlocksFor(k) ==
    (IF k = "placement" /\ ActiveListing # 0 /\ ~Excepted(ActiveListing)
        THEN {Block("do_not_fund", ActiveListing)} ELSE {})
    \union When(k = "placement" /\ ServicePaused, "conduct")
    \union When(firewall = "triggered", "firewall")
    \union When(compliance \notin Eligible, "compliance")
    \union When(k = "placement" /\ consents = {}, "consent")
    \union When(k = "message" /\ ~activated, "regulatory")
    \union When(k = "message" /\ ~contactable, "preference")

NewLocals == [compliance |-> "pending_assessment", listing |-> 0, override |-> 0]
AtDesk(label, l) == [at |-> label, listing |-> l]

GateInit ==
    /\ compliance \in {"pending_assessment", "pass"} /\ firewall = "clear"
    /\ listing = [l \in Listings |-> "none"]
    /\ override = [o \in Overrides |-> 0]
    /\ breach = [b \in Breaches |-> "none"]
    /\ consents = Consents /\ activated = TRUE /\ contactable = TRUE
    /\ kind \in [Requests -> {"placement", "message"}]
    /\ at = [r \in Requests |-> "new"]
    /\ locals = [r \in Requests |-> NewLocals]
    /\ log = [r \in Requests |-> <<>>]
    /\ message = [r \in Requests |-> "none"]
    /\ reason = [r \in Requests |-> "none"]
    /\ stood = [r \in Requests |-> {}]
    /\ desk = [o \in Officers |-> AtDesk("free", 0)]
    /\ owed = {} /\ acts = 0 /\ deaths = 0

-----------------------------------------------------------------------------
(***************************************************************************)
(* A request's way through the chain.                                      *)
(***************************************************************************)
Goto(r, label) == at' = [at EXCEPT ![r] = label]
Write(r, event) == log' = [log EXCEPT ![r] = Append(@, event)]
IsPlacement(r) == kind[r] = "placement"

\* Where a refused request goes: comms logs what it may not send.
Refused(r) == IF IsPlacement(r) THEN "done" ELSE "block"
Stop(r, label, why) == Goto(r, label) /\ reason' = [reason EXCEPT ![r] = why]

Receive(r) ==
    /\ at[r] = "new"
    /\ Goto(r, IF IsPlacement(r) THEN "actor" ELSE "contact")
    /\ UNCHANGED <<standingVars, kind, locals, log, message, reason, officeVars, deaths>>

\* comms/send.ts: mayContact comes before the chain.
CheckContact(r) ==
    /\ at[r] = "contact"
    /\ IF contactable THEN Goto(r, "actor") /\ UNCHANGED reason
                      ELSE Stop(r, "block", "preference")
    /\ UNCHANGED <<standingVars, kind, locals, log, message, officeVars, deaths>>

\* Steps 1 to 3: who asks, for which tenant, with what authority.  A refusal
\* of step 2 or 3 writes an event of its own.
CheckActor(r) ==
    /\ at[r] = "actor"
    /\ \/ Goto(r, "client") /\ UNCHANGED <<reason, log>>
       \/ Stop(r, Refused(r), "actor") /\ UNCHANGED log
       \/ Stop(r, Refused(r), "actor") /\ Write(r, "actor_blocked")
    /\ UNCHANGED <<standingVars, kind, locals, message, officeVars, deaths>>

\* Step 4 reads the client once; the compliance state read here is the one
\* evaluate is given.
FindClient(r) ==
    /\ at[r] = "client"
    /\ locals' = [locals EXCEPT ![r].compliance = compliance]
    /\ Goto(r, "listing")
    /\ UNCHANGED <<standingVars, kind, log, message, reason, officeVars, deaths>>

\* checkDoNotFund, its two reads.
CheckListing(r) ==
    /\ at[r] = "listing"
    /\ IF IsPlacement(r) /\ ActiveListing # 0
       THEN /\ locals' = [locals EXCEPT ![r].listing = ActiveListing]
            /\ Goto(r, "override")
       ELSE Goto(r, "conduct") /\ UNCHANGED locals
    /\ UNCHANGED <<standingVars, kind, log, message, reason, officeVars, deaths>>

\* Mutant: an override lifts the pause as well.
FindOverridePastConduct(r) ==
    /\ at[r] = "override"
    /\ LET granted == {o \in Overrides : override[o] = locals[r].listing}
       IN  IF granted # {}
           THEN /\ locals' = [locals EXCEPT ![r].override = Min(granted)]
                /\ Goto(r, "gate") /\ UNCHANGED reason
           ELSE Stop(r, "refusal", "do_not_fund") /\ UNCHANGED locals
    /\ UNCHANGED <<standingVars, kind, log, message, officeVars, deaths>>

FindOverride(r) ==
    /\ at[r] = "override"
    /\ LET granted == {o \in Overrides : override[o] = locals[r].listing}
       IN  IF granted # {}
           THEN /\ locals' = [locals EXCEPT ![r].override = Min(granted)]
                /\ Goto(r, "conduct") /\ UNCHANGED reason
           ELSE Stop(r, "refusal", "do_not_fund") /\ UNCHANGED locals
    /\ UNCHANGED <<standingVars, kind, log, message, officeVars, deaths>>

CheckConduct(r) ==
    /\ at[r] = "conduct"
    /\ IF IsPlacement(r) /\ ServicePaused THEN Stop(r, "refusal", "conduct")
                                         ELSE Goto(r, "gate") /\ UNCHANGED reason
    /\ UNCHANGED <<standingVars, kind, locals, log, message, officeVars, deaths>>

\* Mutant: the compliance state first.
EvaluateComplianceFirst(r) ==
    /\ at[r] = "gate"
    /\ IF locals[r].compliance \notin Eligible THEN Stop(r, "refusal", "compliance")
       ELSE IF firewall = "triggered" THEN Stop(r, "refusal", "firewall")
       ELSE Goto(r, IF IsPlacement(r) THEN "emit" ELSE "regulatory") /\ UNCHANGED reason
    /\ UNCHANGED <<standingVars, kind, locals, log, message, officeVars, deaths>>

\* firewall evaluate: the Firewall first, then the compliance state.
EvaluateGate(r) ==
    /\ at[r] = "gate"
    /\ IF firewall = "triggered" THEN Stop(r, "refusal", "firewall")
       ELSE IF locals[r].compliance \notin Eligible THEN Stop(r, "refusal", "compliance")
       ELSE Goto(r, IF IsPlacement(r) THEN "emit" ELSE "regulatory") /\ UNCHANGED reason
    /\ UNCHANGED <<standingVars, kind, locals, log, message, officeVars, deaths>>

\* Every refusal of step 4 past the client is a placement.refused.
RecordRefusal(r) ==
    /\ at[r] = "refusal"
    /\ Write(r, "placement.refused") /\ Goto(r, Refused(r))
    /\ UNCHANGED <<standingVars, kind, locals, message, reason, officeVars, deaths>>

\* Step 5, for client-facing content only.
CheckJurisdiction(r) ==
    /\ at[r] = "regulatory"
    /\ IF activated THEN Goto(r, "emit") /\ UNCHANGED reason
                    ELSE Stop(r, "block", "regulatory")
    /\ UNCHANGED <<standingVars, kind, locals, log, message, officeVars, deaths>>

\* Step 6: an append that fails blocks the action.
EmitEvent(r) ==
    /\ at[r] = "emit"
    /\ \/ /\ IF IsPlacement(r)
             THEN Write(r, "placement.requested") /\ Goto(r, "consent")
             ELSE Write(r, "comms.message.sent") /\ Goto(r, "scan")
          /\ UNCHANGED reason
       \/ Stop(r, Refused(r), "ledger") /\ UNCHANGED log
    /\ UNCHANGED <<standingVars, kind, locals, message, officeVars, deaths>>

\* Step 7: banned language, or a disclosure that does not travel with it.
ScanContent(r) ==
    /\ at[r] = "scan"
    /\ \/ Goto(r, "approve") /\ UNCHANGED reason
       \/ Stop(r, "block", "scan")
    /\ UNCHANGED <<standingVars, kind, locals, log, message, officeVars, deaths>>

(***************************************************************************)
(* comms/send.ts after the chain: the log, of what was blocked too.        *)
(***************************************************************************)
ApproveMessage(r) ==
    /\ at[r] = "approve"
    /\ message' = [message EXCEPT ![r] = "approved_to_send"] /\ Goto(r, "done")
    /\ UNCHANGED <<standingVars, kind, locals, log, reason, officeVars, deaths>>

BlockMessage(r) ==
    /\ at[r] = "block"
    /\ message' = [message EXCEPT ![r] = "blocked"] /\ Goto(r, "blocked")
    /\ UNCHANGED <<standingVars, kind, locals, log, reason, officeVars, deaths>>

RecordBlocked(r) ==
    /\ at[r] = "blocked"
    /\ Write(r, "comms.message.blocked") /\ Goto(r, "done")
    /\ UNCHANGED <<standingVars, kind, locals, message, reason, officeVars, deaths>>

\* Mutant: a missing authorization is waited for instead of refused.
CheckConsentWaiting(r) ==
    /\ at[r] = "consent"
    /\ consents # {} /\ Goto(r, "rank") /\ UNCHANGED reason
    /\ UNCHANGED <<standingVars, kind, locals, log, message, officeVars, deaths>>

(***************************************************************************)
(* requestRecommendation after the chain: consent, profile and ranking;    *)
(* every way out writes a terminal event.                                  *)
(***************************************************************************)
CheckConsent(r) ==
    /\ at[r] = "consent"
    /\ IF consents # {} THEN Goto(r, "rank") /\ UNCHANGED reason
                        ELSE Stop(r, "outcome", "consent")
    /\ UNCHANGED <<standingVars, kind, locals, log, message, officeVars, deaths>>

RankCandidates(r) ==
    /\ at[r] = "rank"
    /\ \/ Goto(r, "recommend") /\ UNCHANGED reason
       \/ Stop(r, "outcome", "no_data")
    /\ UNCHANGED <<standingVars, kind, locals, log, message, officeVars, deaths>>

RecordOutcome(r) ==
    /\ at[r] = "outcome"
    /\ Write(r, "placement.refused") /\ Goto(r, "done")
    /\ UNCHANGED <<standingVars, kind, locals, message, reason, officeVars, deaths>>

Recommend(r) ==
    /\ at[r] = "recommend"
    /\ Write(r, "placement.recommended") /\ Goto(r, "done")
    /\ UNCHANGED <<standingVars, kind, locals, message, reason, officeVars, deaths>>

\* A handler that throws, or whose process dies.
RequestDies(r) ==
    /\ at[r] \notin {"new", "done", "dead"}
    /\ deaths < MaxDeaths /\ deaths' = deaths + 1
    /\ Goto(r, "dead")
    /\ UNCHANGED <<standingVars, kind, locals, log, message, reason, officeVars>>

-----------------------------------------------------------------------------
(***************************************************************************)
(* Officers: the determinations the chain reads.                           *)
(***************************************************************************)
Act(o) == desk[o].at = "free" /\ acts < MaxActs /\ acts' = acts + 1
Sits(o, label, l) == desk' = [desk EXCEPT ![o] = AtDesk(label, l)]

\* transitionComplianceState: any state may follow any other.  A failure goes
\* on to list the client.
TransitionComplianceState(o, to) ==
    /\ Act(o)
    /\ compliance' = to
    /\ IF to = "fail" THEN Sits(o, "autolist", 0) ELSE UNCHANGED desk
    /\ UNCHANGED <<firewall, listing, override, breach, consents, activated,
                   contactable, requestVars, owed, deaths>>

\* Mutant: a client who was ever listed is taken to be listed.
AutoListOnlyOnce(o) ==
    /\ desk[o].at = "autolist"
    /\ IF \E l \in Listings : listing[l] # "none"
       THEN Sits(o, "free", 0) /\ owed' = owed \union {"do_not_fund"}
       ELSE Sits(o, "autocreate", 0) /\ UNCHANGED owed
    /\ UNCHANGED <<standingVars, requestVars, acts, deaths>>

\* autoListForComplianceFail: one that is listed already is left as it is ...
AutoListForComplianceFail(o) ==
    /\ desk[o].at = "autolist"
    /\ IF ActiveListing # 0
       THEN Sits(o, "free", 0) /\ owed' = owed \union {"do_not_fund"}
       ELSE Sits(o, "autocreate", 0) /\ UNCHANGED owed
    /\ UNCHANGED <<standingVars, requestVars, acts, deaths>>

NextListing == CHOOSE l \in Listings : /\ listing[l] = "none"
                                       /\ \A k \in 1..(l - 1) : listing[k] # "none"

\* ... and otherwise a row is created, as listClient does after its own check.
CreateListing(o) ==
    /\ desk[o].at \in {"autocreate", "list"}
    /\ \E l \in Listings : listing[l] = "none"
    /\ listing' = [listing EXCEPT ![NextListing] = "listed"]
    /\ owed' = IF desk[o].at = "autocreate" THEN owed \union {"do_not_fund"} ELSE owed
    /\ Sits(o, "free", 0)
    /\ UNCHANGED <<compliance, firewall, override, breach, consents, activated,
                   contactable, requestVars, acts, deaths>>

\* listClient, removeListing and grantOverride read the active listing, then
\* the approver, and then write; what the check refuses changes nothing.
BeginListing(o) ==
    /\ Act(o) /\ o \in Humans /\ ActiveListing = 0
    /\ Sits(o, "list", 0)
    /\ UNCHANGED <<standingVars, requestVars, owed, deaths>>

\* Mutant: sufficient authority is enough, human or not.
BeginAnyDecision(o, label) ==
    /\ Act(o) /\ ActiveListing # 0
    /\ Sits(o, label, ActiveListing)
    /\ UNCHANGED <<standingVars, requestVars, owed, deaths>>

BeginDecision(o, label) ==
    /\ Act(o) /\ o \in Humans /\ ActiveListing # 0
    /\ Sits(o, label, ActiveListing)
    /\ UNCHANGED <<standingVars, requestVars, owed, deaths>>

RemoveListing(o) ==
    /\ desk[o].at = "remove"
    /\ listing' = [listing EXCEPT ![desk[o].listing] = "removed"]
    /\ owed' = IF o \in Humans THEN owed \ {"do_not_fund"} ELSE owed
    /\ Sits(o, "free", 0)
    /\ UNCHANGED <<compliance, firewall, override, breach, consents, activated,
                   contactable, requestVars, acts, deaths>>

GrantOverride(o) ==
    /\ desk[o].at = "except"
    /\ \E v \in Overrides :
         /\ override[v] = 0 /\ \A u \in 1..(v - 1) : override[u] # 0
         /\ override' = [override EXCEPT ![v] = desk[o].listing]
    /\ Sits(o, "free", 0)
    /\ UNCHANGED <<compliance, firewall, listing, breach, consents, activated,
                   contactable, requestVars, owed, acts, deaths>>

\* firewall trigger, by anyone, and clear, by a human.
TriggerFirewall(o) ==
    /\ Act(o) /\ firewall' = "triggered"
    /\ owed' = owed \union {"firewall"}
    /\ UNCHANGED <<compliance, listing, override, breach, consents, activated,
                   contactable, requestVars, desk, deaths>>

ClearFirewall(o) ==
    /\ Act(o) /\ o \in Humans /\ firewall' = "clear"
    /\ owed' = owed \ {"firewall"}
    /\ UNCHANGED <<compliance, listing, override, breach, consents, activated,
                   contactable, requestVars, desk, deaths>>

\* detectBreach, by anyone; a review restarts the cadence and a resolution
\* closes the breach, by a human.
SetBreach(b, from, to) ==
    /\ breach[b] \in from /\ breach' = [breach EXCEPT ![b] = to]
    /\ UNCHANGED <<compliance, firewall, listing, override, consents, activated,
                   contactable, requestVars, desk, owed, deaths>>

DetectBreach(o, b)  == Act(o) /\ SetBreach(b, {"none"}, "open")
ReviewBreach(o, b)  == Act(o) /\ o \in Humans /\ SetBreach(b, {"overdue"}, "open")
ResolveBreach(o, b) == Act(o) /\ o \in Humans /\ SetBreach(b, {"open", "overdue"}, "resolved")
ReviewLapses(b)     == SetBreach(b, {"open"}, "overdue") /\ UNCHANGED acts

\* consent grant and revoke; activation; contact preferences.
GrantConsent(c) ==
    /\ acts < MaxActs /\ acts' = acts + 1
    /\ c \notin consents /\ consents' = consents \union {c}
    /\ UNCHANGED <<compliance, firewall, listing, override, breach, activated,
                   contactable, requestVars, desk, owed, deaths>>

RevokeConsent(c) ==
    /\ acts < MaxActs /\ acts' = acts + 1
    /\ c \in consents /\ consents' = consents \ {c}
    /\ UNCHANGED <<compliance, firewall, listing, override, breach, activated,
                   contactable, requestVars, desk, owed, deaths>>

ChangeActivation ==
    /\ acts < MaxActs /\ acts' = acts + 1
    /\ activated' = ~activated
    /\ UNCHANGED <<compliance, firewall, listing, override, breach, consents,
                   contactable, requestVars, desk, owed, deaths>>

ChangePreferences ==
    /\ acts < MaxActs /\ acts' = acts + 1
    /\ contactable' = ~contactable
    /\ UNCHANGED <<compliance, firewall, listing, override, breach, consents,
                   activated, requestVars, desk, owed, deaths>>

OfficerDies(o) ==
    /\ desk[o].at # "free" /\ deaths < MaxDeaths /\ deaths' = deaths + 1
    /\ Sits(o, "free", 0)
    /\ UNCHANGED <<standingVars, requestVars, owed, acts>>

-----------------------------------------------------------------------------
ChainStep(r) ==
    \/ Receive(r)       \/ CheckContact(r)   \/ CheckActor(r)
    \/ FindClient(r)    \/ CheckListing(r)   \/ FindOverride(r)
    \/ CheckConduct(r)  \/ EvaluateGate(r)   \/ RecordRefusal(r)
    \/ CheckJurisdiction(r) \/ EmitEvent(r)  \/ ScanContent(r)
    \/ ApproveMessage(r) \/ BlockMessage(r)  \/ RecordBlocked(r)
    \/ CheckConsent(r)  \/ RankCandidates(r) \/ RecordOutcome(r)
    \/ Recommend(r)

OfficerStep(o) ==
    \/ \E to \in ComplianceStates : TransitionComplianceState(o, to)
    \/ AutoListForComplianceFail(o) \/ CreateListing(o)
    \/ BeginListing(o)  \/ BeginDecision(o, "remove") \/ BeginDecision(o, "except")
    \/ RemoveListing(o) \/ GrantOverride(o)
    \/ TriggerFirewall(o) \/ ClearFirewall(o)
    \/ \E b \in Breaches : DetectBreach(o, b) \/ ReviewBreach(o, b) \/ ResolveBreach(o, b)

\* Which of the blocks in force when a request began have been ever since.
Observe ==
    stood' = [r \in Requests |->
                IF at'[r] = "new" \/ at[r] \in {"done", "dead"} THEN stood[r]
                ELSE IF at[r] = "new" THEN BlocksFor(kind[r])
                ELSE stood[r] \intersect BlocksFor(kind[r])']

GateNext ==
    /\ \/ \E r \in Requests : ChainStep(r) \/ RequestDies(r)
       \/ \E o \in Officers : OfficerStep(o) \/ OfficerDies(o)
       \/ \E b \in Breaches : ReviewLapses(b)
       \/ \E c \in Consents : GrantConsent(c) \/ RevokeConsent(c)
       \/ ChangeActivation \/ ChangePreferences
    /\ Observe

GateSafetySpec == GateInit /\ [][GateNext]_gateVars

\* A handler that has begun goes on to its end.
GateSpec ==
    GateSafetySpec /\ \A r \in Requests : WF_gateVars(ChainStep(r) /\ Observe)

-----------------------------------------------------------------------------
(***************************************************************************)
(* Properties.                                                             *)
(***************************************************************************)
Logged(r, event) == \E i \in DOMAIN log[r] : log[r][i] = event
Blocks == {"do_not_fund", "conduct", "firewall", "compliance", "consent",
           "regulatory", "preference"}

\* The type invariant of the gate.
GateTypeOK ==
    /\ compliance \in ComplianceStates /\ firewall \in {"clear", "triggered"}
    /\ listing \in [Listings -> {"none", "listed", "removed"}]
    /\ override \in [Overrides -> Listings \union {0}]
    /\ breach \in [Breaches -> {"none", "open", "overdue", "resolved"}]
    /\ consents \subseteq Consents /\ activated \in BOOLEAN /\ contactable \in BOOLEAN
    /\ kind \in [Requests -> {"placement", "message"}]
    /\ locals \in [Requests -> [compliance : ComplianceStates,
                                listing : Listings \union {0},
                                override : Overrides \union {0}]]
    /\ message \in [Requests -> {"none", "approved_to_send", "blocked"}]
    /\ \A r \in Requests : stood[r] \subseteq
           [what : Blocks, listing : Listings \union {0}]
    /\ desk \in [Officers -> [at : {"free", "autolist", "autocreate", "list",
                                    "remove", "except"},
                              listing : Listings \union {0}]]
    /\ owed \subseteq {"do_not_fund", "firewall"}
    /\ acts \in 0..MaxActs /\ deaths \in 0..MaxDeaths

\* Nothing gets through a block that stood from its beginning to its end,
\* whatever else changed meanwhile: a placement that is recommended, or a
\* message approved, had every block lifted at some point on its way (chain,
\* requestRecommendation, send).
StandingBlockStops ==
    \A r \in Requests :
        (Logged(r, "placement.recommended") \/ message[r] = "approved_to_send")
            => stood[r] = {}

\* A refusal leads with the right block: no block that stood throughout
\* outranks the one it names.  A listing before a pause, a pause before the
\* Firewall, the Firewall before the compliance state, and the freeze before
\* a missing authorization (chain step 4, checkConduct, requestRecommendation).
Outranking ==
    [conduct |-> {"do_not_fund"}, firewall |-> {"do_not_fund", "conduct"},
     compliance |-> {"do_not_fund", "conduct", "firewall"},
     regulatory |-> {"preference", "firewall", "compliance"},
     consent |-> {"do_not_fund", "conduct", "firewall", "compliance"}]
RefusalLeadsWithTheWorst ==
    \A r \in Requests : reason[r] \in DOMAIN Outranking =>
        \A b \in stood[r] : b.what \notin Outranking[reason[r]]

\* One outcome per request: a placement that was let in has exactly one
\* terminal event once its handler returns, one that was not has at most one
\* and was never recommended, and a message has one row (the comments in
\* requestRecommendation and logBlocked).
OneOutcome ==
    \A r \in Requests :
        LET terminal == SelectSeq(log[r], LAMBDA e : e \in {"placement.refused",
                                                           "placement.recommended"})
        IN  /\ IsPlacement(r) => Len(terminal) <= 1
            /\ (at[r] = "done" /\ Logged(r, "placement.requested")) => Len(terminal) = 1
            /\ Logged(r, "placement.recommended") => Logged(r, "placement.requested")
            /\ (at[r] = "done" /\ ~IsPlacement(r)) =>
                  (message[r] = "blocked" <=> Logged(r, "comms.message.blocked"))

\* Automatic in, human out: a client listed because they failed stays listed,
\* and a triggered Firewall stays triggered, until a human lifts it, whatever
\* agents do and whoever dies (Decision E, principle 7).
AutomaticInHumanOut ==
    /\ "do_not_fund" \in owed => ActiveListing # 0
    /\ "firewall" \in owed => firewall = "triggered"

\* A request that is taken in is answered, unless its process dies.
RequestConcludes ==
    \A r \in Requests : (at[r] # "new") ~> (at[r] \in {"done", "dead"})

\* Rule 1 of listings.ts and ADR-0012: an override permits one action, and is
\* consumed when used.
OverridePermitsOneAction ==
    \A r, s \in Requests :
        (/\ r # s /\ locals[r].override # 0
         /\ Logged(r, "placement.recommended") /\ Logged(s, "placement.recommended"))
            => locals[r].override # locals[s].override

\* The rows that block are well formed, and none that is owed to a failure is
\* missing.
BlocksAreInForce == GateTypeOK /\ AutomaticInHumanOut

\* Whoever asks is answered, and once.
OneAnswer == []OneOutcome /\ RequestConcludes
=============================================================================
