------------------------------ MODULE MCOffice ------------------------------
(***************************************************************************)
(* What is kept, judged, written and reported for clients, the graphs they *)
(* are served by, and the two HTTP servers in front.  The parts touch      *)
(* disjoint rows, so each behaviour follows one of them, `desk`.           *)
(***************************************************************************)
EXTENDS Records, Providers, Deliverables, Outcomes, ConsoleApi, Playbooks, PortalApi, Calls,
        Marketing

CONSTANTS Budget,          \* requests let in at each desk
          DeathsAllowed    \* deaths at each desk

VARIABLE desk

officeRows == <<recordsRows, providersRows, deliverableRows, outcomesRows, consoleRows,
                playbookRows, portalRows, callsRows, marketingRows>>
officeVars == <<officeRows, deskVars, desk>>

MCAlike == Permutations(Clerks) \union Permutations(Providers)
MCBudget == [records |-> 5, providers |-> 3, deliverables |-> 6, outcomes |-> 5,
             console |-> 2, playbooks |-> 0, portal |-> 0, calls |-> 5,
             marketing |-> 4]
MCDeathsAllowed == [records |-> 1, providers |-> 0, deliverables |-> 0, outcomes |-> 1,
                    console |-> 0, playbooks |-> 0, portal |-> 0, calls |-> 1,
                    marketing |-> 1]
MCDocuments == {{"paragraph"}, {"key_figures", "table"}}
MCFires == [amount |-> {"amount_capability", "timeline_commitment"},
            rate   |-> {"rate_or_term_quote"},
            hope   |-> {"guarantee"}]
MCTranscripts ==
    LET says(side, s) == [side |-> side, says |-> s]
    IN  {{says("internal", "amount"), says("client", "hope")},
         {says("internal", "amount"), says("internal", "rate")}}
MCCopies ==
    LET copy(says, discloses) == [says |-> says, discloses |-> discloses]
    IN  {copy({"ours"}, {"ours"}), copy({"ours"}, {}), copy({"ours", "banned"}, {"ours"})}
MCConditions ==
    LET score   == Compare("client.score", "gte", 2)
        known   == Compare("client.complianceState", "neq", "fail")
        present == Compare("client.score", "exists", 0)
    IN  {score, Not(score), AllOf(<<present, score>>), AnyOf(<<score, known>>),
         AllOf(<<known, Not(score)>>), Compare("client.score", "not_exists", 0),
         Compare("client.complianceState", "not_in", {"fail"}),
         Not(Compare("client.complianceState", "gt", 1))}

AtRecords(A)      == /\ desk = "records" /\ A
                     /\ UNCHANGED <<providersRows, deliverableRows, outcomesRows, consoleRows,
                                    playbookRows, portalRows, callsRows, marketingRows, desk>>
AtProviders(A)    == /\ desk = "providers" /\ A
                     /\ UNCHANGED <<recordsRows, deliverableRows, outcomesRows, consoleRows,
                                    playbookRows, portalRows, callsRows, marketingRows, desk>>
AtDeliverables(A) == /\ desk = "deliverables" /\ A
                     /\ UNCHANGED <<recordsRows, providersRows, outcomesRows, consoleRows,
                                    playbookRows, portalRows, callsRows, marketingRows, desk>>
AtOutcomes(A)     == /\ desk = "outcomes" /\ A
                     /\ UNCHANGED <<recordsRows, providersRows, deliverableRows, consoleRows,
                                    playbookRows, portalRows, callsRows, marketingRows, desk>>
AtConsole(A)      == /\ desk = "console" /\ A
                     /\ UNCHANGED <<recordsRows, providersRows, deliverableRows, outcomesRows,
                                    playbookRows, portalRows, callsRows, marketingRows, desk>>
AtPlaybooks(A)    == /\ desk = "playbooks" /\ A
                     /\ UNCHANGED <<recordsRows, providersRows, deliverableRows, outcomesRows,
                                    consoleRows, portalRows, callsRows, marketingRows, deskVars, desk>>
AtPortal(A)       == /\ desk = "portal" /\ A
                     /\ UNCHANGED <<recordsRows, providersRows, deliverableRows, outcomesRows,
                                    consoleRows, playbookRows, callsRows, marketingRows, deskVars, desk>>
AtCalls(A)        == /\ desk = "calls" /\ A
                     /\ UNCHANGED <<recordsRows, providersRows, deliverableRows, outcomesRows,
                                    consoleRows, playbookRows, portalRows, marketingRows, desk>>
AtMarketing(A)    == /\ desk = "marketing" /\ A
                     /\ UNCHANGED <<recordsRows, providersRows, deliverableRows, outcomesRows,
                                    consoleRows, playbookRows, portalRows, callsRows, desk>>

OfficeInit ==
    /\ desk \in DOMAIN Budget
    /\ request = [c \in Clerks |-> AtRest] /\ today = 0
    /\ begun = MaxRequests - Budget[desk] /\ deaths = MaxDeaths - DeathsAllowed[desk]
    /\ RecordsInit /\ ProvidersInit /\ DeliverablesInit /\ OutcomesInit /\ ConsoleInit
    /\ PlaybooksInit /\ PortalInit /\ CallsInit /\ MarketingInit
    \* of the parts not followed, one initial state
    /\ desk # "providers"    => \A p \in Providers : file[p] = NoFile
    \* all the providers are new, or all on the list with the default cadence
    /\ \A p, q \in Providers : file[p] = file[q] /\ file[p].cadence = MaximumCadence
    /\ desk # "deliverables" => ~banned
    /\ desk # "console"      => level = 0 /\ standing = "eligible"
    /\ desk # "playbooks"    => walk.book = CHOOSE book \in Playbooks : Valid(book)
    /\ desk # "calls"        => regime = "one_party"
    \* the rows are read in the other states only, and there alike
    /\ Cardinality(consents) <= 1 /\ (regime = "one_party" => consents = {})
    /\ regime # "unclassified"
    /\ desk # "portal"       => holds = {"session"} /\ account.keys = 0 /\ ~account.authenticator

OfficeNext ==
    \/ AtRecords(RecordsNext)
    \/ AtProviders(ProvidersNext)
    \/ AtDeliverables(DeliverablesNext)
    \/ AtOutcomes(OutcomesNext)
    \/ AtConsole(ConsoleNext)
    \/ AtPlaybooks(PlaybooksNext)
    \/ AtPortal(PortalNext)
    \/ AtCalls(CallsNext)
    \/ AtMarketing(MarketingNext)

OfficeSpec == OfficeInit /\ [][OfficeNext]_officeVars

\* The type invariant of whichever part is followed.
OfficeTypeOK ==
    /\ desk = "records"      => RecordsTypeOK
    /\ desk = "providers"    => ProvidersTypeOK
    /\ desk = "deliverables" => DeliverablesTypeOK
    /\ desk = "outcomes"     => OutcomesTypeOK
    /\ desk = "console"      => ConsoleTypeOK
    /\ desk = "playbooks"    => PlaybooksTypeOK
    /\ desk = "portal"       => PortalTypeOK
    /\ desk = "calls"        => CallsTypeOK
    /\ desk = "marketing"    => MarketingTypeOK

\* The rows agree: well formed, a document on file can be opened, and a
\* recommendation accounts for every offering it considered.
RowsAgree == OfficeTypeOK /\ StoredIsReadable /\ NothingIsDropped

\* Complaints take a provider off, in whatever order they come in, and nobody
\* is shown a provider who is off.
ProvidersAreGoverned == []ComplaintsAddUp /\ RecommendedIsGoverned

\* What goes out to a client was approved by a person at every stage, carries
\* no banned language, and is sent by no graph unread.
OnlyReviewedGoesOut ==
    /\ BannedIsNotDelivered /\ DeliveredPassedAll /\ NothingGoesOutUnread
    /\ BannedAllAlongIsUnsaid /\ ApprovedIsInTheLibrary /\ ArmsAreComparable /\ StaleArmsAreSeen

\* A decision reaches those who act on it: billing first, the lender database
\* after, and no approval waits for capital in one queue only.
DecisionsAreHeard == BillingIsToldFirst /\ UnfundedIsRefundable /\ DecisionIsLearned

\* No route of the Console changes anything past its gate.
RoutesMeetTheirGates == desk = "console" =>
    /\ ObserverChangesNothing /\ GraveNeedsLevel3
    /\ IneligibleIsNotWorkedFor /\ AuthorisedIsOnTheLedger

\* A walk goes by the evidence there is: work after a pass, words after an
\* outcome, no branch on what was never measured, and an end within reach.
WalksGoByEvidence ==
    []WorkFollowsAPass /\ ToldWhatHappened /\ []UnmeasuredDecidesNothing /\ []AnEndIsInReach

\* What was promised on a call is put right by somebody, in time, once.
PromisesAreAnswered ==
    /\ RefusedLeavesNoTrace /\ PromisesAreOwed /\ OwedOncePerAnalysis /\ WorstSetsTheDate

\* In no number of calls do the proofs a browser holds add up to others.
ProofsDoNotAddUp == SessionIsNoCredential /\ OneFactorOpensNothing /\ ResetDoesNotAddUp
=============================================================================
