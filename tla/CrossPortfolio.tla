--------------------------- MODULE CrossPortfolio ---------------------------
(***************************************************************************)
(* A client's data leaving for a sibling company, packages/interventure:   *)
(* the handoffs a client consents to and the opportunities Gardner         *)
(* approves, and the consents of packages/consent they both wait for.      *)
(***************************************************************************)
EXTENDS Desk

CONSTANTS Scopes,         \* what a consent may be to
          Authorizations, \* 1..n: consents of the kind cross_portfolio_handoff
          Handoffs        \* 1..n

ASSUME CrossPortfolioAssumption ==
    \A set \in {Authorizations, Handoffs} : IsFiniteSet(set) /\ set = 1..Cardinality(set)

VARIABLES authorization,  \* authorization[a]: its scope and whether it is live
          handoff,        \* handoff[h]: its row
          opportunity     \* state of the one opportunity, which names the client

crossRows == <<authorization, handoff, opportunity>>
crossVars == <<crossRows, deskVars>>

NoHandoff == [state |-> "none", scope |-> "none", consent |-> 0]

CrossInit ==
    /\ authorization = [a \in Authorizations |-> [state |-> "none", scope |-> "none"]]
    /\ handoff = [h \in Handoffs |-> NoHandoff]
    /\ opportunity = [state |-> "none", scope |-> "none"]

Dead == {a \in Authorizations : authorization[a].state \in {"revoked", "expired"}}
LiveFor(scope) == {a \in Authorizations :
                      authorization[a] = [state |-> "live", scope |-> scope]}

-----------------------------------------------------------------------------
(***************************************************************************)
(* Consents.                                                               *)
(***************************************************************************)
GrantConsent(c) ==
    \E a \in Authorizations, s \in Scopes :
        /\ authorization[a].state = "none"
        /\ \A b \in 1..(a - 1) : authorization[b].state # "none"
        /\ Begins(c, AtRest)
        /\ authorization' = [authorization EXCEPT ![a] = [state |-> "live", scope |-> s]]
        /\ UNCHANGED <<handoff, opportunity>>

RevokeConsent(c) ==
    \E a \in Authorizations :
        /\ authorization[a].state # "none" /\ Begins(c, AtRest)
        /\ authorization' = [authorization EXCEPT ![a].state = "revoked"]
        /\ UNCHANGED <<handoff, opportunity>>

Expire == \E a \in Authorizations :
             /\ authorization[a].state = "live"
             /\ authorization' = [authorization EXCEPT ![a].state = "expired"]
             /\ UNCHANGED <<handoff, opportunity, deskVars>>

-----------------------------------------------------------------------------
(***************************************************************************)
(* Handoffs.                                                               *)
(***************************************************************************)
NoneOpen == \A h \in Handoffs : handoff[h].state \notin {"proposed", "consented"}

Becomes(c, h, row) == /\ handoff' = [handoff EXCEPT ![h] = row] /\ Finishes(c)
                      /\ UNCHANGED <<authorization, opportunity>>

ProposeHandoff(c) ==
    \/ /\ NoneOpen
       /\ \E s \in Scopes : Begins(c, [op |-> "propose", scope |-> s])
       /\ UNCHANGED crossRows
    \/ /\ Doing(c, "propose")
       /\ \E h \in Handoffs :
            /\ handoff[h] = NoHandoff /\ \A g \in 1..(h - 1) : handoff[g] # NoHandoff
            /\ Becomes(c, h, [NoHandoff EXCEPT !.state = "proposed", !.scope = request[c].scope])

\* A consent to these words, which need not be live any more.
RecordConsent(c) ==
    \/ \E h \in Handoffs, a \in Authorizations :
          /\ handoff[h].state = "proposed"
          /\ authorization[a].state # "none" /\ authorization[a].scope = handoff[h].scope
          /\ Begins(c, [op |-> "link", on |-> h, consent |-> a]) /\ UNCHANGED crossRows
    \/ /\ Doing(c, "link")
       /\ Becomes(c, request[c].on, [handoff[request[c].on] EXCEPT
                                       !.state = "consented", !.consent = request[c].consent])

\* Mutant: a handoff that is consented is consented to.
TransferOnState(c) ==
    \/ \E h \in Handoffs :
          /\ handoff[h].state = "consented"
          /\ Begins(c, [op |-> "transfer", on |-> h, consent |-> handoff[h].consent,
                        dead |-> Dead])
          /\ UNCHANGED crossRows
    \/ /\ Doing(c, "transfer")
       /\ Becomes(c, request[c].on, [handoff[request[c].on] EXCEPT !.state = "transferred"])

\* transferHandoff: the row, then the consent as it is now, then the write.
TransferHandoff(c) ==
    \/ \E h \in Handoffs :
          /\ handoff[h].state = "consented"
          /\ Begins(c, [op |-> "check", on |-> h, consent |-> handoff[h].consent, dead |-> Dead])
          /\ UNCHANGED crossRows
    \/ /\ Doing(c, "check")
       /\ IF authorization[request[c].consent].state = "live"
          THEN GoesOn(c, [request[c] EXCEPT !.op = "transfer"]) ELSE Finishes(c)
       /\ UNCHANGED crossRows
    \/ /\ Doing(c, "transfer")
       /\ Becomes(c, request[c].on, [handoff[request[c].on] EXCEPT !.state = "transferred"])

\* From any state.
DeclineHandoff(c) ==
    \E h \in Handoffs :
        /\ handoff[h] # NoHandoff /\ Begins(c, AtRest)
        /\ handoff' = [handoff EXCEPT ![h].state = "declined"]
        /\ UNCHANGED <<authorization, opportunity>>

-----------------------------------------------------------------------------
(***************************************************************************)
(* Opportunities.                                                          *)
(***************************************************************************)
Moves(c, state) == /\ opportunity' = [opportunity EXCEPT !.state = state] /\ Finishes(c)
                   /\ UNCHANGED <<authorization, handoff>>

DetectOpportunity(c) ==
    /\ opportunity.state = "none" /\ Begins(c, AtRest)
    /\ \E s \in Scopes : opportunity' = [state |-> "detected", scope |-> s]
    /\ UNCHANGED <<authorization, handoff>>

RecordGardnerDecision(c) ==
    \/ /\ opportunity.state = "detected"
       /\ \E as \in {"gardner_approved", "gardner_declined"} :
             Begins(c, [op |-> "decide", as |-> as])
       /\ UNCHANGED crossRows
    \/ Doing(c, "decide") /\ Moves(c, request[c].as)

\* checkConsent: any live consent to this venture will do.
Route(c) ==
    \/ /\ opportunity.state = "gardner_approved"
       /\ Begins(c, [op |-> "may route", dead |-> Dead]) /\ UNCHANGED crossRows
    \/ /\ Doing(c, "may route")
       /\ IF LiveFor(opportunity.scope) # {}
          THEN GoesOn(c, [request[c] EXCEPT !.op = "route"]) ELSE Finishes(c)
       /\ UNCHANGED crossRows
    \/ Doing(c, "route") /\ Moves(c, "routed")

DismissOpportunity(c) ==
    \/ /\ opportunity.state \notin {"none", "routed"}
       /\ Begins(c, [op |-> "dismiss"]) /\ UNCHANGED crossRows
    \/ Doing(c, "dismiss") /\ Moves(c, "dismissed")

CrossNext ==
    \/ Expire
    \/ \E c \in Clerks :
         \/ GrantConsent(c) \/ RevokeConsent(c)
         \/ ProposeHandoff(c) \/ RecordConsent(c) \/ TransferHandoff(c) \/ DeclineHandoff(c)
         \/ DetectOpportunity(c) \/ RecordGardnerDecision(c) \/ Route(c) \/ DismissOpportunity(c)
         \/ ClerkDies(c) /\ UNCHANGED crossRows

-----------------------------------------------------------------------------
CrossTypeOK ==
    /\ \A a \in Authorizations :
          authorization[a].state \in {"none", "live", "revoked", "expired"}
    /\ \A h \in Handoffs :
          /\ handoff[h].state \in {"none", "proposed", "consented", "transferred", "declined"}
          /\ handoff[h].consent \in Authorizations \union {0}
    /\ opportunity.state \in {"none", "detected", "gardner_approved", "gardner_declined",
                              "routed", "dismissed"}

\* A revocation takes effect at once: nothing leaves on an authorization that
\* was gone before somebody asked for the transfer, and only on one to the
\* very words of the handoff (recordConsent, transferHandoff, route).
RevocationStopsTransfers ==
    [][\A c \in Clerks :
         /\ Doing(c, "transfer") /\ request'[c] = AtRest /\ handoff' # handoff =>
               /\ request[c].consent \notin request[c].dead
               /\ authorization[request[c].consent].scope = handoff[request[c].on].scope
         /\ Doing(c, "route") /\ opportunity' # opportunity /\ opportunity'.state = "routed" =>
               \E a \in Authorizations \ request[c].dead :
                   authorization[a].scope = opportunity.scope]_crossVars
=============================================================================
