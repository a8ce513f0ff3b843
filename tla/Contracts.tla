----------------------------- MODULE Contracts -----------------------------
(***************************************************************************)
(* What a client signs, packages/contracts, and the regulatory module of   *)
(* the client's state it is signed under, packages/regulatory.  Both have  *)
(* versions that are material or editorial changes, and counsel reviews    *)
(* them; an editorial version stands on the review of the one before.      *)
(***************************************************************************)
EXTENDS Desk, Sequences

CONSTANT LastVersion       \* model bound on the versions of either

ASSUME VersionsAssumption == LastVersion \in Nat

VARIABLES stateModule,     \* the versions of the state's module: their change kinds
          counselReviews,  \* versions of it with a CounselReview
          activation,      \* the StateActivation row; version 0 when there is none
          template,        \* the versions of the contract template
          templateReviews, \* versions of it with a TemplateReview
          clause,          \* the clause it inserts: its version per jurisdiction, or 0
          contracts        \* the generated contracts; `asked`, a history, is the
                           \* clause in force when one was asked for

contractRows == <<stateModule, counselReviews, activation, template, templateReviews,
                  clause, contracts>>
contractVars == <<contractRows, deskVars>>

Jurisdictions == {"*", "state"}

ContractsInit ==
    /\ stateModule = <<>> /\ counselReviews = {}
    /\ activation = [version |-> 0, withdrawn |-> FALSE]
    /\ template = <<>> /\ templateReviews = {}
    /\ clause = [j \in Jurisdictions |-> 0] /\ contracts = {}

-----------------------------------------------------------------------------
\* A publisher reads the current version and writes the next; when that is
\* taken (@@unique) the transaction aborts.  The first is never editorial.
Publishable(versions, change) ==
    Len(versions) < LastVersion /\ (versions = <<>> => change = "material")

Published(versions, read, change) ==
    IF Len(versions) = read THEN Append(versions, change) ELSE versions

MaterialSince(versions, low, high) ==
    \E v \in (low + 1)..high : versions[v] = "material"

PublishStateModule(c) ==
    \/ \E change \in {"material", "editorial"} :
          /\ Publishable(stateModule, change)
          /\ Begins(c, [op |-> "module", read |-> Len(stateModule), change |-> change])
          /\ UNCHANGED contractRows
    \/ /\ Doing(c, "module")
       /\ stateModule' = Published(stateModule, request[c].read, request[c].change)
       /\ Finishes(c)
       /\ UNCHANGED <<counselReviews, activation, template, templateReviews, clause, contracts>>

\* The review of the version that was current when it began, then the row.
ActivateState(c) ==
    \/ /\ stateModule # <<>>
       /\ Begins(c, [op |-> "review", version |-> Len(stateModule)]) /\ UNCHANGED contractRows
    \/ /\ Doing(c, "review") /\ GoesOn(c, [request[c] EXCEPT !.op = "activate"])
       /\ counselReviews' = counselReviews \union {request[c].version}
       /\ UNCHANGED <<stateModule, activation, template, templateReviews, clause, contracts>>
    \/ /\ Doing(c, "activate") /\ Finishes(c)
       /\ activation' = [version |-> request[c].version, withdrawn |-> FALSE]
       /\ UNCHANGED <<stateModule, counselReviews, template, templateReviews, clause, contracts>>

WithdrawState(c) ==
    \/ /\ activation.version # 0 /\ Begins(c, [op |-> "withdraw"]) /\ UNCHANGED contractRows
    \/ /\ Doing(c, "withdraw") /\ Finishes(c)
       /\ activation' = [activation EXCEPT !.withdrawn = TRUE]
       /\ UNCHANGED <<stateModule, counselReviews, template, templateReviews, clause, contracts>>

-----------------------------------------------------------------------------
PublishTemplate(c) ==
    \/ \E change \in {"material", "editorial"} :
          /\ Publishable(template, change)
          /\ Begins(c, [op |-> "template", read |-> Len(template), change |-> change])
          /\ UNCHANGED contractRows
    \/ /\ Doing(c, "template")
       /\ template' = Published(template, request[c].read, request[c].change)
       /\ Finishes(c)
       /\ UNCHANGED <<stateModule, counselReviews, activation, templateReviews, clause,
                      contracts>>

\* Of any version there is, the old ones too.
ReviewTemplate(c) ==
    \E v \in 1..Len(template) :
        /\ Begins(c, AtRest) /\ templateReviews' = templateReviews \union {v}
        /\ UNCHANGED <<stateModule, counselReviews, activation, template, clause, contracts>>

\* A clause's text is replaced by whoever publishes it: nobody reviews a version.
PublishClause(c) ==
    \/ \E j \in Jurisdictions :
          /\ clause[j] < LastVersion
          /\ Begins(c, [op |-> "clause", on |-> j, read |-> clause[j]])
          /\ UNCHANGED contractRows
    \/ /\ Doing(c, "clause")
       /\ clause' = [clause EXCEPT ![request[c].on] =
             IF @ = request[c].read THEN request[c].read + 1 ELSE @]
       /\ Finishes(c)
       /\ UNCHANGED <<stateModule, counselReviews, activation, template, templateReviews,
                      contracts>>

\* applicableClauses: the clause for the state wins over the one for all.
ClauseInForce ==
    LET j == IF clause["state"] # 0 THEN "state" ELSE "*"
    IN  [jurisdiction |-> j, version |-> clause[j]]

\* Mutant: a template that was reviewed is reviewed.
TemplateWasReviewed(version) == {v \in templateReviews : v <= version} # {}

\* Reviewed, or reviewed before and every version since editorial.
TemplateIsGenerable(version) ==
    LET reviewed == {v \in templateReviews : v <= version}
    IN  reviewed # {} /\ ~MaterialSince(template, Max(reviewed), version)

-----------------------------------------------------------------------------
(***************************************************************************)
(* generateContract reads one thing after the other.  standingFor is three *)
(* reads: the module, the activation, and material versions since.         *)
(***************************************************************************)
Goes(c, op) == GoesOn(c, [request[c] EXCEPT !.op = op]) /\ UNCHANGED contractRows
GoesIf(c, holds, op) == IF holds THEN Goes(c, op) ELSE Finishes(c) /\ UNCHANGED contractRows

StandingFor(c) ==
    \/ /\ stateModule # <<>> /\ UNCHANGED contractRows
       /\ Begins(c, [op |-> "activation", module |-> Len(stateModule), active |-> 0,
                     disclosures |-> 0, template |-> 0,
                     asked |-> ClauseInForce, clause |-> ClauseInForce])
    \/ /\ Doing(c, "activation") /\ UNCHANGED contractRows
       /\ IF activation.version # 0 /\ ~activation.withdrawn
          THEN GoesOn(c, [request[c] EXCEPT !.op = "material", !.active = activation.version])
          ELSE Finishes(c)
    \/ /\ Doing(c, "material")
       /\ GoesIf(c, ~MaterialSince(stateModule, request[c].active, Len(stateModule)),
                 "disclosures")

RequiredDisclosures(c) ==
    /\ Doing(c, "disclosures") /\ UNCHANGED contractRows
    /\ GoesOn(c, [request[c] EXCEPT !.op = "text", !.disclosures = Len(stateModule)])

CurrentTemplate(c) ==
    /\ Doing(c, "text") /\ UNCHANGED contractRows
    /\ IF template = <<>> THEN Finishes(c)
       ELSE GoesOn(c, [request[c] EXCEPT !.op = "generable", !.template = Len(template)])

\* The clause that is in force is spliced in, and there must be one.
SelectClause(c) ==
    /\ Doing(c, "clauses") /\ UNCHANGED contractRows
    /\ IF ClauseInForce.version = 0 THEN Finishes(c)
       ELSE GoesOn(c, [request[c] EXCEPT !.op = "create", !.clause = ClauseInForce])

\* The scan of the assembled text passes or refuses.
GenerateContract(c) ==
    \/ StandingFor(c)
    \/ RequiredDisclosures(c)
    \/ CurrentTemplate(c)
    \/ Doing(c, "generable") /\ GoesIf(c, TemplateIsGenerable(request[c].template), "clauses")
    \/ SelectClause(c)
    \/ /\ Doing(c, "create") /\ Finishes(c)
       /\ contracts' = contracts \union
             {[template |-> request[c].template, module |-> request[c].module,
               disclosures |-> request[c].disclosures,
               asked |-> request[c].asked, clause |-> request[c].clause]}
       /\ UNCHANGED <<stateModule, counselReviews, activation, template, templateReviews, clause>>

\* staleContracts: the contracts it reports when it runs.
StaleContracts == {k \in contracts : k.module < Len(stateModule)}

ContractsNext ==
    \E c \in Clerks :
        \/ PublishStateModule(c) \/ ActivateState(c) \/ WithdrawState(c)
        \/ PublishTemplate(c) \/ ReviewTemplate(c) \/ PublishClause(c)
        \/ GenerateContract(c)
        \/ ClerkDies(c) /\ UNCHANGED contractRows

-----------------------------------------------------------------------------
ContractsTypeOK ==
    /\ {stateModule, template} \subseteq
          UNION {[1..n -> {"material", "editorial"}] : n \in 0..LastVersion}
    /\ counselReviews \subseteq DOMAIN stateModule /\ templateReviews \subseteq DOMAIN template
    /\ activation.version \in counselReviews \union {0}
    /\ clause \in [Jurisdictions -> 0..LastVersion]

\* Counsel stands behind the template of every text a client is asked to sign: a
\* version it reviewed, and nothing but editorial ones since, whatever was
\* published and reviewed while the document was put together
\* (templateIsGenerable).  The clause that is spliced into it is not covered:
\* no review of a clause exists (publishClause).
SignedTextWasReviewed ==
    \A k \in contracts : \E v \in templateReviews :
        v <= k.template /\ ~MaterialSince(template, v, k.template)

\* A contract is reported for replacement when its state's rules moved on: one
\* that carries disclosures that are not the current ones never passes for
\* up to date (staleContracts, generateContract, standingFor).
OutdatedIsReported ==
    \A k \in contracts : k.disclosures < Len(stateModule) => k \in StaleContracts

\* The term a client signs is the one that was in force when the contract was
\* asked for, or a later one: no version that had been replaced, and never the
\* general clause where the state had one of its own, whoever publishes in
\* between (applicableClauses, generateContract).
TermsAreInForce ==
    \A k \in contracts :
        /\ 0 < k.clause.version /\ k.clause.version <= clause[k.clause.jurisdiction]
        /\ k.asked.jurisdiction = "state" => k.clause.jurisdiction = "state"
        /\ k.asked.jurisdiction = k.clause.jurisdiction => k.asked.version <= k.clause.version
=============================================================================
