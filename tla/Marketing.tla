------------------------------ MODULE Marketing ------------------------------
(***************************************************************************)
(* What the firm may say and what it says, packages/claims, scanner and    *)
(* marketing: the claim library and the Board's proposal for it, the       *)
(* scanner that reads it, one asset and one experiment written against it. *)
(* The library may change between any two of their steps.                  *)
(***************************************************************************)
EXTENDS Desk

CONSTANTS Phrases,       \* of the library
          Proposed,      \* the phrase that is proposed
          Copies,        \* what can be written: [says, discloses], subsets of Phrases
          Arms           \* keys of an experiment's variants

ASSUME MarketingAssumption ==
    /\ Proposed \in Phrases /\ IsFiniteSet(Arms)
    /\ Copies \subseteq [says : SUBSET Phrases, discloses : SUBSET Phrases]

VARIABLES library,       \* the MarketingClaim row of each phrase
          proposal,      \* the ClaimProposal row
          asset,         \* the MarketingAsset row
          experiment     \* the Experiment row and its variants

marketingRows == <<library, proposal, asset, experiment>>
marketingVars == <<marketingRows, deskVars>>

Dispositions == {"approved", "banned", "requires_disclaimer"}
NoClaim  == [disposition |-> "none", active |-> FALSE, version |-> 0]
Founding == [disposition |-> "banned", active |-> TRUE, version |-> 1]
NoCopy   == [says |-> {}, discloses |-> {}]
NoArm    == [body |-> NoCopy, verdict |-> "none"]

\* The seed bans; what may be said is proposed.
MarketingInit ==
    /\ library = [p \in Phrases |-> IF p = Proposed THEN NoClaim ELSE Founding]
    /\ proposal = "none"
    /\ asset = [state |-> "none", body |-> NoCopy]
    /\ experiment = [started |-> FALSE, ended |-> FALSE, arms |-> [a \in Arms |-> NoArm]]

ActiveLibrary == {p \in Phrases : library[p].active}

\* Word-bounded matches of active entries that are not simply approved.
Findings(body) == {p \in body.says \cap ActiveLibrary : library[p].disposition # "approved"}

ScanText(body) ==
    CASE \E p \in Findings(body) : library[p].disposition = "banned" -> "blocked"
      [] Findings(body) = {} -> "clean"
      [] OTHER -> "requires_disclosure"

\* A library with nothing in it scans nothing, and is no pass.
ScanForTenant(body) == IF ActiveLibrary = {} THEN "refused" ELSE ScanText(body)

RequiredDisclosures(body) ==
    {p \in Findings(body) : library[p].disposition = "requires_disclaimer"}

\* publish, alone or for a proposal: the version is read before the upsert.
Upsert(p, disposition, version) ==
    library' = [library EXCEPT ![p] = [disposition |-> disposition, active |-> TRUE,
                                       version |-> IF @ = NoClaim THEN 1 ELSE version + 1]]

Publish(c) ==
    \/ /\ UNCHANGED marketingRows
       /\ \E p \in Phrases, d \in Dispositions :
             Begins(c, [op |-> "publish", phrase |-> p, disposition |-> d,
                        version |-> library[p].version])
    \/ /\ Doing(c, "publish") /\ Finishes(c)
       /\ Upsert(request[c].phrase, request[c].disposition, request[c].version)
       /\ UNCHANGED <<proposal, asset, experiment>>

Deprecate(c) ==
    \E p \in {q \in Phrases : library[q] # NoClaim} :
        /\ library' = [library EXCEPT ![p].active = FALSE] /\ Begins(c, AtRest)
        /\ UNCHANGED <<proposal, asset, experiment>>

ProposeClaim(c) ==
    /\ proposal = "none" /\ Proposed \notin ActiveLibrary /\ Begins(c, AtRest)
    /\ proposal' = "submitted" /\ UNCHANGED <<library, asset, experiment>>

\* Approving as banned is an answer too.
ApproveProposal(c) ==
    \/ /\ proposal = "submitted" /\ UNCHANGED marketingRows
       /\ \E d \in Dispositions : Begins(c, [op |-> "look up", disposition |-> d])
    \/ /\ Doing(c, "look up") /\ UNCHANGED marketingRows
       /\ GoesOn(c, [op |-> "enter", disposition |-> request[c].disposition,
                     version |-> library[Proposed].version])
    \/ /\ Doing(c, "enter") /\ GoesOn(c, [op |-> "decide"])
       /\ Upsert(Proposed, request[c].disposition, request[c].version)
       /\ UNCHANGED <<proposal, asset, experiment>>
    \/ /\ Doing(c, "decide") /\ Finishes(c) /\ proposal' = "approved"
       /\ UNCHANGED <<library, asset, experiment>>

RejectProposal(c) ==
    \/ proposal = "submitted" /\ UNCHANGED marketingRows /\ Begins(c, [op |-> "reject"])
    \/ /\ Doing(c, "reject") /\ Finishes(c) /\ proposal' = "rejected"
       /\ UNCHANGED <<library, asset, experiment>>

CreateAsset(c) ==
    /\ asset.state = "none" /\ Begins(c, AtRest)
    /\ \E b \in Copies : asset' = [state |-> "draft", body |-> b]
    /\ UNCHANGED <<library, proposal, experiment>>

\* From any state; a block is a decision, not a draft.
SubmitAssetForReview(c) ==
    \/ /\ asset.state # "none" /\ ScanForTenant(asset.body) # "refused" /\ UNCHANGED marketingRows
       /\ Begins(c, [op |-> "submit", verdict |-> ScanForTenant(asset.body)])
    \/ /\ Doing(c, "submit") /\ Finishes(c)
       /\ asset' = [asset EXCEPT !.state = IF request[c].verdict = "blocked" THEN "rejected"
                                           ELSE "in_review"]
       /\ UNCHANGED <<library, proposal, experiment>>

\* Only from in_review, where the scan was.
ApproveAsset(c) ==
    \/ asset.state = "in_review" /\ UNCHANGED marketingRows /\ Begins(c, [op |-> "approve"])
    \/ /\ Doing(c, "approve") /\ Finishes(c) /\ asset' = [asset EXCEPT !.state = "approved"]
       /\ UNCHANGED <<library, proposal, experiment>>

Variants == {a \in Arms : experiment.arms[a] # NoArm}

\* An arm that may not run is refused to whoever writes it.
Admits(body) ==
    /\ ScanForTenant(body) \in {"clean", "requires_disclosure"}
    /\ RequiredDisclosures(body) \subseteq body.discloses

RegisterVariant(c) ==
    \/ /\ ~experiment.started /\ UNCHANGED marketingRows
       /\ \E a \in Arms, b \in Copies : Begins(c, [op |-> "scan", arm |-> a, body |-> b])
    \/ /\ Doing(c, "scan") /\ UNCHANGED marketingRows /\ Admits(request[c].body)
       /\ GoesOn(c, [op |-> "register", arm |-> request[c].arm, body |-> request[c].body,
                     verdict |-> ScanForTenant(request[c].body)])
    \/ /\ Doing(c, "scan") /\ ~Admits(request[c].body) /\ Finishes(c) /\ UNCHANGED marketingRows
    \/ /\ Doing(c, "register") /\ Finishes(c)
       /\ experiment' = [experiment EXCEPT !.arms[request[c].arm] =
                            [body |-> request[c].body, verdict |-> request[c].verdict]]
       /\ UNCHANGED <<library, proposal, asset>>

\* Nothing scans again, and nothing asks whether it runs already.
StartExperiment(c) ==
    \/ /\ Cardinality(Variants) >= 2 /\ UNCHANGED marketingRows
       /\ Begins(c, [op |-> "start"])
    \/ /\ Doing(c, "start") /\ Finishes(c) /\ experiment' = [experiment EXCEPT !.started = TRUE]
       /\ UNCHANGED <<library, proposal, asset>>

DeclareWinner(c) ==
    /\ Variants # {} /\ Begins(c, AtRest) /\ experiment' = [experiment EXCEPT !.ended = TRUE]
    /\ UNCHANGED <<library, proposal, asset>>

StaleVariants == {a \in Variants : ScanForTenant(experiment.arms[a].body) # experiment.arms[a].verdict}

MarketeerDies(c) == ClerkDies(c) /\ UNCHANGED marketingRows

MarketingNext ==
    \E c \in Clerks :
        \/ Publish(c) \/ Deprecate(c) \/ ProposeClaim(c) \/ ApproveProposal(c) \/ RejectProposal(c)
        \/ CreateAsset(c) \/ SubmitAssetForReview(c) \/ ApproveAsset(c)
        \/ RegisterVariant(c) \/ StartExperiment(c) \/ DeclareWinner(c) \/ MarketeerDies(c)

-----------------------------------------------------------------------------
MarketingTypeOK ==
    /\ \A p \in Phrases : library[p].disposition \in Dispositions \union {"none"}
    /\ proposal \in {"none", "submitted", "approved", "rejected"}
    /\ asset.state \in {"none", "draft", "in_review", "approved", "rejected"}
    /\ \A a \in Variants : experiment.arms[a].body \in Copies

\* What has been banned all along is in nothing that a client may read, however
\* submissions, reviews, registrations and changes of the library interleave
\* (submitAssetForReview, approveAsset, registerVariant).  A ban that comes
\* after the scan is another matter: StaleArmsAreSeen.
BannedAllAlongIsUnsaid ==
    \A p \in Phrases \ {Proposed} : library[p] = Founding =>
        /\ asset.state \in {"in_review", "approved"} => p \notin asset.body.says
        /\ \A a \in Variants : p \notin experiment.arms[a].body.says

\* There is no moment at which a proposal reads approved and the library never
\* had its phrase, whoever decides at once and whoever dies (approveProposal).
ApprovedIsInTheLibrary == proposal = "approved" => library[Proposed] # NoClaim

\* An experiment that ran had two arms to compare, and an arm that needed a
\* disclosure carries one of its own (startExperiment, registerVariant).
ArmsAreComparable ==
    /\ experiment.started => Cardinality(Variants) >= 2
    /\ \A a \in Variants : experiment.arms[a].verdict = "requires_disclosure" =>
          experiment.arms[a].body.says \cap experiment.arms[a].body.discloses # {}

\* An arm that would not be admitted today is reported, unless it already
\* needed a disclosure and now needs another (staleVariants compares verdicts).
StaleArmsAreSeen ==
    \A a \in Variants : LET arm == experiment.arms[a]
        IN  \/ Admits(arm.body)
            \/ a \in StaleVariants
            \/ arm.verdict = "requires_disclosure" /\ RequiredDisclosures(arm.body) # {}
=============================================================================
