----------------------------- MODULE Providers -----------------------------
(***************************************************************************)
(* The lenders: what they offer (packages/lenders), the governance board's *)
(* file on each and the complaints about it (packages/governance), and     *)
(* the recommendation made to a client from both                           *)
(* (packages/placement/src/recommend.ts).                                  *)
(***************************************************************************)
EXTENDS Desk, SequencesExt, Integers

CONSTANTS Providers,
          Dimensions,      \* what an offering may ask of a client
          Scores,          \* suitability, cost breaking ties
          Weights,         \* COMPLAINT_WEIGHTS
          FlagThreshold,   \* COMPLAINT_FLAG_THRESHOLD
          MaximumCadence   \* MAXIMUM_REVIEW_CADENCE_DAYS

ASSUME ProvidersAssumption ==
    /\ Weights \subseteq Nat \ {0} /\ Scores \subseteq Int
    /\ FlagThreshold \in Nat \ {0} /\ MaximumCadence \in Nat /\ IsFiniteSet(Providers)

VARIABLES offering,      \* offering[p]: its offering's underwriting box and score
          file,          \* file[p]: the ProviderGovernance row
          complaints,    \* complaints[p]: the ProviderComplaint rows, weight and receivedAt
          overruled,     \* providers the board decided on over a score at the threshold
          answer         \* the last recommendation

providersRows == <<offering, file, complaints, overruled, answer>>
providersVars == <<providersRows, deskVars>>

Statuses == {"none", "pending_review", "approved", "under_review", "suspended", "blacklisted"}
NoFile == [status |-> "none", reviewed |-> {}, restricted |-> FALSE, window |-> 0,
           cadence |-> MaximumCadence]
NoAnswer == [box |-> [p \in {} |-> 0], presented |-> <<>>, rejected |-> {}]

ProvidersInit ==
    /\ offering = [p \in Providers |-> [listed |-> FALSE, asks |-> {}, score |-> 0]]
    /\ file \in [Providers -> {NoFile} \union
                    {[NoFile EXCEPT !.status = "approved", !.reviewed = {0}, !.cadence = days] :
                        days \in 0..MaximumCadence}]
    /\ complaints = [p \in Providers |-> <<>>]
    /\ overruled = {} /\ answer = NoAnswer

\* An offering that is named again is replaced.
AddOffering(c) ==
    \E p \in Providers, asks \in SUBSET Dimensions, score \in Scores :
        /\ Begins(c, AtRest)
        /\ offering' = [offering EXCEPT ![p] = [listed |-> TRUE, asks |-> asks, score |-> score]]
        /\ UNCHANGED <<file, complaints, overruled, answer>>

-----------------------------------------------------------------------------
(***************************************************************************)
(* The file.  Each decision is a read and then a write of what it decided. *)
(***************************************************************************)
\* Instants are numbered too: the work of day d lies between d and d + 1.
Instants == {today, today + 1}

WindowScore(rows, window) ==
    MapThenSumSet(LAMBDA i : rows[i].weight, {i \in DOMAIN rows : rows[i].received >= window})

Over(p, row) == WindowScore(complaints[p], row.window) >= FlagThreshold

Opens(c, op, p) ==
    Begins(c, [op |-> op, of |-> p]) /\ UNCHANGED providersRows

Decides(c, row) ==
    LET p == request[c].of IN
    /\ file' = [file EXCEPT ![p] = row] /\ Finishes(c)
    /\ overruled' = IF row.status = "approved" /\ Over(p, row)
                    THEN overruled \union {p} ELSE overruled \ {p}
    /\ UNCHANGED <<offering, complaints, answer>>

\* Whatever the status was.
SubmitForReview(c) ==
    \/ \E p \in Providers : Opens(c, "submit", p)
    \/ Doing(c, "submit") /\ Decides(c, [file[request[c].of] EXCEPT !.status = "pending_review"])

\* The instant it counts complaints from is taken when the file was read.
Approve(c) ==
    \/ \E p \in Providers, restricted \in BOOLEAN, days \in 0..MaximumCadence, at \in Instants :
          /\ file[p].status # "blacklisted"
          /\ Begins(c, [op |-> "approve", of |-> p, restricted |-> restricted, days |-> days,
                        window |-> at])
          /\ UNCHANGED providersRows
    \/ /\ Doing(c, "approve")
       /\ Decides(c, [status |-> "approved", reviewed |-> {today},
                      restricted |-> request[c].restricted, window |-> request[c].window,
                      cadence |-> request[c].days])

RecordReview(c) ==
    \/ \E p \in Providers, at \in Instants :
          /\ file[p] # NoFile
          /\ Begins(c, [op |-> "review", of |-> p, window |-> at])
          /\ UNCHANGED providersRows
    \/ /\ Doing(c, "review")
       /\ Decides(c, [file[request[c].of] EXCEPT !.reviewed = {today},
                                                 !.window = request[c].window])

\* flagForReview, suspend, blacklist and reinstate.
Transition(c) ==
    \/ \E p \in Providers : file[p] # NoFile /\ Opens(c, "transition", p)
    \/ /\ Doing(c, "transition")
       /\ \E status \in Statuses \ {"none", "approved"} :
             Decides(c, [file[request[c].of] EXCEPT !.status = status])

\* The row, the file, and the score of all the rows in its window.  When the
\* complaint was received is for the caller to say, however long ago it was.
RecordComplaint(c) ==
    \/ \E p \in Providers, w \in Weights, at \in 0..(today + 1) :
          /\ complaints' = [complaints EXCEPT ![p] = Append(@, [weight |-> w, received |-> at])]
          /\ Begins(c, [op |-> "file", of |-> p])
          /\ UNCHANGED <<offering, file, overruled, answer>>
    \/ /\ Doing(c, "file") /\ UNCHANGED providersRows
       /\ IF file[request[c].of] = NoFile THEN Finishes(c)
          ELSE GoesOn(c, [op |-> "score", of |-> request[c].of, row |-> file[request[c].of]])
    \/ /\ Doing(c, "score") /\ UNCHANGED providersRows
       /\ IF Over(request[c].of, request[c].row) /\ request[c].row.status = "approved"
          THEN GoesOn(c, [op |-> "flag", of |-> request[c].of]) ELSE Finishes(c)

FlagForReview(c) ==
    /\ Doing(c, "flag") /\ Decides(c, [file[request[c].of] EXCEPT !.status = "under_review"])

-----------------------------------------------------------------------------
(***************************************************************************)
(* The recommendation: the catalogue, then the standings, then the rest.   *)
(* A client's profile has each dimension as meeting what may be asked,     *)
(* failing it, or not recorded.                                            *)
(***************************************************************************)
\* Mutant: approved once is approved.
StillOnTheList(row) == row.status = "approved" /\ ~row.restricted

Recommendable(row) ==
    /\ row.status = "approved" /\ ~row.restricted
    /\ \E day \in row.reviewed : today - day <= LesserOf(row.cadence, MaximumCadence)

EvaluateEligibility(asks, profile) ==
    IF \E d \in asks : profile[d] = "fails" THEN "ineligible"
    ELSE IF \E d \in asks : profile[d] = "unknown" THEN "unknown"
    ELSE "eligible"

\* Best score first, in any order among equals.
Ranked(box, fit) ==
    {order \in SetToSeqs(fit) :
        \A i, j \in DOMAIN order : i < j => box[order[i]].score >= box[order[j]].score}

\* At most `limit` of them; every other one is rejected at its stage.
Present(box, fit, order, limit) ==
    LET cut == LesserOf(limit, Len(order)) IN
    [box |-> box, presented |-> SubSeq(order, 1, cut),
     rejected |-> (DOMAIN box \ fit) \union ToSet(SubSeq(order, cut + 1, Len(order)))]

RankCandidates(c) ==
    \/ \E profile \in [Dimensions -> {"meets", "fails", "unknown"}], limit \in 1..2 :
          LET listed == {p \in Providers : offering[p].listed} IN
          /\ listed # {}
          /\ Begins(c, [op |-> "recommend", profile |-> profile, limit |-> limit,
                        box |-> [p \in listed |-> offering[p]]])
          /\ UNCHANGED providersRows
    \/ /\ Doing(c, "recommend") /\ Finishes(c)
       /\ LET box == request[c].box
              fit == {p \in DOMAIN box : /\ Recommendable(file[p])
                                         /\ EvaluateEligibility(box[p].asks, request[c].profile)
                                               = "eligible"}
          IN  \E order \in Ranked(box, fit) :
                 answer' = Present(box, fit, order, request[c].limit)
       /\ UNCHANGED <<offering, file, complaints, overruled>>

ProvidersNext ==
    \/ DayPasses /\ UNCHANGED providersRows
    \/ \E c \in Clerks :
          \/ AddOffering(c) \/ SubmitForReview(c) \/ Approve(c) \/ RecordReview(c)
          \/ Transition(c) \/ RecordComplaint(c) \/ FlagForReview(c) \/ RankCandidates(c)

-----------------------------------------------------------------------------
ProvidersTypeOK ==
    /\ \A p \in Providers :
          /\ file[p].status \in Statuses /\ file[p].reviewed \subseteq 0..today
          /\ file[p].window \in 0..(today + 1) /\ file[p].cadence \in Nat
    /\ overruled \subseteq Providers /\ answer.rejected \subseteq DOMAIN answer.box

\* Complaints that together reach the threshold take a provider off the list,
\* whatever order they come in: it stays approved only while one of them is
\* still being recorded, or where the board itself decided over them.  With
\* nobody dying (recordComplaint, windowScore).
ComplaintsAddUp ==
    \A p \in Providers :
        file[p].status = "approved" /\ Over(p, file[p]) =>
            \/ p \in overruled
            \/ \E c \in Clerks : request[c].op \in {"file", "score", "flag"} /\ request[c].of = p

\* What was considered is accounted for: each offering is presented or rejected
\* with a reason, never both (rankCandidates).
NothingIsDropped ==
    LET shown == ToSet(answer.presented) IN
    /\ shown \union answer.rejected = DOMAIN answer.box
    /\ shown \intersect answer.rejected = {}

\* No client is shown a provider the board has taken off, or has not looked at
\* within the provider's own cadence and the board's, when the answer is given,
\* however long ago its offering was read from the catalogue (standingFor,
\* standing).
RecommendedIsGoverned ==
    [][answer' # answer =>
         \A i \in DOMAIN answer'.presented :
            LET row == file[answer'.presented[i]] IN
            /\ row.status = "approved"
            /\ \E day \in row.reviewed :
                  day + MaximumCadence >= today /\ day + row.cadence >= today]_providersVars
=============================================================================
