--------------------------- MODULE PartnerPayouts ---------------------------
(***************************************************************************)
(* What one partner is owed, packages/partners: the terms agreed, the      *)
(* payout computed over the referrals, the human decision on it, and the   *)
(* clawbacks it deducts.  Shares are parts of Whole.                       *)
(***************************************************************************)
EXTENDS Desk

CONSTANTS Leads,                     \* the converted referrals of the partner
          Terms, PayoutRows, Clawbacks,   \* 1..n each, model bounds
          Share,                     \* Share[t]: the share the terms t agree
          CapShare, Whole,           \* a state's cap, BASIS_POINT_DIVISOR
          GrossCents                 \* one payment of a client

ASSUME PayoutAssumption ==
    /\ \A set \in {Terms, PayoutRows, Clawbacks} :
          IsFiniteSet(set) /\ set = 1..Cardinality(set)
    /\ IsFiniteSet(Leads)
    /\ Share \in [Terms -> Nat] /\ {CapShare, GrossCents} \subseteq Nat /\ Whole \in Nat \ {0}

VARIABLES rule,       \* rule[l]: what the state of the referred client says on fees
          received,   \* received[l]: cents the client paid in the period
          terms,      \* terms[t]: the agreement's status
          payout,     \* payout[k]: a row and its lines
          clawback    \* clawback[j]: its cents, and the payout that settled it or 0

payoutRows == <<rule, received, terms, payout, clawback>>
payoutVars == <<payoutRows, deskVars>>

NoPayout == [status |-> "none", deducted |-> 0, from |-> <<>>, lines |-> <<>>]

PayoutInit ==
    /\ rule \in [Leads -> {"permitted", "capped", "prohibited", "silent"}]
    /\ received = [l \in Leads |-> 0]
    /\ terms = [t \in Terms |-> "none"]
    /\ payout = [k \in PayoutRows |-> NoPayout]
    /\ clawback = [j \in Clawbacks |-> [cents |-> 0, by |-> 0]]

-----------------------------------------------------------------------------
(***************************************************************************)
(* Agreements.                                                             *)
(***************************************************************************)
Drafted == {t \in Terms : terms[t] # "none"}
InForce == {t \in Terms : terms[t] = "active"}

\* draftAgreement: the version after the latest, unless it is taken (@@unique).
DraftAgreement(c) ==
    \/ Begins(c, [op |-> "draft", after |-> Cardinality(Drafted)]) /\ UNCHANGED payoutRows
    \/ /\ Doing(c, "draft")
       /\ LET t == request[c].after + 1 IN
            IF t \in Terms \ Drafted THEN terms' = [terms EXCEPT ![t] = "draft"]
                                     ELSE UNCHANGED terms
       /\ Finishes(c) /\ UNCHANGED <<rule, received, payout, clawback>>

\* activateAgreement supersedes what its first statement sees in force.
ActivateAgreement(c) ==
    \/ \E t \in Terms : /\ terms[t] = "draft"
                        /\ Begins(c, [op |-> "activate", on |-> t, over |-> InForce])
                        /\ UNCHANGED payoutRows
    \/ /\ Doing(c, "activate")
       /\ terms' = [t \in Terms |-> IF t = request[c].on THEN "active"
                                    ELSE IF t \in request[c].over THEN "superseded"
                                    ELSE terms[t]]
       /\ Finishes(c) /\ UNCHANGED <<rule, received, payout, clawback>>

-----------------------------------------------------------------------------
(***************************************************************************)
(* Payouts.                                                                *)
(***************************************************************************)
\* Money a client pays in the period (billing's payments).
Receive == \E l \in Leads : /\ received[l] = 0
                            /\ received' = [received EXCEPT ![l] = GrossCents]
                            /\ UNCHANGED <<rule, terms, payout, clawback, deskVars>>

\* Rounded down.
ApplyShare(cents, share) == (cents * share) \div Whole

LineOf(l, t) ==
    CASE received[l] = 0 \/ rule[l] = "prohibited" -> 0
      [] received[l] > 0 /\ rule[l] = "capped" ->
            ApplyShare(received[l], LesserOf(Share[t], CapShare))
      [] OTHER -> ApplyShare(received[l], Share[t])

\* A referral that earned, in a state that cannot say whether a fee is lawful.
Unanswerable == {l \in Leads : received[l] > 0 /\ rule[l] = "silent"}

Open == {j \in Clawbacks : clawback[j].cents > 0 /\ clawback[j].by = 0}
CentsOf(js) == SumOf([j \in js |-> clawback[j].cents])

\* computePayout: on the newest terms in force; one such referral and all of
\* it is refused.
ComputePayout(c) ==
    \/ /\ InForce # {} /\ Unanswerable = {} /\ \E k \in PayoutRows : payout[k].status = "none"
       /\ LET lines == [l \in Leads |-> LineOf(l, Max(InForce))] IN
            Begins(c, [op |-> "compute",
                       row |-> [status |-> "pending", from |-> received, lines |-> lines,
                                deducted |-> LesserOf(SumOf(lines), CentsOf(Open))]])
       /\ UNCHANGED payoutRows
    \/ /\ Doing(c, "compute")
       /\ LET free == {k \in PayoutRows : payout[k].status = "none"} IN
            payout' = IF free = {} THEN payout ELSE [payout EXCEPT ![Min(free)] = request[c].row]
       /\ Finishes(c) /\ UNCHANGED <<rule, received, terms, clawback>>

\* Mutant: whatever any of it was deducted for.
CoveredInPart(deducted) == {j \in Open : CentsOf({i \in Open : i < j}) < deducted}

\* The oldest clawbacks that the deduction covers whole, up to the first that
\* it does not.
Covered(deducted) == {j \in Open : CentsOf({i \in Open : i <= j}) <= deducted}

ApprovePayout(c) ==
    \/ \E k \in PayoutRows : /\ payout[k].status = "pending"
                             /\ Begins(c, [op |-> "approve", on |-> k])
                             /\ UNCHANGED payoutRows
    \/ /\ Doing(c, "approve")
       /\ LET k == request[c].on IN
            /\ payout' = [payout EXCEPT ![k].status = "approved"]
            /\ clawback' = [j \in Clawbacks |->
                   IF j \in Covered(payout[k].deducted) THEN [clawback[j] EXCEPT !.by = k]
                                                        ELSE clawback[j]]
       /\ Finishes(c) /\ UNCHANGED <<rule, received, terms>>

DeclinePayout(c) ==
    \/ \E k \in PayoutRows : /\ payout[k].status = "pending"
                             /\ Begins(c, [op |-> "decline payout", on |-> k])
                             /\ UNCHANGED payoutRows
    \/ /\ Doing(c, "decline payout")
       /\ payout' = [payout EXCEPT ![request[c].on].status = "declined"]
       /\ Finishes(c) /\ UNCHANGED <<rule, received, terms, clawback>>

RecordClawback(c) ==
    \E j \in Clawbacks, cents \in 1..GrossCents :
        /\ clawback[j].cents = 0 /\ \A i \in 1..(j - 1) : clawback[i].cents > 0
        /\ Begins(c, AtRest)
        /\ clawback' = [clawback EXCEPT ![j].cents = cents]
        /\ UNCHANGED <<rule, received, terms, payout>>

PayoutNext ==
    \/ Receive
    \/ \E c \in Clerks :
         \/ DraftAgreement(c) \/ ActivateAgreement(c)
         \/ ComputePayout(c) \/ ApprovePayout(c) \/ DeclinePayout(c) \/ RecordClawback(c)
         \/ ClerkDies(c) /\ UNCHANGED payoutRows

-----------------------------------------------------------------------------
PayoutTypeOK ==
    /\ terms \in [Terms -> {"none", "draft", "active", "superseded"}]
    /\ clawback \in [Clawbacks -> [cents : 0..GrossCents, by : PayoutRows \union {0}]]
    /\ \A k \in PayoutRows : payout[k].status \in {"none", "pending", "approved", "declined"}

\* Nothing is paid on a referral that the client's state forbids or cannot
\* answer for, or above its cap, and a payout that could not ask one state
\* does not exist with that referral left out (computePayout).
LawfulPayout ==
    \A k \in PayoutRows : payout[k].status # "none" =>
        \A l \in Leads :
            /\ payout[k].from[l] > 0 => rule[l] # "silent"
            /\ rule[l] = "prohibited" => payout[k].lines[l] = 0
            /\ rule[l] = "capped" => Whole * payout[k].lines[l] <= CapShare * payout[k].from[l]

\* What a step settles with each payout is within what that payout deducted.
WritesOff == \A k \in PayoutRows :
                 CentsOf({j \in Open : clawback'[j].by = k}) <= payout[k].deducted

\* An approval writes off no more of what the partner owes than its payout
\* deducted, whatever was recorded, computed or decided since it was computed
\* (approvePayout).
WritesOffWhatItDeducted == [][WritesOff]_payoutVars
=============================================================================
