------------------------------ MODULE Outcomes ------------------------------
(***************************************************************************)
(* One funding attempt, packages/outcomes/src/attempts.ts: a decision is   *)
(* recorded with billing, whose 60-day refund runs on it, and fed back to  *)
(* the lender database, whose approval rate does.  Each is a write of its  *)
(* own.                                                                    *)
(***************************************************************************)
EXTENDS Desk

CONSTANTS Bills,         \* billing's FundingOutcome rows
          NotFundedDays  \* APPROVED_NOT_FUNDED_DAYS

ASSUME OutcomesAssumption == NotFundedDays \in Nat

VARIABLES attempt,       \* the FundingAttempt row
          bill,          \* bill[b]: days it was approved and funded, both {} when not
                         \* there, and whether a charge names the limit approved
          learned,       \* outcomes the lender database has been told
          cutShort       \* a decision was written and its process died

outcomesRows == <<attempt, bill, learned, cutShort>>
outcomesVars == <<outcomesRows, deskVars>>

NoBill == [approved |-> {}, funded |-> {}, charged |-> FALSE]

OutcomesInit ==
    /\ attempt = [outcome |-> "none", decided |-> {}, bill |-> {}, funded |-> {}, asked |-> FALSE]
    /\ bill = [b \in Bills |-> NoBill]
    /\ learned = {} /\ cutShort = FALSE

Free == {b \in Bills : bill[b] = NoBill}

SubmitAttempt(c) == /\ attempt.outcome = "none" /\ Begins(c, AtRest)
                    /\ attempt' = [attempt EXCEPT !.outcome = "pending"]
                    /\ UNCHANGED <<bill, learned, cutShort>>

\* A decision is dated, at the latest today, and made on a pending attempt.
FeedBack(c) ==
    /\ Doing(c, "feed") /\ learned' = learned \union {request[c].outcome} /\ Finishes(c)
    /\ UNCHANGED <<attempt, bill, cutShort>>

Feeds(c, outcome) == GoesOn(c, [op |-> "feed", outcome |-> outcome])

\* Mutant: the attempt is marked, and then billing is told.
ApproveThenBill(c) ==
    \/ /\ attempt.outcome = "pending" /\ UNCHANGED outcomesRows
       /\ \E day \in 0..today, b \in Free : Begins(c, [op |-> "approve", day |-> day, bill |-> b])
    \/ /\ Doing(c, "approve") /\ GoesOn(c, [request[c] EXCEPT !.op = "bill"])
       /\ attempt' = [attempt EXCEPT !.outcome = "approved", !.decided = {request[c].day},
                                     !.bill = {request[c].bill}]
       /\ UNCHANGED <<bill, learned, cutShort>>
    \/ /\ Doing(c, "bill") /\ Feeds(c, "approved")
       /\ bill' = [bill EXCEPT ![request[c].bill].approved = {request[c].day}]
       /\ UNCHANGED <<attempt, learned, cutShort>>

ApproveAttempt(c) ==
    \/ /\ attempt.outcome = "pending" /\ UNCHANGED outcomesRows
       /\ \E day \in 0..today : Begins(c, [op |-> "bill", day |-> day])
    \/ /\ Doing(c, "bill")
       /\ \E b \in Free :
             /\ bill' = [bill EXCEPT ![b].approved = {request[c].day}]
             /\ GoesOn(c, [op |-> "approve", day |-> request[c].day, bill |-> b])
       /\ UNCHANGED <<attempt, learned, cutShort>>
    \/ /\ Doing(c, "approve") /\ Feeds(c, "approved")
       /\ attempt' = [attempt EXCEPT !.outcome = "approved", !.decided = {request[c].day},
                                     !.bill = {request[c].bill}]
       /\ UNCHANGED <<bill, learned, cutShort>>

\* declineAttempt and withdrawAttempt.
DeclineAttempt(c) ==
    \/ /\ attempt.outcome = "pending" /\ UNCHANGED outcomesRows
       /\ \E day \in 0..today, outcome \in {"declined", "withdrawn"} :
             Begins(c, [op |-> "decline", day |-> day, outcome |-> outcome])
    \/ /\ Doing(c, "decline") /\ Feeds(c, request[c].outcome)
       /\ attempt' = [attempt EXCEPT !.outcome = request[c].outcome, !.decided = {request[c].day}]
       /\ UNCHANGED <<bill, learned, cutShort>>

\* Not before it was approved.
MarkAttemptFunded(c) ==
    \/ /\ attempt.outcome = "approved" /\ attempt.funded = {} /\ UNCHANGED outcomesRows
       /\ \E day \in 0..today :
             /\ \A decided \in attempt.decided : decided <= day
             /\ Begins(c, [op |-> "mark", day |-> day, bill |-> attempt.bill])
    \/ /\ Doing(c, "mark") /\ GoesOn(c, [request[c] EXCEPT !.op = "fund"])
       /\ bill' = [b \in Bills |-> IF b \in request[c].bill
                                   THEN [bill[b] EXCEPT !.funded = {request[c].day}] ELSE bill[b]]
       /\ UNCHANGED <<attempt, learned, cutShort>>
    \/ /\ Doing(c, "fund") /\ Finishes(c)
       /\ attempt' = [attempt EXCEPT !.funded = {request[c].day}]
       /\ UNCHANGED <<bill, learned, cutShort>>

\* recordBilling: the success fee of an approval is charged, at some time or never.
ChargeSuccessFee(c) ==
    \E b \in Bills \ Free :
        /\ ~bill[b].charged /\ Begins(c, AtRest) /\ bill' = [bill EXCEPT ![b].charged = TRUE]
        /\ UNCHANGED <<attempt, learned, cutShort>>

RecordSatisfaction(c) ==
    /\ attempt.outcome # "none" /\ ~attempt.asked /\ Begins(c, AtRest)
    /\ attempt' = [attempt EXCEPT !.asked = TRUE] /\ UNCHANGED <<bill, learned, cutShort>>

DeciderDies(c) == /\ ClerkDies(c) /\ cutShort' = (cutShort \/ Doing(c, "feed"))
                  /\ UNCHANGED <<attempt, bill, learned>>

\* The queue of this package, and the refunds of billing: the same days, of a fee
\* that was charged.
Elapsed(day) == today - day > NotFundedDays

ApprovedAndUnfunded ==
    attempt.outcome = "approved" /\ attempt.funded = {} /\ \E day \in attempt.decided : Elapsed(day)

RefundsDueOn ==
    {b \in Bills : /\ bill[b].funded = {} /\ bill[b].charged
                   /\ \E day \in bill[b].approved : Elapsed(day)}

OutcomesNext ==
    \/ DayPasses /\ UNCHANGED outcomesRows
    \/ \E c \in Clerks :
          \/ SubmitAttempt(c) \/ ApproveAttempt(c) \/ DeclineAttempt(c) \/ FeedBack(c)
          \/ MarkAttemptFunded(c) \/ ChargeSuccessFee(c) \/ RecordSatisfaction(c)
          \/ DeciderDies(c)

-----------------------------------------------------------------------------
OutcomesTypeOK ==
    /\ attempt.outcome \in {"none", "pending", "approved", "declined", "withdrawn"}
    /\ attempt.bill \subseteq Bills /\ learned \subseteq {"approved", "declined", "withdrawn"}
    /\ \A b \in Bills : bill[b].approved \union bill[b].funded \subseteq 0..today

\* An approval known here is known to billing, dated the same, and capital that
\* is said to have landed retired a refund there, though the process that
\* writes both may die and two people decide at once: otherwise a refund never
\* fires, or is owed by nobody (approveAttempt, markAttemptFunded).
BillingIsToldFirst ==
    /\ attempt.outcome = "approved" =>
          \E b \in attempt.bill : bill[b].approved = attempt.decided
    /\ attempt.funded # {} => \E b \in Bills : bill[b].funded # {}

\* Nobody waits for capital in one queue and not in the other: an approval this
\* package reports as unfunded after sixty days is the one billing refunds - unless
\* no success fee was charged for it, or billing has already been told that it
\* funded (approvedAndUnfunded, approvedNotFunded).
UnfundedIsRefundable ==
    ApprovedAndUnfunded =>
        \E b \in attempt.bill : b \in RefundsDueOn \/ ~bill[b].charged \/ bill[b].funded # {}

\* The lender's approval rate has every decision: once it is written, the
\* lender database has it or is about to, unless the process died between
\* (feedBackToLenderIntelligence).
DecisionIsLearned ==
    attempt.decided # {} =>
        \/ attempt.outcome \in learned \/ cutShort
        \/ \E c \in Clerks : Doing(c, "feed") /\ request[c].outcome = attempt.outcome
=============================================================================
