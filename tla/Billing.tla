------------------------------ MODULE Billing ------------------------------
(***************************************************************************)
(* The money of one client, packages/billing: the versions of an offer,    *)
(* engagements, billing records, the refunds the record says are owed and  *)
(* credit carried from one engagement to the next.  Cents are numbers,     *)
(* every offer commits for Term days.                                      *)
(***************************************************************************)
EXTENDS Desk

CONSTANTS Engagements, Payments, Versions,   \* 1..n each, model bounds
          PaidCents, RetainerCents, FeeCents, HandCents,  \* amounts, one of each kind
          Term,              \* committedMonths, in days
          NotFundedDays      \* APPROVED_NOT_FUNDED_DAYS

ASSUME BillingAssumption ==
    /\ \A set \in {Engagements, Payments, Versions} :
          IsFiniteSet(set) /\ set = 1..Cardinality(set)
    /\ {PaidCents, RetainerCents, FeeCents, HandCents, NotFundedDays} \subseteq Nat
    /\ Term \in Nat \ {0}

Triggers == {"not_funded", "quality", "unearned_prepay"}

VARIABLES offer,        \* offer[v]: the version's row
          engagement,   \* engagement[e]: its row and the kinds of charge on it
          payment,      \* payment[n]: the engagement it is on, 0 before it is made
          drawn,        \* drawn[n][e]: credit applications from n to e
          refunded, credited,   \* billing records per engagement, summed
          refund,       \* refund[e][t]: refund records, what was paid and declines
          outcome,      \* outcome[e]: a funding outcome
          handRefunded, handCredited   \* history: of these, what recordBilling wrote

handWritten == <<handRefunded, handCredited>>
billingRows == <<offer, engagement, payment, drawn, refunded, credited, refund, outcome,
                 handWritten>>
billingVars == <<billingRows, deskVars>>

NoEngagement == [status |-> "none", prepay |-> FALSE, started |-> 0, ended |-> 0,
                 charges |-> {}]

BillingInit ==
    /\ offer = [v \in Versions |-> "none"]
    /\ engagement = [e \in Engagements |-> NoEngagement]
    /\ payment = [n \in Payments |-> 0]
    /\ drawn = [n \in Payments |-> [e \in Engagements |-> 0]]
    /\ refunded = [e \in Engagements |-> 0] /\ credited = [e \in Engagements |-> 0]
    /\ refund = [e \in Engagements |-> [t \in Triggers |-> [paid |-> 0, declined |-> 0]]]
    /\ outcome = [e \in Engagements |-> [status |-> "none", on |-> 0]]
    /\ handRefunded = [e \in Engagements |-> 0] /\ handCredited = [e \in Engagements |-> 0]

-----------------------------------------------------------------------------
(***************************************************************************)
(* money.ts.                                                               *)
(***************************************************************************)
\* Both rounding directions of proportionOf; a refund asks for toward_client.
ProportionOf(amount, part, whole, direction) ==
    LET scaled == amount * (IF part < whole THEN part ELSE whole)
    IN  IF direction = "toward_client" THEN scaled \div whole
        ELSE (scaled + whole - 1) \div whole

AtLeastZero(paid, taken) == IF taken > paid THEN 0 ELSE paid - taken
Current  == {v \in Versions : offer[v] = "current"}
PaidOn(e) == PaidCents * Cardinality({n \in Payments : payment[n] = e})

-----------------------------------------------------------------------------
(***************************************************************************)
(* Offers and engagements.                                                 *)
(***************************************************************************)
\* publishOffer: the version after the one it read, unless that is taken
\* (@@unique), which aborts the transaction.
PublishOffer(c) ==
    \/ Begins(c, [op |-> "publish", on |-> Current]) /\ UNCHANGED billingRows
    \/ /\ Doing(c, "publish")
       /\ LET read == request[c].on
              v    == IF read = {} THEN 1 ELSE Max(read) + 1
          IN  IF v \in Versions /\ offer[v] = "none"
              THEN offer' = [w \in Versions |->
                     IF w = v THEN "current" ELSE IF w \in read THEN "superseded" ELSE offer[w]]
              ELSE UNCHANGED offer
       /\ Finishes(c)
       /\ UNCHANGED <<engagement, payment, drawn, refunded, credited, refund, outcome,
                      handWritten>>

StartEngagement(c) ==
    \/ /\ Current # {} /\ \E e \in Engagements : engagement[e].status = "none"
       /\ Begins(c, [op |-> "start"]) /\ UNCHANGED billingRows
    \/ /\ Doing(c, "start")
       /\ \E e \in Engagements, prepay \in BOOLEAN :
            /\ engagement[e].status = "none"
            /\ \A d \in 1..(e - 1) : engagement[d].status # "none"
            /\ engagement' = [engagement EXCEPT ![e] =
                 [NoEngagement EXCEPT !.status = "active", !.prepay = prepay, !.started = today]]
       /\ Finishes(c)
       /\ UNCHANGED <<offer, payment, drawn, refunded, credited, refund, outcome, handWritten>>

\* A cancelled engagement can be cancelled again, and on another day.
CancelEngagement(c) ==
    \E e \in Engagements :
        /\ engagement[e].status # "none"
        /\ Begins(c, AtRest)
        /\ engagement' = [engagement EXCEPT ![e].status = "cancelled", ![e].ended = today]
        /\ UNCHANGED <<offer, payment, drawn, refunded, credited, refund, outcome, handWritten>>

\* recordBilling: a payment, the retainer, a success fee, and a refund or a credit
\* written down by hand, which it takes on nobody's word but the caller's.
RecordBilling(c) ==
    \E e \in Engagements :
        /\ engagement[e].status # "none" /\ Begins(c, AtRest)
        /\ \/ /\ \E n \in Payments : payment[n] = 0 /\ (\A k \in 1..(n - 1) : payment[k] # 0)
                                     /\ payment' = [payment EXCEPT ![n] = e]
              /\ UNCHANGED <<engagement, refunded, credited, handWritten>>
           \/ /\ \E kind \in {"retainer", "fee"} :
                    engagement' = [engagement EXCEPT ![e].charges = @ \union {kind}]
              /\ UNCHANGED <<payment, refunded, credited, handWritten>>
           \/ /\ refunded' = [refunded EXCEPT ![e] = @ + HandCents]
              /\ handRefunded' = [handRefunded EXCEPT ![e] = @ + HandCents]
              /\ UNCHANGED <<engagement, payment, credited, handCredited>>
           \/ /\ credited' = [credited EXCEPT ![e] = @ + HandCents]
              /\ handCredited' = [handCredited EXCEPT ![e] = @ + HandCents]
              /\ UNCHANGED <<engagement, payment, refunded, handRefunded>>
        /\ UNCHANGED <<offer, drawn, refund, outcome>>

RecordFundingOutcome(c) ==
    \E e \in Engagements, funded \in BOOLEAN :
        /\ engagement[e].status # "none" /\ outcome[e].status = "none" /\ Begins(c, AtRest)
        /\ outcome' = [outcome EXCEPT ![e] =
              [status |-> IF funded THEN "funded" ELSE "approved", on |-> today]]
        /\ UNCHANGED <<offer, engagement, payment, drawn, refunded, credited, refund,
                       handWritten>>

MarkFunded(c) ==
    \E e \in Engagements :
        /\ outcome[e].status # "none" /\ Begins(c, AtRest)
        /\ outcome' = [outcome EXCEPT ![e].status = "funded"]
        /\ UNCHANGED <<offer, engagement, payment, drawn, refunded, credited, refund,
                       handWritten>>

-----------------------------------------------------------------------------
(***************************************************************************)
(* Refunds.                                                                *)
(***************************************************************************)
ApprovedNotFunded(e) ==
    /\ outcome[e].status = "approved"
    /\ today - outcome[e].on > NotFundedDays
    /\ "fee" \in engagement[e].charges

QualityFailure(e) ==
    /\ engagement[e].status # "none" /\ today >= engagement[e].started + Term
    /\ outcome[e].status = "none"
    /\ "retainer" \in engagement[e].charges

UnusedDays(e) == AtLeastZero(Term, engagement[e].ended - engagement[e].started)
Unearned(e) ==
    IF engagement[e].prepay /\ engagement[e].status = "cancelled"
    THEN ProportionOf(PaidOn(e), UnusedDays(e), Term, "toward_client") ELSE 0

\* What the record says is owed now, decided already or not.
RefundsDue(e) ==
    When(ApprovedNotFunded(e), [trigger |-> "not_funded", cents |-> FeeCents])
    \union When(QualityFailure(e), [trigger |-> "quality", cents |-> RetainerCents])
    \union When(Unearned(e) > 0, [trigger |-> "unearned_prepay", cents |-> Unearned(e)])

\* payRefund: what is due, be it decided already, is paid in one transaction.
PayRefund(c) ==
    \/ \E e \in Engagements : \E due \in RefundsDue(e) :
          Begins(c, [op |-> "refund", on |-> e, due |-> due]) /\ UNCHANGED billingRows
    \/ /\ Doing(c, "refund")
       /\ LET e == request[c].on  due == request[c].due IN
            /\ refund' = [refund EXCEPT ![e][due.trigger].paid = @ + due.cents]
            /\ refunded' = [refunded EXCEPT ![e] = @ + due.cents]
       /\ Finishes(c)
       /\ UNCHANGED <<offer, engagement, payment, drawn, credited, outcome, handWritten>>

\* By a Level 3 human, with a reason.
DeclineRefund(c) ==
    \/ \E e \in Engagements : \E due \in RefundsDue(e) :
          Begins(c, [op |-> "decline", on |-> e, due |-> due]) /\ UNCHANGED billingRows
    \/ /\ Doing(c, "decline")
       /\ refund' = [refund EXCEPT ![request[c].on][request[c].due.trigger].declined = 1]
       /\ Finishes(c)
       /\ UNCHANGED <<offer, engagement, payment, drawn, refunded, credited, outcome,
                      handWritten>>

-----------------------------------------------------------------------------
(***************************************************************************)
(* Credit.  Refunds are taken off the oldest payments first.               *)
(***************************************************************************)
RefundTaken(n) ==
    LET before == PaidCents * Cardinality({k \in 1..(n - 1) : payment[k] = payment[n]})
    IN  LesserOf(AtLeastZero(refunded[payment[n]], before), PaidCents)

AvailableCredit ==
    [n \in {k \in Payments : payment[k] # 0} |->
        AtLeastZero(PaidCents, RefundTaken(n) + SumOf(drawn[n]))]

\* Mutant: every source gives the amount.
DrawsFromEach(sources, amount) == [n \in DOMAIN sources |-> LesserOf(sources[n], amount)]

\* What each source gives of `amount`, the oldest first.
Draws(sources, amount) ==
    [n \in DOMAIN sources |->
        LET older == {k \in DOMAIN sources : k < n}
        IN  LesserOf(sources[n], AtLeastZero(amount, SumOf([k \in older |-> sources[k]])))]

ApplyCredit(c) ==
    \/ \E to \in Engagements, amount \in 1..(PaidCents * Cardinality(Payments)) :
          LET sources == [n \in {k \in DOMAIN AvailableCredit : payment[k] # to} |->
                             AvailableCredit[n]]
          IN  /\ engagement[to].status # "none" /\ amount <= SumOf(sources)
              /\ Begins(c, [op |-> "credit", on |-> to, cents |-> amount, from |-> sources])
              /\ UNCHANGED billingRows
    \/ /\ Doing(c, "credit")
       /\ LET draws == Draws(request[c].from, request[c].cents)  to == request[c].on IN
            /\ drawn' = [n \in Payments |-> IF n \in DOMAIN draws
                                            THEN [drawn[n] EXCEPT ![to] = @ + draws[n]]
                                            ELSE drawn[n]]
            /\ credited' = [credited EXCEPT ![to] = @ + request[c].cents]
       /\ Finishes(c)
       /\ UNCHANGED <<offer, engagement, payment, refunded, refund, outcome, handWritten>>

-----------------------------------------------------------------------------
BillingNext ==
    \/ DayPasses /\ UNCHANGED billingRows
    \/ \E c \in Clerks :
         \/ PublishOffer(c) \/ StartEngagement(c) \/ CancelEngagement(c) \/ RecordBilling(c)
         \/ RecordFundingOutcome(c) \/ MarkFunded(c)
         \/ PayRefund(c) \/ DeclineRefund(c) \/ ApplyCredit(c)
         \/ ClerkDies(c) /\ UNCHANGED billingRows

BillingSpec == BillingInit /\ DeskInit /\ [][BillingNext]_billingVars

-----------------------------------------------------------------------------
BillingTypeOK ==
    /\ offer \in [Versions -> {"none", "current", "superseded"}]
    /\ payment \in [Payments -> Engagements \union {0}]
    /\ \A e \in Engagements : engagement[e].status \in {"none", "active", "cancelled"}
    /\ {refunded[e] : e \in Engagements} \union {credited[e] : e \in Engagements} \subseteq Nat

\* An offer has one version that is sold, whoever publishes at the same time:
\* a client never starts on a version that another had replaced before it
\* (publishOffer, currentOffer).
OneCurrentOffer == Cardinality(Current) <= 1

\* The balance and the reasons agree: what the billing records say was
\* returned the refund records explain, and what was credited was drawn from
\* payments, though processes die in between (payRefund, applyCredit) - all but
\* what recordBilling wrote as returned or credited, for which there is neither
\* a refund record nor a draw.
MoneyIsExplained ==
    \A e \in Engagements :
        /\ refunded[e] = SumOf([t \in Triggers |-> refund[e][t].paid]) + handRefunded[e]
        /\ credited[e] = SumOf([n \in Payments |-> drawn[n][e]]) + handCredited[e]

=============================================================================
