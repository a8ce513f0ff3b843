------------------------------ MODULE MCMoney ------------------------------
(***************************************************************************)
(* What is sold, signed, earned and shared.  The parts touch disjoint      *)
(* rows, so each behaviour follows one of them, `desk`, and every          *)
(* interleaving of the requests at that desk.                              *)
(***************************************************************************)
EXTENDS Billing, PartnerPayouts, PartnerConduct, Sales, RelatedParty, CrossPortfolio,
        Contracts, TLC

CONSTANTS Budget,          \* requests let in at each desk
          DeathsAllowed    \* deaths at each desk

VARIABLE desk

moneyRows == <<billingRows, payoutRows, conductRows, salesRows, relatedRows, crossRows,
               contractRows>>
moneyVars == <<moneyRows, deskVars, desk>>

MCAlike == Permutations(Clerks) \union Permutations(Leads)
MCShare == [t \in Terms |-> t]
MCBudget == [billing |-> 6, payouts |-> 6, conduct |-> 6, sales |-> 4, related |-> 6,
             cross |-> 5, contracts |-> 7]
MCDeathsAllowed == [billing |-> 0, payouts |-> 0, conduct |-> 1, sales |-> 1, related |-> 1,
                    cross |-> 1, contracts |-> 0]

AtBilling(A)   == /\ desk = "billing" /\ A
                  /\ UNCHANGED <<payoutRows, conductRows, salesRows, relatedRows, crossRows,
                                 contractRows, desk>>
AtPayouts(A)   == /\ desk = "payouts" /\ A
                  /\ UNCHANGED <<billingRows, conductRows, salesRows, relatedRows, crossRows,
                                 contractRows, desk>>
AtConduct(A)   == /\ desk = "conduct" /\ A
                  /\ UNCHANGED <<billingRows, payoutRows, salesRows, relatedRows, crossRows,
                                 contractRows, desk>>
AtSales(A)     == /\ desk = "sales" /\ A
                  /\ UNCHANGED <<billingRows, payoutRows, conductRows, relatedRows, crossRows,
                                 contractRows, desk>>
AtRelated(A)   == /\ desk = "related" /\ A
                  /\ UNCHANGED <<billingRows, payoutRows, conductRows, salesRows, crossRows,
                                 contractRows, desk>>
AtCross(A)     == /\ desk = "cross" /\ A
                  /\ UNCHANGED <<billingRows, payoutRows, conductRows, salesRows, relatedRows,
                                 contractRows, desk>>
AtContracts(A) == /\ desk = "contracts" /\ A
                  /\ UNCHANGED <<billingRows, payoutRows, conductRows, salesRows, relatedRows,
                                 crossRows, desk>>

MoneyInit ==
    /\ desk \in DOMAIN Budget
    /\ request = [c \in Clerks |-> AtRest] /\ today = 0
    /\ begun = MaxRequests - Budget[desk] /\ deaths = MaxDeaths - DeathsAllowed[desk]
    /\ BillingInit /\ PayoutInit /\ PartnerConductInit /\ SalesInit /\ RelatedInit
    /\ CrossInit /\ ContractsInit
    \* of the parts not followed, one initial state
    /\ desk # "payouts" => \A l \in Leads : rule[l] = "permitted"
    /\ desk # "sales"   => lead.referrer = "nobody"

MoneyNext ==
    \/ AtBilling(BillingNext)
    \/ AtPayouts(PayoutNext)
    \/ AtConduct(PartnerConductNext)
    \/ AtSales(SalesNext)
    \/ AtRelated(RelatedNext)
    \/ AtCross(CrossNext)
    \/ AtContracts(ContractsNext)

MoneySpec == MoneyInit /\ [][MoneyNext]_moneyVars

\* The type invariant of whichever part is followed.
MoneyTypeOK ==
    /\ desk = "billing"   => BillingTypeOK
    /\ desk = "payouts"   => PayoutTypeOK
    /\ desk = "conduct"   => PartnerConductTypeOK
    /\ desk = "sales"     => SalesTypeOK
    /\ desk = "related"   => RelatedTypeOK
    /\ desk = "cross"     => CrossTypeOK
    /\ desk = "contracts" => ContractsTypeOK

\* The books agree: well-formed rows, one offer on sale, and every amount
\* returned or credited explained by the records that say why, or written down
\* by hand.
BooksAgree == MoneyTypeOK /\ OneCurrentOffer /\ MoneyIsExplained

\* A partner is paid what the law of the client's state lets him have, and
\* what he owes is written off only as far as it was deducted.
PayoutsAreLawful == []LawfulPayout /\ WritesOffWhatItDeducted

\* A partner who refers is taught and under no finding.
ReferrersAreFit == []CertifiedIsTaught /\ FindingsStopReferrals

\* A lead ends once, and in full.
LeadsEndWhole == []ConversionIsWhole /\ LeadEndsOnce

\* Nothing passes between the companies behind the back of those it concerns:
\* no client without a consent that stands, no invoice before both sides
\* acknowledged the conflict.
PassedWithConsent == []InvoiceIsDisclosed /\ RevocationStopsTransfers

\* What clients sign is a reviewed template with the terms in force, and known
\* when the state's rules moved on.
SignedTextStands == SignedTextWasReviewed /\ OutdatedIsReported /\ TermsAreInForce
=============================================================================
