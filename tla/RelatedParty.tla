---------------------------- MODULE RelatedParty ----------------------------
(***************************************************************************)
(* Work for a sibling company, packages/interventure: one client, one      *)
(* engagement, the disclosure of the conflict that both sides acknowledge, *)
(* and the intercompany invoice that waits for it.                         *)
(***************************************************************************)
EXTENDS Desk

VARIABLES sibling,      \* the client is tagged as a Green Companies venture
          disclosure,   \* the ConflictDisclosure row and who acknowledged it
          invoice       \* state of the intercompany invoice

relatedRows == <<sibling, disclosure, invoice>>
relatedVars == <<relatedRows, deskVars>>

RelatedInit ==
    /\ sibling = FALSE
    /\ disclosure = [state |-> "none", venture |-> FALSE, gardner |-> FALSE]
    /\ invoice = "none"

-----------------------------------------------------------------------------
\* tagIfVenture when the name says so, confirmVenture when a person does; a
\* second one finds the first (@@unique).
TagVenture(c) == /\ Begins(c, AtRest) /\ sibling' = TRUE
                 /\ UNCHANGED <<disclosure, invoice>>

\* One per engagement (@@unique).
GenerateDisclosure(c) ==
    \/ /\ sibling /\ disclosure.state = "none"
       /\ Begins(c, [op |-> "disclose"]) /\ UNCHANGED relatedRows
    \/ /\ Doing(c, "disclose")
       /\ disclosure' = IF disclosure.state = "none"
                        THEN [disclosure EXCEPT !.state = "drafted"] ELSE disclosure
       /\ Finishes(c) /\ UNCHANGED <<sibling, invoice>>

\* Each side's acknowledgement reads whether the other's is there, and writes
\* the state that follows.
Acknowledgeable == disclosure.state \notin {"none", "withdrawn"}

AcknowledgeByVenture(c) ==
    \/ /\ Acknowledgeable
       /\ Begins(c, [op |-> "venture", other |-> disclosure.gardner]) /\ UNCHANGED relatedRows
    \/ /\ Doing(c, "venture")
       /\ disclosure' = [disclosure EXCEPT
             !.state = IF request[c].other THEN "fully_acknowledged" ELSE "venture_acknowledged",
             !.venture = TRUE]
       /\ Finishes(c) /\ UNCHANGED <<sibling, invoice>>

AcknowledgeByGardner(c) ==
    \/ /\ Acknowledgeable
       /\ Begins(c, [op |-> "gardner", other |-> disclosure.venture]) /\ UNCHANGED relatedRows
    \/ /\ Doing(c, "gardner")
       /\ disclosure' = [disclosure EXCEPT
             !.state = IF request[c].other THEN "fully_acknowledged" ELSE "drafted",
             !.gardner = TRUE]
       /\ Finishes(c) /\ UNCHANGED <<sibling, invoice>>

WithdrawDisclosure(c) ==
    /\ disclosure.state # "none" /\ Begins(c, AtRest)
    /\ disclosure' = [disclosure EXCEPT !.state = "withdrawn"]
    /\ UNCHANGED <<sibling, invoice>>

MayProceed == ~sibling \/ disclosure.state = "fully_acknowledged"

RaiseInvoice(c) ==
    \/ /\ sibling /\ MayProceed /\ invoice = "none"
       /\ Begins(c, [op |-> "invoice"]) /\ UNCHANGED relatedRows
    \/ /\ Doing(c, "invoice") /\ invoice = "none" /\ invoice' = "drafted" /\ Finishes(c)
       /\ UNCHANGED <<sibling, disclosure>>

\* There is no ledger to post it to: it waits, and is never settled.
RouteToGardnerLedger(c) == /\ invoice = "drafted" /\ Begins(c, AtRest)
                           /\ invoice' = "routed_pending"
                           /\ UNCHANGED <<sibling, disclosure>>

RelatedNext ==
    \E c \in Clerks :
        \/ TagVenture(c) \/ GenerateDisclosure(c)
        \/ AcknowledgeByVenture(c) \/ AcknowledgeByGardner(c) \/ WithdrawDisclosure(c)
        \/ RaiseInvoice(c) \/ RouteToGardnerLedger(c)
        \/ ClerkDies(c) /\ UNCHANGED relatedRows

-----------------------------------------------------------------------------
RelatedTypeOK ==
    /\ disclosure \in [state : {"none", "drafted", "venture_acknowledged",
                                "fully_acknowledged", "withdrawn"},
                       venture : BOOLEAN, gardner : BOOLEAN]
    /\ invoice \in {"none", "drafted", "routed_pending"}

\* No money moves between the companies before both of them acknowledged the
\* conflict, however their acknowledgements and a withdrawal cross
\* (acknowledgeByVenture, acknowledgeByGardner, mayProceed, raiseInvoice).
InvoiceIsDisclosed == invoice # "none" => disclosure.venture /\ disclosure.gardner
=============================================================================
