---------------------------- MODULE Deliverables ----------------------------
(***************************************************************************)
(* packages/deliverables: a document for a client is drafted, checked,     *)
(* scanned for banned language, reviewed, approved by a person and         *)
(* delivered.  Each stage reads the status and then writes the next; the   *)
(* stored content is never edited, so the hash deliver compares agrees.    *)
(***************************************************************************)
EXTENDS Desk

CONSTANTS Editions,    \* versions of one template for one client
          Documents    \* what a document is made of: sets of kinds of block

BlockKinds == {"paragraph", "key_figures", "compliance_state", "disclosure", "table"}

ASSUME DeliverablesAssumption == Documents \subseteq SUBSET BlockKinds

VARIABLES edition,     \* edition[v]: the Deliverable row of version v
          banned       \* the phrase is in the claims library as banned

deliverableRows == <<edition, banned>>
deliverableVars == <<deliverableRows, deskVars>>

NoEdition == [status |-> "none"]

DeliverablesInit == edition = [v \in Editions |-> NoEdition] /\ banned \in BOOLEAN

Rows == {v \in Editions : edition[v] # NoEdition}

-----------------------------------------------------------------------------
(***************************************************************************)
(* The pieces of text of a block, as they are printed and as they are      *)
(* handed to the scanner.                                                  *)
(***************************************************************************)
RenderBlock(kind) ==
    CASE kind = "paragraph"        -> {"text"}
      [] kind = "key_figures"      -> {"label", "value", "provenance", "note"}
      [] kind = "compliance_state" -> {"state", "code", "summary"}
      [] kind = "disclosure"       -> {"disclosure"}
      [] kind = "table"            -> {"column", "cell"}

\* Whom it was prepared for is printed, and is no part of what is scanned.
Render(document) == {"title", "client", "heading"} \union UNION {RenderBlock(k) : k \in document}

ScannableText(document) ==
    {"title", "heading"} \union
    UNION {CASE k = "paragraph"        -> {"text"}
             [] k = "key_figures"      -> {"label", "value", "provenance", "note"}
             [] k = "compliance_state" -> {"state", "code", "summary"}
             [] k = "disclosure"       -> {"disclosure"}
             [] k = "table"            -> {"column", "cell"} : k \in document}

-----------------------------------------------------------------------------
\* The next version; when that was taken meanwhile (@@unique) it fails.  The
\* phrase may be in any one piece of the document.
Draft(c) ==
    \/ \E document \in Documents :
          \E phrase \in Render(document) \union {"nowhere"} :
             /\ Cardinality(Rows) + 1 \in Editions /\ UNCHANGED deliverableRows
             /\ Begins(c, [op |-> "draft", v |-> Cardinality(Rows) + 1,
                           row |-> [status |-> "draft", document |-> document, phrase |-> phrase,
                                    known |-> banned, passed |-> {}]])
    \/ /\ Doing(c, "draft") /\ Finishes(c) /\ UNCHANGED banned
       /\ edition' = IF request[c].v \in Rows THEN edition
                     ELSE [edition EXCEPT ![request[c].v] = request[c].row]

\* A stage that found the row in one of `from`, and then writes it.
Reads(c, stage, from) ==
    \E v \in Rows : /\ edition[v].status \in from
                    /\ Begins(c, [op |-> stage, v |-> v]) /\ UNCHANGED deliverableRows

Writes(c, status, passed) ==
    /\ edition' = [edition EXCEPT ![request[c].v].status = status,
                                  ![request[c].v].passed = @ \union passed]
    /\ Finishes(c) /\ UNCHANGED banned

\* Found complete, or it is refused and nothing is written.
RunQaCheck(c) ==
    \/ Reads(c, "qa", {"draft"})
    \/ Doing(c, "qa") /\ Writes(c, "qa_checked", {"qa"})

\* A tenant with no claims library gets no answer, and nothing is written.
RunComplianceScan(c) ==
    \/ Reads(c, "library", {"qa_checked"})
    \/ /\ Doing(c, "library") /\ UNCHANGED deliverableRows
       /\ LET row == edition[request[c].v] IN
          GoesOn(c, [op |-> "scan", v |-> request[c].v,
                     blocked |-> banned /\ row.phrase \in ScannableText(row.document)])
    \/ /\ Doing(c, "scan")
       /\ IF request[c].blocked THEN Writes(c, "blocked", {}) ELSE Writes(c, "scanned", {"scan"})

RequestHumanReview(c) ==
    \/ Reads(c, "ask", {"scanned"})
    \/ Doing(c, "ask") /\ Writes(c, "awaiting_human", {})

\* Mutant: a document may be approved while it waits for its scan.
ApproveEarly(c) ==
    \/ Reads(c, "approve", {"qa_checked", "scanned", "awaiting_human"})
    \/ Doing(c, "approve") /\ Writes(c, "approved", {"human"})

\* By a person; the review may be skipped.
ApproveDelivery(c) ==
    \/ Reads(c, "approve", {"scanned", "awaiting_human"})
    \/ Doing(c, "approve") /\ Writes(c, "approved", {"human"})

\* In any status.
Reject(c) ==
    \/ Reads(c, "reject", {edition[v].status : v \in Rows})
    \/ Doing(c, "reject") /\ Writes(c, "rejected", {})

Deliver(c) ==
    \/ Reads(c, "deliver", {"approved"})
    \/ Doing(c, "deliver") /\ Writes(c, "delivered", {})

BanPhrase == ~banned /\ banned' = TRUE /\ UNCHANGED <<edition, deskVars>>

DeliverablesNext ==
    \/ BanPhrase
    \/ \E c \in Clerks :
          \/ Draft(c) \/ RunQaCheck(c) \/ RunComplianceScan(c) \/ RequestHumanReview(c)
          \/ ApproveDelivery(c) \/ Reject(c) \/ Deliver(c)
          \/ ClerkDies(c) /\ UNCHANGED deliverableRows

-----------------------------------------------------------------------------
DeliverablesTypeOK ==
    \A v \in Rows :
       /\ edition[v].status \in {"draft", "qa_checked", "scanned", "blocked", "awaiting_human",
                                 "approved", "rejected", "delivered"}
       /\ edition[v].document \in Documents /\ Rows = 1..Cardinality(Rows)

\* Language that was banned when a document was drafted does not reach the
\* client in any part of it that is printed, whichever stages were run twice
\* and at once (scannableText, renderBlockAsText, runComplianceScan) - but for
\* the client's own name, which both renderers print and the scanner never sees.
BannedIsNotDelivered ==
    \A v \in Rows : edition[v].status = "delivered" =>
        ~(edition[v].known /\ edition[v].phrase \in Render(edition[v].document) \ {"client"})

\* What is delivered was checked, found clean by a scan, and approved by a
\* person, at some time each: stages that overlap never skip one (the guards of
\* runQaCheck, runComplianceScan, approve, deliver).
DeliveredPassedAll ==
    \A v \in Rows : edition[v].status = "delivered" =>
        edition[v].passed = {"qa", "scan", "human"}
=============================================================================
