------------------------------- MODULE Sales -------------------------------
(***************************************************************************)
(* One lead, packages/sales: the pipeline to a decision, the client and    *)
(* the engagement a conversion makes, who is said to have referred it, and *)
(* the chase when nobody touches it.                                       *)
(***************************************************************************)
EXTENDS Desk

CONSTANTS Referrers,        \* partners
          Corrections,      \* 1..n, ids of corrections in the order of their text
          MaxClients,       \* model bound on clients made from this lead
          InactivityDays    \* INACTIVITY_DAYS

ASSUME SalesAssumption ==
    /\ IsFiniteSet(Corrections) /\ Corrections = 1..Cardinality(Corrections)
    /\ {MaxClients, InactivityDays} \subseteq Nat

VARIABLES lead,        \* the lead's row
          verdict,     \* its LeadOutcome row
          clients,     \* clients made of it, numbered
          engaged,     \* those that an engagement was started for
          correction,  \* correction[i]: who it is corrected to and on which day
          chases       \* open sales_lead_inactivity tasks

salesRows == <<lead, verdict, clients, engaged, correction, chases>>
salesVars == <<salesRows, deskVars>>

Undecided == [how |-> "open", client |-> 0, engaged |-> FALSE]

SalesInit ==
    \* createLead: who referred it is written here and never again
    /\ lead \in [stage : {"new_lead"}, qualification : {"unqualified"}, blueprint : {FALSE},
                 touched : {0}, referrer : Referrers \union {"nobody"}]
    /\ verdict = Undecided /\ clients = 0 /\ engaged = {}
    /\ correction = [i \in Corrections |-> [to |-> "none", on |-> 0]]
    /\ chases = 0

-----------------------------------------------------------------------------
(***************************************************************************)
(* The pipeline.                                                           *)
(***************************************************************************)
QualifyLead(c) ==
    \/ \E answer \in {"qualified", "disqualified"} :
          /\ Begins(c, [op |-> "qualify", as |-> answer,
                        stage |-> IF answer = "qualified" THEN "qualified" ELSE lead.stage])
          /\ UNCHANGED salesRows
    \/ /\ Doing(c, "qualify")
       /\ lead' = [lead EXCEPT !.qualification = request[c].as, !.stage = request[c].stage,
                               !.touched = today]
       /\ Finishes(c) /\ UNCHANGED <<verdict, clients, engaged, correction, chases>>

RecordBlueprintDelivered(c) ==
    \/ /\ lead.qualification = "qualified"
       /\ Begins(c, [op |-> "blueprint"]) /\ UNCHANGED salesRows
    \/ /\ Doing(c, "blueprint")
       /\ lead' = [lead EXCEPT !.stage = "blueprint_delivered", !.blueprint = TRUE,
                               !.touched = today]
       /\ Finishes(c) /\ UNCHANGED <<verdict, clients, engaged, correction, chases>>

ScheduleReviewCall(c) ==
    /\ lead.blueprint /\ Begins(c, AtRest)
    /\ lead' = [lead EXCEPT !.stage = "review_call_scheduled", !.touched = today]
    /\ UNCHANGED <<verdict, clients, engaged, correction, chases>>

\* Written today about a day that may be past.
RecordActivity(c) ==
    \/ Begins(c, [op |-> "activity", touched |-> lead.touched]) /\ UNCHANGED salesRows
    \/ /\ Doing(c, "activity")
       /\ \E on \in 0..today :
             lead' = [lead EXCEPT !.touched = IF on > request[c].touched THEN on
                                              ELSE request[c].touched]
       /\ Finishes(c) /\ UNCHANGED <<verdict, clients, engaged, correction, chases>>

-----------------------------------------------------------------------------
(***************************************************************************)
(* The decision.  LeadOutcome has one row per lead (@unique).              *)
(***************************************************************************)
\* Mutant: an upsert.
RecordsOver(c, v, stage) ==
    /\ verdict' = v /\ lead' = [lead EXCEPT !.stage = stage, !.touched = today]
    /\ Finishes(c)

Records(c, v, stage) ==
    /\ IF verdict = Undecided
       THEN verdict' = v /\ lead' = [lead EXCEPT !.stage = stage, !.touched = today]
       ELSE UNCHANGED <<verdict, lead>>
    /\ Finishes(c)

\* convertLead: a client, then, when an offer was named, its engagement, then
\* the outcome.
ConvertLead(c) ==
    \/ /\ verdict = Undecided /\ lead.qualification = "qualified"
       /\ \E offered \in BOOLEAN : Begins(c, [op |-> "create client", offered |-> offered])
       /\ UNCHANGED salesRows
    \/ /\ Doing(c, "create client") /\ clients < MaxClients
       /\ clients' = clients + 1
       /\ GoesOn(c, [op |-> IF request[c].offered THEN "engage" ELSE "record",
                     offered |-> request[c].offered, client |-> clients + 1])
       /\ UNCHANGED <<lead, verdict, engaged, correction, chases>>
    \/ /\ Doing(c, "engage")
       /\ engaged' = engaged \union {request[c].client}
       /\ GoesOn(c, [request[c] EXCEPT !.op = "record"])
       /\ UNCHANGED <<lead, verdict, clients, correction, chases>>
    \/ /\ Doing(c, "record")
       /\ Records(c, [how |-> "converted", client |-> request[c].client,
                      engaged |-> request[c].offered], "converted")
       /\ UNCHANGED <<clients, engaged, correction, chases>>

CloseLead(c) ==
    \/ /\ verdict = Undecided /\ Begins(c, [op |-> "close"]) /\ UNCHANGED salesRows
    \/ /\ Doing(c, "close")
       /\ Records(c, [Undecided EXCEPT !.how = "lost"], "closed_lost")
       /\ UNCHANGED <<clients, engaged, correction, chases>>

-----------------------------------------------------------------------------
(***************************************************************************)
(* Attribution.  A correction is dated by its caller, and its id is a      *)
(* random uuid.                                                            *)
(***************************************************************************)
Made    == {i \in Corrections : correction[i].to # "none"}
Newest  == {i \in Made : \A j \in Made : correction[j].on <= correction[i].on}

CorrectAttribution(c) ==
    \E i \in Corrections \ Made, to \in Referrers \union {"nobody"}, on \in 0..today :
        /\ Begins(c, AtRest)
        /\ correction' = [correction EXCEPT ![i] = [to |-> to, on |-> on]]
        /\ UNCHANGED <<lead, verdict, clients, engaged, chases>>

\* currentAttribution: correctedAt descending, id ascending, the first.
CurrentAttribution == IF Made = {} THEN lead.referrer ELSE correction[Min(Newest)].to


-----------------------------------------------------------------------------
(***************************************************************************)
(* The chase.                                                              *)
(***************************************************************************)
Stale == /\ lead.stage \notin {"converted", "closed_lost"}
         /\ today - lead.touched > InactivityDays

EscalateStaleLeads(c) ==
    \/ Stale /\ chases = 0 /\ Begins(c, [op |-> "raise"]) /\ UNCHANGED salesRows
    \/ /\ Doing(c, "raise") /\ chases' = chases + 1 /\ Finishes(c)
       /\ UNCHANGED <<lead, verdict, clients, engaged, correction>>

\* resolve of @bwc/notifications.
ResolveChase(c) == /\ chases > 0 /\ Begins(c, AtRest) /\ chases' = chases - 1
                   /\ UNCHANGED <<lead, verdict, clients, engaged, correction>>

SalesNext ==
    \/ DayPasses /\ UNCHANGED salesRows
    \/ \E c \in Clerks :
         \/ QualifyLead(c) \/ RecordBlueprintDelivered(c) \/ ScheduleReviewCall(c)
         \/ RecordActivity(c) \/ ConvertLead(c) \/ CloseLead(c) \/ CorrectAttribution(c)
         \/ EscalateStaleLeads(c) \/ ResolveChase(c)
         \/ ClerkDies(c) /\ UNCHANGED salesRows

-----------------------------------------------------------------------------
SalesTypeOK ==
    /\ lead.stage \in {"new_lead", "qualified", "blueprint_delivered",
                       "review_call_scheduled", "converted", "closed_lost"}
    /\ clients \in 0..MaxClients /\ engaged \subseteq 1..MaxClients /\ chases \in Nat

\* A lead ends once: two conversions, or a conversion and a close, of the same
\* lead at the same time leave the outcome of the first (convertLead,
\* closeLead).
LeadEndsOnce == [][verdict # Undecided => verdict' = verdict]_salesVars

\* A recorded conversion has all that it says: its client, and the engagement
\* it was asked to start, though the process may die anywhere on the way
\* (convertLead).
ConversionIsWhole ==
    verdict.how = "converted" => /\ verdict.client \in 1..clients
                                 /\ verdict.engaged => verdict.client \in engaged

=============================================================================
