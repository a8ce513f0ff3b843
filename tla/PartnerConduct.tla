--------------------------- MODULE PartnerConduct ---------------------------
(***************************************************************************)
(* Whether one partner may act for us, packages/partners: its onboarding,  *)
(* the training that certifies it, the findings on its conduct, and the    *)
(* gates that ask all three before a referral or a brand arrangement.      *)
(***************************************************************************)
EXTENDS Desk

CONSTANTS Qualifications,       \* what the partner's track asks for
          Findings,
          Lessons,              \* 1..n: versions of the one module it must do
          Cadence,              \* RECERTIFICATION_CADENCE_DAYS
          SeriousFindings       \* STANDING_THRESHOLDS.seriousFindings

ASSUME ConductAssumption ==
    /\ IsFiniteSet(Findings)
    /\ IsFiniteSet(Lessons) /\ Lessons = 1..Cardinality(Lessons)
    /\ {Cadence, SeriousFindings} \subseteq Nat /\ SeriousFindings > 0

VARIABLES partner,     \* its status and the qualifications on record
          finding,     \* finding[f]: "none", an open one's severity, or "resolved"
          lesson,      \* lesson[v]: "none", "live" or "superseded", and its material
          done,        \* done[v]: days the completion of v says, one or none
          taught,      \* history: what was trained and on which day
          arrangement, \* the partner may use our name
          referrals

conductRows == <<partner, finding, lesson, done, taught, arrangement, referrals>>
conductVars == <<conductRows, deskVars>>

PartnerConductInit ==
    /\ partner = [status |-> "applied", recorded |-> {}]
    /\ finding = [f \in Findings |-> "none"]
    /\ lesson = [v \in Lessons |-> [status |-> "none", material |-> 0]]
    /\ done = [v \in Lessons |-> {}] /\ taught = {}
    /\ arrangement = FALSE /\ referrals = 0

-----------------------------------------------------------------------------
(***************************************************************************)
(* Onboarding.  Each reads the partner and then writes over its status.    *)
(***************************************************************************)
Engageable == partner.status = "active"

Sets(c, status) == /\ partner' = [partner EXCEPT !.status = status]
                   /\ Finishes(c)
                   /\ UNCHANGED <<finding, lesson, done, taught, arrangement, referrals>>

RecordQualification(c) ==
    \/ \E q \in Qualifications \ partner.recorded :
          /\ Begins(c, [op |-> "qualify", with |-> q, status |-> partner.status])
          /\ UNCHANGED conductRows
    \/ /\ Doing(c, "qualify")
       /\ partner' = [status |-> IF request[c].status = "applied" THEN "onboarding"
                                 ELSE partner.status,
                      recorded |-> partner.recorded \union {request[c].with}]
       /\ Finishes(c) /\ UNCHANGED <<finding, lesson, done, taught, arrangement, referrals>>

CompleteOnboarding(c) ==
    \/ /\ partner.status # "terminated" /\ partner.recorded = Qualifications
       /\ Begins(c, [op |-> "onboard"]) /\ UNCHANGED conductRows
    \/ Doing(c, "onboard") /\ Sets(c, "active")

SuspendPartner(c) ==
    \/ Begins(c, [op |-> "suspend"]) /\ UNCHANGED conductRows
    \/ Doing(c, "suspend") /\ Sets(c, "suspended")

TerminatePartner(c) ==
    \/ Begins(c, [op |-> "terminate"]) /\ UNCHANGED conductRows
    \/ Doing(c, "terminate") /\ Sets(c, "terminated")

-----------------------------------------------------------------------------
(***************************************************************************)
(* Findings.  A critical one suspends the partner, in a step of its own.   *)
(***************************************************************************)
RecordFinding(c) ==
    \/ \E severity \in {"serious", "critical"} :
          /\ Begins(c, [op |-> "find", severity |-> severity, was |-> Engageable])
          /\ UNCHANGED conductRows
    \/ /\ Doing(c, "find")
       /\ \E f \in Findings : /\ finding[f] = "none"
                             /\ finding' = [finding EXCEPT ![f] = request[c].severity]
       /\ IF request[c].severity = "critical" /\ request[c].was
          THEN GoesOn(c, [op |-> "suspend"]) ELSE Finishes(c)
       /\ UNCHANGED <<partner, lesson, done, taught, arrangement, referrals>>

OpenFindings == {f \in Findings : finding[f] \in {"serious", "critical"}}

ResolveFinding(c) ==
    \/ \E f \in OpenFindings : Begins(c, [op |-> "resolve", on |-> f]) /\ UNCHANGED conductRows
    \/ /\ Doing(c, "resolve")
       /\ finding' = [finding EXCEPT ![request[c].on] = "resolved"]
       /\ Finishes(c) /\ UNCHANGED <<partner, lesson, done, taught, arrangement, referrals>>

\* standingFromTriggers: the worst that is true of these findings.
Standing(fs) ==
    LET Count(severity) == Cardinality({f \in fs : finding[f] = severity}) IN
    CASE Count("critical") > 0 -> "decertification_recommended"
      [] Count("critical") = 0 /\ Count("serious") >= SeriousFindings -> "review_required"
      [] OTHER -> "good_standing"

UnderReview(fs) == Standing(fs) # "good_standing"

-----------------------------------------------------------------------------
(***************************************************************************)
(* Training.                                                               *)
(***************************************************************************)
Live == {v \in Lessons : lesson[v].status = "live"}

\* The completions an editorial version takes over keep their day.
Carried(old) == done[old]

\* publishModule.  The version is taken: the transaction fails (@@unique).
PublishModule(c) ==
    \/ \E kind \in {"material", "editorial"} :
          /\ Live = {} => kind = "material"
          /\ Begins(c, [op |-> "teach", kind |-> kind, after |-> Live]) /\ UNCHANGED conductRows
    \/ /\ Doing(c, "teach")
       /\ LET old == IF request[c].after = {} THEN 0 ELSE Max(request[c].after)
              new == old + 1
          IN  IF new \in Lessons /\ lesson[new].status = "none"
              THEN /\ lesson' = [v \in Lessons |->
                         IF v = new
                         THEN [status |-> "live",
                               material |-> IF request[c].kind = "editorial"
                                            THEN lesson[old].material ELSE new]
                         ELSE IF v = old THEN [lesson[v] EXCEPT !.status = "superseded"]
                         ELSE lesson[v]]
                   /\ done' = IF request[c].kind = "editorial"
                              THEN [done EXCEPT ![new] = Carried(old)] ELSE done
              ELSE UNCHANGED <<lesson, done>>
       /\ Finishes(c) /\ UNCHANGED <<partner, finding, taught, arrangement, referrals>>

\* recordCompletion, of a version that may be superseded by now, on a day that
\* may be past.
RecordCompletion(c) ==
    \E v \in Lessons, on \in 0..today :
        /\ lesson[v].status # "none" /\ Begins(c, AtRest)
        /\ done' = [done EXCEPT ![v] = {on}]
        /\ taught' = taught \union {[material |-> lesson[v].material, on |-> on]}
        /\ UNCHANGED <<partner, finding, lesson, arrangement, referrals>>

\* deriveStanding: no curriculum, an outstanding module, a lapsed one, or all
\* done.
CertificationStanding ==
    CASE Live = {} -> "no_curriculum"
      [] Live # {} /\ \E v \in Live : done[v] = {} -> "outstanding"
      [] Live # {} /\ (\A v \in Live : done[v] # {})
         /\ (\E v \in Live : today > Max(done[v]) + Cadence) -> "lapsed"
      [] OTHER -> "certified"

-----------------------------------------------------------------------------
(***************************************************************************)
(* The gates: the partner, then its findings, then its certification, one  *)
(* read after the other.                                                   *)
(***************************************************************************)
\* Mutant: findings are for the weekly queue.
CanReferByStatus(c) ==
    /\ Engageable
    /\ Begins(c, [op |-> "certify", known |-> OpenFindings]) /\ UNCHANGED conductRows

CanRefer(c) ==
    \/ /\ Engageable
       /\ Begins(c, [op |-> "assess", known |-> OpenFindings]) /\ UNCHANGED conductRows
    \/ /\ Doing(c, "assess")
       /\ IF UnderReview(OpenFindings) THEN Finishes(c)
          ELSE GoesOn(c, [request[c] EXCEPT !.op = "certify"])
       /\ UNCHANGED conductRows

Refer(c) ==
    /\ Doing(c, "certify") /\ Finishes(c)
    /\ referrals' = IF CertificationStanding = "certified" THEN referrals + 1 ELSE referrals
    /\ UNCHANGED <<partner, finding, lesson, done, taught, arrangement>>

\* approveBrandArrangement asks the partner and the certification only.
ApproveBrandArrangement(c) ==
    \/ Engageable /\ Begins(c, [op |-> "brand"]) /\ UNCHANGED conductRows
    \/ /\ Doing(c, "brand")
       /\ arrangement' = (arrangement \/ CertificationStanding = "certified")
       /\ Finishes(c) /\ UNCHANGED <<partner, finding, lesson, done, taught, referrals>>

RevokeBrandArrangement(c) ==
    /\ arrangement /\ Begins(c, AtRest) /\ arrangement' = FALSE
    /\ UNCHANGED <<partner, finding, lesson, done, taught, referrals>>

PartnerConductNext ==
    \/ DayPasses /\ UNCHANGED conductRows
    \/ \E c \in Clerks :
         \/ RecordQualification(c) \/ CompleteOnboarding(c)
         \/ SuspendPartner(c) \/ TerminatePartner(c)
         \/ RecordFinding(c) \/ ResolveFinding(c)
         \/ PublishModule(c) \/ RecordCompletion(c)
         \/ CanRefer(c) \/ Refer(c)
         \/ ApproveBrandArrangement(c) \/ RevokeBrandArrangement(c)
         \/ ClerkDies(c) /\ UNCHANGED conductRows

-----------------------------------------------------------------------------
PartnerConductTypeOK ==
    /\ partner.status \in {"applied", "onboarding", "active", "suspended", "terminated"}
    /\ finding \in [Findings -> {"none", "serious", "critical", "resolved"}]
    /\ \A v \in Lessons : Cardinality(done[v]) <= 1

\* A certified partner was taught what is taught now, within the cadence:
\* corrections to a module do not renew what was learnt from the version
\* before, whoever publishes and records at once (publishModule,
\* recordCompletion, deriveStanding).
CertifiedIsTaught ==
    CertificationStanding = "certified" =>
        \A v \in Live : \E t \in taught : t.material = lesson[v].material
                                          /\ today <= t.on + Cadence

\* What was found before a referral was asked for stops it, until a human
\* resolves it: also when the process that recorded it died before it
\* suspended the partner, and when the partner was onboarded again since
\* (recordFinding, completeOnboarding, canRefer).
FindingsStopReferrals ==
    [][\A c \in Clerks : referrals' > referrals /\ Doing(c, "certify") /\ request'[c] = AtRest
          => ~UnderReview(request[c].known \intersect OpenFindings)]_conductVars
=============================================================================
