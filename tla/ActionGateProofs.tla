-------------------------- MODULE ActionGateProofs --------------------------
(***************************************************************************)
(* Proofs about the middleware chain, for any requests, officers, listings,*)
(* overrides, authorizations and breaches, and any acts and deaths.        *)
(*                                                                         *)
(* The argument follows a request along the chain.  A block that stood     *)
(* since it began is still in force when its check reads the rows, so the  *)
(* check stops the request: past a check, no block of its kind is left     *)
(* among those that stood.  What a check reads and a later one uses (the   *)
(* compliance state, the active listing) says the same of what has stood.  *)
(***************************************************************************)
EXTENDS ActionGate, FiniteSetTheorems, TLAPS

Labels == {"new", "contact", "actor", "client", "listing", "override", "conduct",
           "gate", "refusal", "regulatory", "emit", "scan", "approve", "block",
           "blocked", "consent", "rank", "outcome", "recommend", "done", "dead"}
Events == {"actor_blocked", "placement.refused", "placement.requested",
           "placement.recommended", "comms.message.sent", "comms.message.blocked"}
Reasons == {"none", "actor", "do_not_fund", "conduct", "firewall", "compliance",
            "regulatory", "preference", "ledger", "scan", "consent", "no_data"}
LocalsRead == [compliance : ComplianceStates, listing : Listings \union {0},
               override : Overrides \union {0}]

RequestTypes ==
    /\ at \in [Requests -> Labels] /\ log \in [Requests -> Seq(Events)]
    /\ reason \in [Requests -> Reasons] /\ stood \in [Requests -> SUBSET
          [what : Blocks, listing : Listings \union {0}]]

\* The labels past the check of each kind of block.
AfterConsent      == {"rank", "recommend"}
AfterJurisdiction == AfterConsent \union {"emit", "scan", "approve", "consent"}
AfterGate         == AfterJurisdiction \union {"regulatory"}
AfterConduct      == AfterGate \union {"gate"}
AfterListing      == AfterConduct \union {"conduct"}
AfterClient       == AfterListing \union {"listing", "override"}
AfterContact      == AfterClient \union {"actor", "client"}
Stopped           == {"refusal", "block", "blocked", "outcome", "done", "dead"}

\* A request past the check of a kind of block has none of them behind it.
PastItsChecks(r) ==
    \A b \in stood[r] :
        /\ b.what = "preference"  => at[r] \notin AfterContact
        /\ b.what = "do_not_fund" => at[r] \notin AfterListing
        /\ b.what = "conduct"     => at[r] \notin AfterConduct
        /\ b.what \in {"firewall", "compliance"} => at[r] \notin AfterGate
        /\ b.what = "regulatory"  => at[r] \notin AfterJurisdiction
        /\ b.what = "consent"     => at[r] \notin AfterConsent

\* What a check read and a later one uses agrees with what has stood.
ReadsAgree(r) ==
    \A b \in stood[r] :
        /\ (b.what = "compliance" /\ at[r] \in AfterClient)
              => locals[r].compliance \notin Eligible
        /\ (b.what = "do_not_fund" /\ at[r] = "override")
              => b.listing = locals[r].listing

\* The kinds of request keep to their own labels, and end as they may.
KeepsToItsKind(r) ==
    /\ at[r] \in {"override", "consent", "rank", "recommend", "outcome"} => IsPlacement(r)
    /\ at[r] \in {"contact", "regulatory", "scan", "approve", "block", "blocked"}
          => ~IsPlacement(r)
    /\ at[r] = "new" => stood[r] = {}
    /\ reason[r] # "none" => at[r] \in Stopped
    /\ Logged(r, "placement.recommended") => at[r] = "done" /\ stood[r] = {}
    /\ message[r] = "approved_to_send" => at[r] = "done" /\ stood[r] = {}

\* No block that stood outranks the one a refusal names.
MayLead(why, what) ==
    /\ why \in {"conduct", "firewall", "compliance", "consent"} => what # "do_not_fund"
    /\ why \in {"firewall", "compliance", "consent"} => what # "conduct"
    /\ why \in {"compliance", "consent", "regulatory"} => what # "firewall"
    /\ why \in {"consent", "regulatory"} => what # "compliance"
    /\ why = "regulatory" => what # "preference"
LeadsWithTheWorst(r) == \A b \in stood[r] : MayLead(reason[r], b.what)

RequestOK(r) ==
    /\ PastItsChecks(r) /\ ReadsAgree(r) /\ KeepsToItsKind(r) /\ LeadsWithTheWorst(r)

\* What has stood is in force.
InForce(r) == at[r] \notin {"done", "dead"} => stood[r] \subseteq BlocksFor(kind[r])

\* Only a human sits down to remove or except, and what is owed is there.
OfficeOK ==
    /\ \A o \in Officers : desk[o].at \in {"remove", "except"} =>
          o \in Humans /\ desk[o].listing \in Listings
    /\ "do_not_fund" \in owed => \E l \in Listings : Live(l)
    /\ "firewall" \in owed => firewall = "triggered"

GateInv ==
    /\ GateTypeOK /\ RequestTypes /\ OfficeOK
    /\ \A r \in Requests : RequestOK(r) /\ InForce(r)

-----------------------------------------------------------------------------
(***************************************************************************)
(* Greatest and least elements of finite sets of integers.                 *)
(***************************************************************************)
\* The elements above x shrink as x grows, so of finitely many one has none.
LEMMA MaxIsGreatest ==
    ASSUME NEW T \in SUBSET Int, IsFiniteSet(T), T # {}
    PROVE  Max(T) \in T /\ \A y \in T : Max(T) >= y
<1> DEFINE Above(x) == {y \in T : y > x}
           F == {Above(x) : x \in T}
<1>1. F \subseteq FiniteSubsetsOf(T) /\ F # {}
  <2>1. \A x \in T : Above(x) \subseteq T /\ IsFiniteSet(Above(x))
    BY FS_Subset
  <2> QED
    BY <2>1 DEF FiniteSubsetsOf
<1>2. IsWellFoundedOn(StrictSubsetOrdering(T), FiniteSubsetsOf(T))
  BY FS_StrictSubsetOrderingWellFounded
<1>3. PICK m \in F : \A n \in F : ~(<<n, m>> \in StrictSubsetOrdering(T))
  BY <1>1, <1>2, WFMin
<1>4. PICK x \in T : m = Above(x)
  OBVIOUS
<1>5. \A y \in T : x >= y
  <2> SUFFICES ASSUME NEW y \in T, y > x PROVE FALSE
    OBVIOUS
  <2>1. Above(y) \subseteq Above(x) /\ y \in Above(x) /\ y \notin Above(y)
    <3>1. x \in Int /\ y \in Int /\ \A z \in T : z \in Int
      OBVIOUS
    <3>2. y \in Above(x) /\ y \notin Above(y)
      BY <3>1
    <3>3. ASSUME NEW z \in Above(y) PROVE z \in Above(x)
      <4>1. z \in T /\ z > y
        OBVIOUS
      <4> QED
        BY <3>1, <4>1
    <3> QED
      BY <3>2, <3>3
  <2>2. <<Above(y), Above(x)>> \in StrictSubsetOrdering(T)
    BY <2>1 DEF StrictSubsetOrdering
  <2> QED
    BY <1>3, <1>4, <2>2
<1> QED
  BY <1>5 DEF Max

LEMMA MinIsLeast ==
    ASSUME NEW T \in SUBSET Int, IsFiniteSet(T), T # {}
    PROVE  Min(T) \in T /\ \A y \in T : Min(T) <= y
<1> DEFINE Below(x) == {y \in T : y < x}
           F == {Below(x) : x \in T}
<1>1. F \subseteq FiniteSubsetsOf(T) /\ F # {}
  <2>1. \A x \in T : Below(x) \subseteq T /\ IsFiniteSet(Below(x))
    BY FS_Subset
  <2> QED
    BY <2>1 DEF FiniteSubsetsOf
<1>2. IsWellFoundedOn(StrictSubsetOrdering(T), FiniteSubsetsOf(T))
  BY FS_StrictSubsetOrderingWellFounded
<1>3. PICK m \in F : \A n \in F : ~(<<n, m>> \in StrictSubsetOrdering(T))
  BY <1>1, <1>2, WFMin
<1>4. PICK x \in T : m = Below(x)
  OBVIOUS
<1>5. \A y \in T : x <= y
  <2> SUFFICES ASSUME NEW y \in T, y < x PROVE FALSE
    OBVIOUS
  <2>1. Below(y) \subseteq Below(x) /\ y \in Below(x) /\ y \notin Below(y)
    <3>1. x \in Int /\ y \in Int /\ \A z \in T : z \in Int
      OBVIOUS
    <3>2. y \in Below(x) /\ y \notin Below(y)
      BY <3>1
    <3>3. ASSUME NEW z \in Below(y) PROVE z \in Below(x)
      <4>1. z \in T /\ z < y
        OBVIOUS
      <4> QED
        BY <3>1, <4>1
    <3> QED
      BY <3>2, <3>3
  <2>2. <<Below(y), Below(x)>> \in StrictSubsetOrdering(T)
    BY <2>1 DEF StrictSubsetOrdering
  <2> QED
    BY <1>3, <1>4, <2>2
<1> QED
  BY <1>5 DEF Min

LEMMA RowsAreNumbered ==
    /\ Listings \subseteq Nat \ {0} /\ Overrides \subseteq Nat \ {0}
    /\ \A T \in SUBSET Listings : IsFiniteSet(T)
    /\ \A T \in SUBSET Overrides : IsFiniteSet(T)
<1>1. Cardinality(Listings) \in Nat /\ Cardinality(Overrides) \in Nat
  BY GateAssumption, FS_CardinalityType
<1>2. Listings \subseteq Nat \ {0}
  BY <1>1, GateAssumption
<1>3. Overrides \subseteq Nat \ {0}
  BY <1>1, GateAssumption
<1>4. /\ \A T \in SUBSET Listings : IsFiniteSet(T)
      /\ \A T \in SUBSET Overrides : IsFiniteSet(T)
  BY GateAssumption, FS_Subset
<1> QED
  BY <1>2, <1>3, <1>4

\* activeListing finds one whenever one is listed.
LEMMA ActiveListingIsLive ==
    /\ ActiveListing \in Listings \union {0}
    /\ ActiveListing # 0 => ActiveListing \in Listings /\ Live(ActiveListing)
    /\ (\E l \in Listings : Live(l)) => ActiveListing # 0
<1> DEFINE L == {l \in Listings : Live(l)}
           T == {0} \union L
<1>1. T \subseteq Int /\ T # {} /\ 0 \notin L
  <2>1. \A l \in L : l \in Int /\ l # 0
    BY RowsAreNumbered
  <2> QED
    BY <2>1
<1>2. IsFiniteSet(T)
  <2>1. IsFiniteSet(L)
    BY RowsAreNumbered
  <2>2. IsFiniteSet({0})
    BY FS_Singleton
  <2> QED
    BY <2>1, <2>2, FS_Union
<1>3. Max(T) \in T /\ \A y \in T : Max(T) >= y
  BY <1>1, <1>2, MaxIsGreatest
<1>4. ActiveListing = Max(T)
  BY DEF ActiveListing
<1>5. \A l \in L : l > 0
  BY RowsAreNumbered
<1> HIDE DEF T
<1>6. Max(T) \in {0} \union L
  BY <1>3 DEF T
<1>7. L # {} => Max(T) # 0
  <2> SUFFICES ASSUME NEW l \in L, Max(T) = 0 PROVE FALSE
    OBVIOUS
  <2>1. l \in T /\ l > 0 /\ l \in Int
    BY <1>1, <1>5 DEF T
  <2> QED
    BY <1>3, <2>1
<1> QED
  BY <1>4, <1>6, <1>7

-----------------------------------------------------------------------------
(***************************************************************************)
(* What stands in the way.                                                 *)
(***************************************************************************)
LEMMA BlockMeans ==
    ASSUME NEW k \in {"placement", "message"}, NEW b \in BlocksFor(k)
    PROVE  /\ b.what = "do_not_fund" => /\ k = "placement" /\ b.listing = ActiveListing
                                        /\ ActiveListing # 0 /\ ~Excepted(ActiveListing)
           /\ b.what = "conduct"    => k = "placement" /\ ServicePaused
           /\ b.what = "firewall"   => firewall = "triggered"
           /\ b.what = "compliance" => compliance \notin Eligible
           /\ b.what = "consent"    => k = "placement" /\ consents = {}
           /\ b.what = "regulatory" => k = "message" /\ ~activated
           /\ b.what = "preference" => k = "message" /\ ~contactable
BY DEF BlocksFor, When, Block

LEMMA BlocksAreTyped ==
    ASSUME NEW k \in {"placement", "message"}
    PROVE  BlocksFor(k) \subseteq [what : Blocks, listing : Listings \union {0}]
BY ActiveListingIsLive DEF BlocksFor, When, Block, Blocks

LEMMA BlocksStay ==
    ASSUME UNCHANGED standingVars, NEW k
    PROVE  BlocksFor(k)' = BlocksFor(k)
BY DEF standingVars, BlocksFor, When, Block, ActiveListing, Live, Excepted,
       ServicePaused, OpenResponses

-----------------------------------------------------------------------------
(***************************************************************************)
(* The chain, a request at a time.                                         *)
(***************************************************************************)
\* r's step: nothing but r's own row, which was neither finished nor fresh
\* afterwards.
RowOf(r) == <<kind[r], at[r], locals[r], log[r], message[r], reason[r]>>
OnlyRow(r) ==
    /\ UNCHANGED <<standingVars, kind, officeVars>> /\ deaths' \in 0..MaxDeaths
    /\ at' \in [Requests -> Labels] /\ locals' \in [Requests -> LocalsRead]
    /\ log' \in [Requests -> Seq(Events)]
    /\ message' \in [Requests -> {"none", "approved_to_send", "blocked"}]
    /\ reason' \in [Requests -> Reasons]
    /\ \A q \in Requests \ {r} : /\ at'[q] = at[q] /\ locals'[q] = locals[q]
                                 /\ log'[q] = log[q] /\ message'[q] = message[q]
                                 /\ reason'[q] = reason[q]
    /\ at[r] \notin {"done", "dead"} /\ at'[r] # "new"

\* ... column by column.
Advances(r) ==
    \/ (\E l \in Labels \ {"new"} : Goto(r, l)) /\ reason' = reason
    \/ \E l \in Labels \ {"new"} : \E w \in Reasons : Stop(r, l, w)
Reads(r, v)   == locals' = [locals EXCEPT ![r] = v]
Reading(r)    == locals' = locals \/ \E v \in LocalsRead : Reads(r, v)
Writing(r)    == log' = log \/ \E e \in Events : Write(r, e)
Mails(r, m)   == message' = [message EXCEPT ![r] = m]
Mailing(r)    == message' = message \/ \E m \in {"approved_to_send", "blocked"} : Mails(r, m)
ChangesRow(r) ==
    /\ UNCHANGED <<standingVars, kind, officeVars>> /\ deaths' \in 0..MaxDeaths
    /\ at[r] \notin {"done", "dead"}
    /\ Advances(r) /\ Reading(r) /\ Writing(r) /\ Mailing(r)

LEMMA ChangesOnlyRow ==
    ASSUME GateInv, NEW r \in Requests, ChangesRow(r)
    PROVE  OnlyRow(r)
<1> USE DEF GateInv, GateTypeOK, RequestTypes, ChangesRow
<1>1. /\ at' \in [Requests -> Labels] /\ at'[r] # "new"
      /\ \A q \in Requests \ {r} : at'[q] = at[q]
      /\ reason' \in [Requests -> Reasons]
      /\ \A q \in Requests \ {r} : reason'[q] = reason[q]
  <2>1. PICK l \in Labels \ {"new"} : at' = [at EXCEPT ![r] = l]
    BY DEF Advances, Goto, Stop
  <2>2. CASE reason' = reason
    BY <2>1, <2>2
  <2>3. ASSUME NEW w \in Reasons, reason' = [reason EXCEPT ![r] = w]
        PROVE  /\ reason' \in [Requests -> Reasons]
               /\ \A q \in Requests \ {r} : reason'[q] = reason[q]
    BY <2>3
  <2> QED
    BY <2>1, <2>2, <2>3 DEF Advances, Stop
<1>2. /\ locals' \in [Requests -> LocalsRead]
      /\ \A q \in Requests \ {r} : locals'[q] = locals[q]
  <2>1. locals \in [Requests -> LocalsRead]
    BY DEF LocalsRead
  <2>2. ASSUME NEW v \in LocalsRead, Reads(r, v)
        PROVE  /\ locals' \in [Requests -> LocalsRead]
               /\ \A q \in Requests \ {r} : locals'[q] = locals[q]
    BY <2>1, <2>2 DEF Reads
  <2> QED
    BY <2>1, <2>2 DEF Reading
<1>3. log' \in [Requests -> Seq(Events)] /\ \A q \in Requests \ {r} : log'[q] = log[q]
  <2>1. CASE log' = log
    BY <2>1
  <2>2. ASSUME NEW e \in Events, Write(r, e)
        PROVE  /\ log' \in [Requests -> Seq(Events)]
               /\ \A q \in Requests \ {r} : log'[q] = log[q]
    <3>1. Append(log[r], e) \in Seq(Events)
      OBVIOUS
    <3>2. log' = [log EXCEPT ![r] = Append(log[r], e)]
      BY <2>2 DEF Write
    <3> QED
      BY <3>1, <3>2
  <2> QED
    BY <2>1, <2>2 DEF Writing
<1>4. /\ message' \in [Requests -> {"none", "approved_to_send", "blocked"}]
      /\ \A q \in Requests \ {r} : message'[q] = message[q]
  <2>1. ASSUME NEW m \in {"approved_to_send", "blocked"}, Mails(r, m)
        PROVE  /\ message' \in [Requests -> {"none", "approved_to_send", "blocked"}]
               /\ \A q \in Requests \ {r} : message'[q] = message[q]
    BY <2>1 DEF Mails
  <2> QED
    BY <2>1 DEF Mailing
<1> QED
  BY <1>1, <1>2, <1>3, <1>4 DEF OnlyRow

LEMMA ReadsAreTyped ==
    ASSUME GateInv, NEW r \in Requests
    PROVE  /\ locals[r] \in LocalsRead
           /\ [locals[r] EXCEPT !.compliance = compliance] \in LocalsRead
           /\ \A l \in Listings \union {0} : [locals[r] EXCEPT !.listing = l] \in LocalsRead
           /\ \A o \in Overrides : [locals[r] EXCEPT !.override = o] \in LocalsRead
BY DEF GateInv, GateTypeOK, LocalsRead

\* What FindClient, CheckListing and FindOverride keep of what they read.
LEMMA ReadingSteps ==
    ASSUME GateInv, NEW r \in Requests
    PROVE  /\ FindClient(r) => Reads(r, [locals[r] EXCEPT !.compliance = compliance])
           /\ CheckListing(r) =>
                 \/ locals' = locals
                 \/ Reads(r, [locals[r] EXCEPT !.listing = ActiveListing])
           /\ FindOverride(r) =>
                 \/ locals' = locals
                 \/ \E o \in Overrides : Reads(r, [locals[r] EXCEPT !.override = o])
<1> USE DEF GateInv, GateTypeOK
<1>1. FindClient(r) => Reads(r, [locals[r] EXCEPT !.compliance = compliance])
  BY DEF FindClient, Reads
<1>2. CheckListing(r) => \/ locals' = locals
                         \/ Reads(r, [locals[r] EXCEPT !.listing = ActiveListing])
  BY DEF CheckListing, Reads
<1>3. ASSUME FindOverride(r)
      PROVE  \/ locals' = locals
             \/ \E o \in Overrides : Reads(r, [locals[r] EXCEPT !.override = o])
  <2> DEFINE granted == {o \in Overrides : override[o] = locals[r].listing}
  <2>1. ASSUME granted # {} PROVE Min(granted) \in Overrides
    <3>1. granted \subseteq Overrides /\ IsFiniteSet(granted)
      BY RowsAreNumbered
    <3>2. \A o \in granted : o \in Int
      BY RowsAreNumbered
    <3>3. Min(granted) \in granted
      BY <2>1, <3>1, <3>2, MinIsLeast
    <3> QED
      BY <3>3
  <2>2. \/ locals' = locals
        \/ /\ granted # {}
           /\ Reads(r, [locals[r] EXCEPT !.override = Min(granted)])
    BY <1>3 DEF FindOverride, Reads
  <2> QED
    BY <2>1, <2>2
<1> QED
  BY <1>1, <1>2, <1>3

LEMMA ChainTouchesOneRow ==
    ASSUME GateInv, NEW r \in Requests, ChainStep(r) \/ RequestDies(r)
    PROVE  OnlyRow(r)
<1> SUFFICES ChangesRow(r)
  BY ChangesOnlyRow
<1>0. deaths \in 0..MaxDeaths /\ MaxDeaths \in Nat
  BY GateAssumption DEF GateInv, GateTypeOK
<1>l. /\ \A l \in {"contact", "actor", "client", "listing", "override", "conduct",
                   "gate", "refusal", "regulatory", "emit", "scan", "approve", "block",
                   "blocked", "consent", "rank", "outcome", "recommend", "done", "dead"} :
            l \in Labels \ {"new"}
      /\ Refused(r) \in Labels \ {"new"}
  BY DEF Labels, Refused
<1>e. \A e \in {"actor_blocked", "placement.refused", "placement.requested",
                "placement.recommended", "comms.message.sent", "comms.message.blocked"} :
         e \in Events
  BY DEF Events
<1>w. \A w \in {"actor", "do_not_fund", "conduct", "firewall", "compliance", "regulatory",
                "preference", "ledger", "scan", "consent", "no_data"} : w \in Reasons
  BY DEF Reasons
<1> USE <1>0, <1>l, <1>e, <1>w DEF ChangesRow, Advances, Reading, Writing, Mailing
<1>1. CASE Receive(r)
  BY <1>1 DEF Receive
<1>2. CASE CheckContact(r)
  BY <1>2 DEF CheckContact
<1>3. CASE CheckActor(r)
  BY <1>3 DEF CheckActor
<1>4. CASE FindClient(r)
  BY <1>4, ReadingSteps, ReadsAreTyped DEF FindClient
<1>5. CASE CheckListing(r)
  BY <1>5, ReadingSteps, ReadsAreTyped, ActiveListingIsLive DEF CheckListing
<1>6. CASE FindOverride(r)
  BY <1>6, ReadingSteps, ReadsAreTyped DEF FindOverride
<1>7. CASE CheckConduct(r)
  BY <1>7 DEF CheckConduct
<1>8. CASE EvaluateGate(r)
  BY <1>8 DEF EvaluateGate
<1>9. CASE RecordRefusal(r)
  BY <1>9 DEF RecordRefusal
<1>10. CASE CheckJurisdiction(r)
  BY <1>10 DEF CheckJurisdiction
<1>11. CASE EmitEvent(r)
  BY <1>11 DEF EmitEvent
<1>12. CASE ScanContent(r)
  BY <1>12 DEF ScanContent
<1>13. CASE ApproveMessage(r) \/ BlockMessage(r)
  BY <1>13 DEF ApproveMessage, BlockMessage, Mails
<1>14. CASE RecordBlocked(r) \/ RecordOutcome(r) \/ Recommend(r)
  BY <1>14 DEF RecordBlocked, RecordOutcome, Recommend
<1>15. CASE CheckConsent(r) \/ RankCandidates(r)
  BY <1>15 DEF CheckConsent, RankCandidates
<1>16. CASE RequestDies(r)
  BY <1>16 DEF RequestDies
<1> QED
  BY <1>1, <1>2, <1>3, <1>4, <1>5, <1>6, <1>7, <1>8, <1>9, <1>10, <1>11, <1>12, <1>13,
     <1>14, <1>15, <1>16 DEF ChainStep

\* Where a step leaves r: its label, its reason, its events, its row.
LEMMA StepsShow ==
    ASSUME GateInv, NEW r \in Requests
    PROVE  /\ \A l : Goto(r, l) => at'[r] = l
           /\ \A l, w : Stop(r, l, w) => at'[r] = l /\ reason'[r] = w
           /\ \A e : Write(r, e) => \A x : Logged(r, x)' => Logged(r, x) \/ x = e
           /\ log' = log => \A x : Logged(r, x)' => Logged(r, x)
           /\ \A m : Mails(r, m) => message'[r] = m
<1> USE DEF GateInv, GateTypeOK, RequestTypes
<1>1. ASSUME NEW l, Goto(r, l) PROVE at'[r] = l
  BY <1>1 DEF Goto
<1>2. ASSUME NEW l, NEW w, Stop(r, l, w) PROVE at'[r] = l /\ reason'[r] = w
  BY <1>2 DEF Goto, Stop
<1>3. ASSUME NEW e, Write(r, e), NEW x, Logged(r, x)'
      PROVE  Logged(r, x) \/ x = e
  <2>1. log'[r] = Append(log[r], e) /\ log[r] \in Seq(Events)
    BY <1>3 DEF Write
  <2>2. PICK i \in DOMAIN log'[r] : log'[r][i] = x
    BY <1>3 DEF Logged
  <2>3. DOMAIN log'[r] = 1..(Len(log[r]) + 1) /\ Len(log[r]) \in Nat
        /\ DOMAIN log[r] = 1..Len(log[r])
    BY <2>1
  <2>4. CASE i = Len(log[r]) + 1
    BY <2>1, <2>2, <2>4
  <2>5. CASE i # Len(log[r]) + 1
    <3>1. i \in DOMAIN log[r] /\ log'[r][i] = log[r][i]
      BY <2>1, <2>2, <2>3, <2>5
    <3> QED
      BY <2>2, <3>1 DEF Logged
  <2> QED
    BY <2>4, <2>5
<1>4. log' = log => \A x : Logged(r, x)' => Logged(r, x)
  BY DEF Logged
<1>5. ASSUME NEW m, Mails(r, m) PROVE message'[r] = m
  BY <1>5 DEF Mails
<1> QED
  BY <1>1, <1>2, <1>3, <1>4, <1>5

\* What has stood only shrinks, and is in force, while r is on its way.
LEMMA StoodShrinks ==
    ASSUME GateInv, Observe, kind' = kind, NEW r \in Requests,
           at[r] # "new", at'[r] # "new"
    PROVE  /\ stood'[r] \subseteq stood[r]
           /\ at[r] \notin {"done", "dead"} => stood[r] \subseteq BlocksFor(kind[r])
           /\ at[r] \notin {"done", "dead"} => InForce(r)'
<1>1. stood'[r] = IF at[r] \in {"done", "dead"} THEN stood[r]
                  ELSE stood[r] \intersect BlocksFor(kind[r])'
  BY DEF Observe
<1> QED
  BY <1>1 DEF GateInv, InForce

LEMMA OthersStay ==
    ASSUME GateInv, Observe, kind' = kind, NEW r \in Requests,
           at'[r] = at[r], locals'[r] = locals[r], log'[r] = log[r],
           message'[r] = message[r], reason'[r] = reason[r]
    PROVE  RequestOK(r)' /\ InForce(r)'
<1>1. stood'[r] \subseteq stood[r] /\ InForce(r)'
  <2>1. CASE at[r] = "new"
    BY <2>1 DEF Observe, GateInv, RequestOK, KeepsToItsKind, InForce
  <2>2. CASE at[r] \in {"done", "dead"}
    BY <2>2 DEF Observe, InForce
  <2>3. CASE at[r] \notin {"new", "done", "dead"}
    BY <2>3, StoodShrinks
  <2> QED
    BY <2>1, <2>2, <2>3
<1>2. RequestOK(r)
  BY DEF GateInv
<1>3. PastItsChecks(r)' /\ ReadsAgree(r)'
  BY <1>1, <1>2 DEF RequestOK, PastItsChecks, ReadsAgree
<1>4. KeepsToItsKind(r)'
  BY <1>1, <1>2 DEF RequestOK, KeepsToItsKind, IsPlacement, Logged
<1>5. LeadsWithTheWorst(r)'
  BY <1>1, <1>2 DEF RequestOK, LeadsWithTheWorst
<1> QED
  BY <1>1, <1>3, <1>4, <1>5 DEF RequestOK

LEMMA ReceiveKeepsRequest ==
    ASSUME GateInv, Observe, NEW r \in Requests, Receive(r)
    PROVE  RequestOK(r)' /\ InForce(r)'
<1>1. /\ at[r] = "new" /\ at'[r] = IF IsPlacement(r) THEN "actor" ELSE "contact"
      /\ UNCHANGED <<standingVars, kind, locals, log, message, reason>>
  BY StepsShow DEF Receive
<1>2. stood'[r] = BlocksFor(kind[r]) /\ kind[r] \in {"placement", "message"}
  BY <1>1 DEF Observe, GateInv, GateTypeOK
<1>3. InForce(r)'
  <2>1. BlocksFor(kind[r])' = BlocksFor(kind[r])
    BY <1>1, BlocksStay
  <2> QED
    BY <1>2, <2>1 DEF InForce
<1>4. /\ reason[r] = "none" /\ message[r] # "approved_to_send"
      /\ ~Logged(r, "placement.recommended")
  BY <1>1 DEF GateInv, RequestOK, KeepsToItsKind, Stopped
<1>5. PastItsChecks(r)' /\ ReadsAgree(r)'
  BY <1>1, <1>2, BlockMeans DEF PastItsChecks, ReadsAgree, IsPlacement, AfterContact,
     AfterClient, AfterListing, AfterConduct, AfterGate, AfterJurisdiction, AfterConsent
<1>6. KeepsToItsKind(r)'
  BY <1>1, <1>4 DEF KeepsToItsKind, IsPlacement, Logged
<1>7. LeadsWithTheWorst(r)'
  BY <1>1, <1>4 DEF LeadsWithTheWorst, MayLead
<1> QED
  BY <1>3, <1>5, <1>6, <1>7 DEF RequestOK

\* A step that goes on to the next check, having found its block lifted.
LEMMA GoingOn ==
    ASSUME GateInv, Observe, kind' = kind, NEW r \in Requests,
           at[r] \notin Stopped \union {"new"}, at'[r] \notin Stopped \union {"new"},
           reason'[r] = reason[r], message'[r] = message[r],
           Logged(r, "placement.recommended")' => Logged(r, "placement.recommended"),
           at'[r] \in {"override", "consent", "rank", "recommend"} => IsPlacement(r),
           at'[r] \in {"contact", "regulatory", "scan", "approve"} => ~IsPlacement(r),
           \A b \in stood[r] : b \in BlocksFor(kind[r]) =>
              /\ b.what = "preference"  => at'[r] \notin AfterContact
              /\ b.what = "do_not_fund" => at'[r] \notin AfterListing
              /\ b.what = "conduct"     => at'[r] \notin AfterConduct
              /\ b.what \in {"firewall", "compliance"} => at'[r] \notin AfterGate
              /\ b.what = "regulatory"  => at'[r] \notin AfterJurisdiction
              /\ b.what = "consent"     => at'[r] \notin AfterConsent
              /\ (b.what = "compliance" /\ at'[r] \in AfterClient)
                    => locals'[r].compliance \notin Eligible
              /\ (b.what = "do_not_fund" /\ at'[r] = "override")
                    => b.listing = locals'[r].listing
    PROVE  RequestOK(r)' /\ InForce(r)'
<1>0. at[r] \notin {"new", "done", "dead"} /\ at'[r] # "new"
  BY DEF Stopped
<1>1. stood'[r] \subseteq stood[r] /\ stood[r] \subseteq BlocksFor(kind[r]) /\ InForce(r)'
  BY <1>0, StoodShrinks
<1>2. /\ RequestOK(r) /\ ~Logged(r, "placement.recommended")
      /\ message[r] # "approved_to_send" /\ reason[r] = "none"
  BY <1>0 DEF GateInv, RequestOK, KeepsToItsKind
<1>3. PastItsChecks(r)' /\ ReadsAgree(r)'
  BY <1>1 DEF PastItsChecks, ReadsAgree
<1>4. KeepsToItsKind(r)'
  BY <1>2 DEF KeepsToItsKind, IsPlacement, Stopped
<1>5. LeadsWithTheWorst(r)'
  BY <1>1, <1>2 DEF RequestOK, LeadsWithTheWorst
<1> QED
  BY <1>1, <1>3, <1>4, <1>5 DEF RequestOK

\* A step that stops, or that finishes what was stopped: it names a block
\* that none of those in force outranks, or it keeps the one it named.
LEMMA Stopping ==
    ASSUME GateInv, Observe, kind' = kind, NEW r \in Requests,
           at[r] \notin {"new", "done", "dead"}, at'[r] \in Stopped,
           message'[r] \in {message[r], "blocked"},
           Logged(r, "placement.recommended")' => Logged(r, "placement.recommended"),
           at'[r] = "outcome" => IsPlacement(r),
           at'[r] \in {"block", "blocked"} => ~IsPlacement(r),
           \/ reason'[r] = reason[r]
           \/ \A b \in stood[r] : b \in BlocksFor(kind[r]) => MayLead(reason'[r], b.what)
    PROVE  RequestOK(r)' /\ InForce(r)'
<1>0. at'[r] # "new"
  BY DEF Stopped
<1>1. stood'[r] \subseteq stood[r] /\ stood[r] \subseteq BlocksFor(kind[r]) /\ InForce(r)'
  BY <1>0, StoodShrinks
<1>2. /\ RequestOK(r) /\ ~Logged(r, "placement.recommended")
      /\ message[r] # "approved_to_send"
  BY DEF GateInv, RequestOK, KeepsToItsKind
<1>3. PastItsChecks(r)' /\ ReadsAgree(r)'
  BY DEF PastItsChecks, ReadsAgree, Stopped, AfterContact, AfterClient, AfterListing,
         AfterConduct, AfterGate, AfterJurisdiction, AfterConsent
<1>4. KeepsToItsKind(r)'
  BY <1>2 DEF KeepsToItsKind, IsPlacement, Stopped
<1>5. LeadsWithTheWorst(r)'
  <2> SUFFICES ASSUME NEW b \in stood'[r] PROVE MayLead(reason'[r], b.what)
    BY DEF LeadsWithTheWorst
  <2> QED
    BY <1>1, <1>2 DEF RequestOK, LeadsWithTheWorst
<1> QED
  BY <1>1, <1>3, <1>4, <1>5 DEF RequestOK

\* A request past all of its checks has nothing standing behind it.
LEMMA NothingStood ==
    ASSUME GateInv, NEW r \in Requests, at[r] \in {"approve", "recommend"}
    PROVE  stood[r] = {}
<1> SUFFICES ASSUME NEW b \in stood[r] PROVE FALSE
  OBVIOUS
<1>1. b.what \in Blocks /\ kind[r] \in {"placement", "message"}
  BY DEF GateInv, RequestTypes, GateTypeOK
<1>2. b \in BlocksFor(kind[r])
  BY DEF GateInv, InForce
<1>3. PastItsChecks(r) /\ KeepsToItsKind(r)
  BY DEF GateInv, RequestOK
<1>4. b.what = "consent" => kind[r] = "placement"
  BY <1>1, <1>2, BlockMeans
<1> QED
  BY <1>1, <1>3, <1>4 DEF Blocks, PastItsChecks, KeepsToItsKind, IsPlacement,
     AfterContact, AfterClient, AfterListing, AfterConduct, AfterGate,
     AfterJurisdiction, AfterConsent

\* The steps that let a request through.
LEMMA Finishing ==
    ASSUME GateInv, Observe, NEW r \in Requests, ApproveMessage(r) \/ Recommend(r)
    PROVE  RequestOK(r)' /\ InForce(r)'
<1>1. at[r] \in {"approve", "recommend"} /\ at'[r] = "done" /\ kind' = kind
      /\ reason'[r] = reason[r]
  BY StepsShow DEF ApproveMessage, Recommend
<1>2. stood'[r] = {}
  BY <1>1, NothingStood, StoodShrinks
<1>3. InForce(r)'
  BY <1>1 DEF InForce
<1>4. PastItsChecks(r)' /\ ReadsAgree(r)' /\ LeadsWithTheWorst(r)'
  BY <1>2 DEF PastItsChecks, ReadsAgree, LeadsWithTheWorst
<1>5. KeepsToItsKind(r)'
  BY <1>1, <1>2 DEF KeepsToItsKind, Stopped
<1> QED
  BY <1>3, <1>4, <1>5 DEF RequestOK

\* What a request brings to its next check, and what each of its blocks means.
LEMMA OnItsWay ==
    ASSUME GateInv, NEW r \in Requests
    PROVE  /\ RequestOK(r) /\ kind[r] \in {"placement", "message"}
           /\ IsPlacement(r) <=> kind[r] # "message"
           /\ Refused(r) \in {"done", "block"} /\ (Refused(r) = "block" => ~IsPlacement(r))
           /\ \A b \in stood[r] : b.what \in Blocks
BY DEF GateInv, GateTypeOK, RequestTypes, IsPlacement, Refused

\* Every step of the chain, one action at a time.
LEMMA ChainKeepsRequest ==
    ASSUME GateInv, Observe, NEW r \in Requests, ChainStep(r) \/ RequestDies(r)
    PROVE  RequestOK(r)' /\ InForce(r)'
<1>0. GateTypeOK
  BY DEF GateInv
<1>s. /\ \A l : Goto(r, l) => at'[r] = l
      /\ \A l, w : Stop(r, l, w) => at'[r] = l /\ reason'[r] = w
      /\ \A e : Write(r, e) => \A x : Logged(r, x)' => Logged(r, x) \/ x = e
      /\ log' = log => \A x : Logged(r, x)' => Logged(r, x)
      /\ \A m : Mails(r, m) => message'[r] = m
  BY StepsShow
<1>k. /\ RequestOK(r) /\ kind[r] \in {"placement", "message"}
      /\ IsPlacement(r) <=> kind[r] # "message"
      /\ Refused(r) \in {"done", "block"} /\ (Refused(r) = "block" => ~IsPlacement(r))
      /\ \A b \in stood[r] : b.what \in Blocks
  BY OnItsWay
<1>b. ASSUME NEW b \in BlocksFor(kind[r])
      PROVE  /\ b.what = "do_not_fund" => /\ kind[r] = "placement"
                                          /\ b.listing = ActiveListing
                                          /\ ActiveListing # 0 /\ ~Excepted(ActiveListing)
             /\ b.what = "conduct"    => kind[r] = "placement" /\ ServicePaused
             /\ b.what = "firewall"   => firewall = "triggered"
             /\ b.what = "compliance" => compliance \notin Eligible
             /\ b.what = "consent"    => kind[r] = "placement" /\ consents = {}
             /\ b.what = "regulatory" => kind[r] = "message" /\ ~activated
             /\ b.what = "preference" => kind[r] = "message" /\ ~contactable
  BY <1>k, BlockMeans
<1> USE DEF AfterContact, AfterClient, AfterListing, AfterConduct, AfterGate,
            AfterJurisdiction, AfterConsent, Stopped, RequestOK
<1>1. CASE Receive(r)
  BY <1>1, ReceiveKeepsRequest
<1>2. CASE CheckContact(r)
  <2> USE <1>2 DEF CheckContact
  <2>1. CASE Goto(r, "actor") /\ contactable
    BY <1>s, <1>k, <1>b, <2>1, GoingOn DEF PastItsChecks
  <2>2. CASE Stop(r, "block", "preference")
    BY <1>s, <1>k, <2>2, Stopping DEF KeepsToItsKind, MayLead
  <2> QED
    BY <2>1, <2>2
<1>3. CASE CheckActor(r)
  <2> USE <1>3 DEF CheckActor
  <2>1. CASE Goto(r, "client") /\ UNCHANGED <<reason, log>>
    BY <1>s, <1>k, <2>1, GoingOn DEF PastItsChecks
  <2>2. CASE Stop(r, Refused(r), "actor")
    BY <1>s, <1>k, <2>2, Stopping DEF MayLead
  <2> QED
    BY <2>1, <2>2
<1>4. CASE FindClient(r)
  <2> USE <1>4 DEF FindClient
  <2>1. locals'[r].compliance = compliance
    BY <1>0 DEF GateTypeOK
  <2> QED
    BY <1>s, <1>k, <1>b, <2>1, GoingOn DEF PastItsChecks
<1>5. CASE CheckListing(r)
  <2> USE <1>5 DEF CheckListing
  <2>1. CASE Goto(r, "conduct") /\ UNCHANGED locals /\ ~(IsPlacement(r) /\ ActiveListing # 0)
    BY <1>s, <1>k, <1>b, <2>1, GoingOn DEF PastItsChecks, ReadsAgree
  <2>2. CASE /\ locals' = [locals EXCEPT ![r].listing = ActiveListing]
             /\ Goto(r, "override") /\ IsPlacement(r)
    <3>1. locals'[r].listing = ActiveListing /\ locals'[r].compliance = locals[r].compliance
      BY <1>0, <2>2 DEF GateTypeOK
    <3> QED
      BY <1>s, <1>k, <1>b, <2>2, <3>1, GoingOn DEF PastItsChecks, ReadsAgree
  <2> QED
    BY <2>1, <2>2
<1>6. CASE FindOverride(r)
  <2> DEFINE granted == {o \in Overrides : override[o] = locals[r].listing}
  <2>1. CASE granted # {}
    <3>1. /\ locals' = [locals EXCEPT ![r].override = Min(granted)]
          /\ Goto(r, "conduct") /\ UNCHANGED <<reason, kind, log, message>>
          /\ at[r] = "override"
      BY <1>6, <2>1 DEF FindOverride
    <3>2. locals'[r].compliance = locals[r].compliance
      BY <1>0, <3>1 DEF GateTypeOK
    <3>3. Excepted(locals[r].listing)
      BY <2>1 DEF Excepted
    <3> HIDE DEF granted
    <3> QED
      BY <1>s, <1>k, <1>b, <3>1, <3>2, <3>3, GoingOn
         DEF PastItsChecks, ReadsAgree, KeepsToItsKind
  <2>2. CASE granted = {}
    <3>1. Stop(r, "refusal", "do_not_fund") /\ UNCHANGED <<kind, log, message>>
          /\ at[r] = "override"
      BY <1>6, <2>2 DEF FindOverride
    <3> QED
      BY <1>s, <1>k, <3>1, Stopping DEF MayLead
  <2> QED
    BY <2>1, <2>2
<1>7. CASE CheckConduct(r)
  <2> USE <1>7 DEF CheckConduct
  <2>1. CASE Goto(r, "gate") /\ UNCHANGED reason /\ ~(IsPlacement(r) /\ ServicePaused)
    BY <1>s, <1>k, <1>b, <2>1, GoingOn DEF PastItsChecks, ReadsAgree
  <2>2. CASE Stop(r, "refusal", "conduct")
    BY <1>s, <1>k, <2>2, Stopping DEF PastItsChecks, MayLead
  <2> QED
    BY <2>1, <2>2
<1>8. CASE EvaluateGate(r)
  <2> USE <1>8 DEF EvaluateGate
  <2>1. CASE Stop(r, "refusal", "firewall")
    BY <1>s, <1>k, <2>1, Stopping DEF PastItsChecks, MayLead
  <2>2. CASE Stop(r, "refusal", "compliance") /\ firewall # "triggered"
    BY <1>s, <1>k, <1>b, <2>2, Stopping DEF PastItsChecks, MayLead
  <2>3. CASE /\ Goto(r, IF IsPlacement(r) THEN "emit" ELSE "regulatory") /\ UNCHANGED reason
             /\ firewall # "triggered" /\ locals[r].compliance \in Eligible
    BY <1>s, <1>k, <1>b, <2>3, GoingOn DEF PastItsChecks, ReadsAgree
  <2> QED
    BY <2>1, <2>2, <2>3
<1>9. CASE RecordRefusal(r)
  BY <1>9, <1>s, <1>k, Stopping DEF RecordRefusal
<1>10. CASE CheckJurisdiction(r)
  <2> USE <1>10 DEF CheckJurisdiction
  <2>1. CASE Goto(r, "emit") /\ UNCHANGED reason /\ activated
    BY <1>s, <1>k, <1>b, <2>1, GoingOn DEF PastItsChecks, ReadsAgree
  <2>2. CASE Stop(r, "block", "regulatory")
    BY <1>s, <1>k, <2>2, Stopping DEF PastItsChecks, KeepsToItsKind, MayLead
  <2> QED
    BY <2>1, <2>2
<1>11. CASE EmitEvent(r)
  <2> USE <1>11 DEF EmitEvent
  <2>1. CASE Stop(r, Refused(r), "ledger") /\ UNCHANGED log
    BY <1>s, <1>k, <2>1, Stopping DEF MayLead
  <2>2. CASE /\ IF IsPlacement(r)
                THEN Write(r, "placement.requested") /\ Goto(r, "consent")
                ELSE Write(r, "comms.message.sent") /\ Goto(r, "scan")
             /\ UNCHANGED reason
    BY <1>s, <1>k, <1>b, <2>2, GoingOn DEF PastItsChecks, ReadsAgree
  <2> QED
    BY <2>1, <2>2
<1>12. CASE ScanContent(r)
  <2> USE <1>12 DEF ScanContent
  <2>1. CASE Goto(r, "approve") /\ UNCHANGED reason
    BY <1>s, <1>k, <2>1, GoingOn DEF PastItsChecks, ReadsAgree, KeepsToItsKind
  <2>2. CASE Stop(r, "block", "scan")
    BY <1>s, <1>k, <2>2, Stopping DEF KeepsToItsKind, MayLead
  <2> QED
    BY <2>1, <2>2
<1>13. CASE ApproveMessage(r) \/ Recommend(r)
  BY <1>13, Finishing
<1>14. CASE BlockMessage(r)
  BY <1>14, <1>s, <1>k, Stopping DEF BlockMessage, Mails, KeepsToItsKind
<1>15. CASE RecordBlocked(r) \/ RecordOutcome(r)
  BY <1>15, <1>s, <1>k, Stopping DEF RecordBlocked, RecordOutcome
<1>16. CASE CheckConsent(r)
  <2> USE <1>16 DEF CheckConsent
  <2>1. CASE Goto(r, "rank") /\ UNCHANGED reason /\ consents # {}
    BY <1>s, <1>k, <1>b, <2>1, GoingOn DEF PastItsChecks, ReadsAgree, KeepsToItsKind
  <2>2. CASE Stop(r, "outcome", "consent")
    BY <1>s, <1>k, <2>2, Stopping DEF PastItsChecks, KeepsToItsKind, MayLead
  <2> QED
    BY <2>1, <2>2
<1>17. CASE RankCandidates(r)
  <2> USE <1>17 DEF RankCandidates
  <2>1. CASE Goto(r, "recommend") /\ UNCHANGED reason
    BY <1>s, <1>k, <2>1, GoingOn DEF PastItsChecks, ReadsAgree, KeepsToItsKind
  <2>2. CASE Stop(r, "outcome", "no_data")
    BY <1>s, <1>k, <2>2, Stopping DEF KeepsToItsKind, MayLead
  <2> QED
    BY <2>1, <2>2
<1>18. CASE RequestDies(r)
  BY <1>18, <1>s, <1>k, Stopping DEF RequestDies
<1> QED
  BY <1>1, <1>2, <1>3, <1>4, <1>5, <1>6, <1>7, <1>8, <1>9, <1>10, <1>11, <1>12, <1>13,
     <1>14, <1>15, <1>16, <1>17, <1>18 DEF ChainStep

LEMMA StoodIsTyped ==
    ASSUME GateInv, Observe, kind' = kind
    PROVE  /\ stood' \in [Requests -> SUBSET [what : Blocks, listing : Listings \union {0}]]
           /\ \A r \in Requests :
                 stood'[r] \subseteq [what : Blocks, listing : Listings \union {0}]
<1> DEFINE T == [what : Blocks, listing : Listings \union {0}]
<1>1. ASSUME NEW r \in Requests PROVE stood'[r] \subseteq T
  <2>1. stood[r] \subseteq T /\ kind[r] \in {"placement", "message"}
    BY DEF GateInv, GateTypeOK
  <2>2. BlocksFor(kind[r]) \subseteq T
    BY <2>1, BlocksAreTyped
  <2>3. \/ stood'[r] = stood[r] \/ stood'[r] = BlocksFor(kind[r])
        \/ stood'[r] = stood[r] \intersect BlocksFor(kind[r])'
    BY DEF Observe
  <2> QED
    BY <2>1, <2>2, <2>3
<1>2. stood' = [r \in Requests |-> stood'[r]]
  BY DEF Observe
<1> QED
  BY <1>1, <1>2

LEMMA ChainKeepsInv ==
    ASSUME GateInv, Observe, NEW r \in Requests, ChainStep(r) \/ RequestDies(r)
    PROVE  GateInv'
<1>1. OnlyRow(r)
  BY ChainTouchesOneRow
<1>2. kind' = kind
  BY <1>1 DEF OnlyRow
<1>3. RequestTypes'
  BY <1>1, <1>2, StoodIsTyped DEF OnlyRow, RequestTypes
<1>4. GateTypeOK'
  BY <1>1, <1>2, StoodIsTyped
     DEF OnlyRow, GateInv, GateTypeOK, standingVars, officeVars, LocalsRead
<1>5. OfficeOK'
  BY <1>1 DEF OnlyRow, GateInv, OfficeOK, Live, standingVars, officeVars
<1>6. ASSUME NEW q \in Requests PROVE RequestOK(q)' /\ InForce(q)'
  <2>1. CASE q = r
    BY <2>1, ChainKeepsRequest
  <2>2. CASE q # r
    BY <1>1, <1>2, <2>2, OthersStay DEF OnlyRow
  <2> QED
    BY <2>1, <2>2
<1> QED
  BY <1>3, <1>4, <1>5, <1>6 DEF GateInv

-----------------------------------------------------------------------------
(***************************************************************************)
(* The officers.                                                           *)
(***************************************************************************)
Posts == {"free", "autolist", "autocreate", "list", "remove", "except"}

LEMMA DesksAreKept ==
    ASSUME GateInv, NEW o \in Officers, NEW label \in Posts,
           NEW l \in Listings \union {0}, Sits(o, label, l)
    PROVE  /\ desk' \in [Officers -> [at : Posts, listing : Listings \union {0}]]
           /\ desk'[o].at = label /\ desk'[o].listing = l
           /\ \A p \in Officers \ {o} : desk'[p] = desk[p]
<1>1. desk \in [Officers -> [at : Posts, listing : Listings \union {0}]]
  BY DEF GateInv, GateTypeOK, Posts
<1>2. AtDesk(label, l) \in [at : Posts, listing : Listings \union {0}]
      /\ AtDesk(label, l).at = label /\ AtDesk(label, l).listing = l
  BY DEF AtDesk
<1>3. desk' = [desk EXCEPT ![o] = AtDesk(label, l)]
  BY DEF Sits
<1> HIDE DEF Posts
<1> QED
  BY <1>1, <1>2, <1>3

\* The listing a new row takes is a fresh one.
LEMMA NextListingIsFresh ==
    ASSUME \E l \in Listings : listing[l] = "none"
    PROVE  NextListing \in Listings /\ listing[NextListing] = "none"
<1> DEFINE T == {l \in Listings : listing[l] = "none"}
<1>1. T \subseteq Listings /\ T # {} /\ IsFiniteSet(T)
  BY RowsAreNumbered
<1>2. ASSUME NEW l \in T PROVE l \in Int
  <2>1. Listings \subseteq Nat
    BY RowsAreNumbered
  <2>2. l \in Listings
    OBVIOUS
  <2>3. l \in Nat
    BY <2>1, <2>2
  <2> QED
    BY <2>3
<1>3. Min(T) \in T /\ \A y \in T : Min(T) <= y
  BY <1>1, <1>2, MinIsLeast
<1>4. Cardinality(Listings) \in Nat /\ Listings = 1..Cardinality(Listings)
  BY GateAssumption, FS_CardinalityType
<1>5. \A k \in 1..(Min(T) - 1) : listing[k] # "none"
  <2> SUFFICES ASSUME NEW k \in 1..(Min(T) - 1), listing[k] = "none" PROVE FALSE
    OBVIOUS
  <2>1. Min(T) \in 1..Cardinality(Listings)
    BY <1>3, <1>4
  <2> HIDE DEF T
  <2>2. k \in 1..Cardinality(Listings) /\ k < Min(T)
    BY <1>4, <2>1
  <2>3. k \in T
    BY <1>4, <2>2 DEF T
  <2> QED
    BY <1>3, <2>1, <2>2, <2>3
<1>6. \E l \in Listings : listing[l] = "none" /\ \A k \in 1..(l - 1) : listing[k] # "none"
  BY <1>3, <1>5
<1> QED
  BY <1>6 DEF NextListing

\* The rows officers keep, apart from what has stood.
OfficeTypes ==
    /\ compliance \in ComplianceStates /\ firewall \in {"clear", "triggered"}
    /\ listing \in [Listings -> {"none", "listed", "removed"}]
    /\ override \in [Overrides -> Listings \union {0}]
    /\ breach \in [Breaches -> {"none", "open", "overdue", "resolved"}]
    /\ consents \subseteq Consents /\ activated \in BOOLEAN /\ contactable \in BOOLEAN
    /\ desk \in [Officers -> [at : Posts, listing : Listings \union {0}]]
    /\ owed \subseteq {"do_not_fund", "firewall"}
    /\ acts \in 0..MaxActs /\ deaths \in 0..MaxDeaths

\* Whatever an officer does, the rows stay well formed and what is owed stays.
LEMMA OfficersKeep ==
    ASSUME GateInv, NEW o \in Officers, OfficerStep(o) \/ OfficerDies(o)
    PROVE  OfficeTypes' /\ OfficeOK' /\ UNCHANGED requestVars
<1>0. OfficeTypes /\ OfficeOK
  BY DEF GateInv, GateTypeOK, OfficeTypes, Posts
<1>a. /\ ActiveListing \in Listings \union {0}
      /\ ActiveListing # 0 => ActiveListing \in Listings /\ Live(ActiveListing)
      /\ (\E l \in Listings : Live(l)) => ActiveListing # 0
  BY ActiveListingIsLive
<1>n. /\ acts < MaxActs /\ acts' = acts + 1 => acts' \in 0..MaxActs
      /\ deaths < MaxDeaths /\ deaths' = deaths + 1 => deaths' \in 0..MaxDeaths
  BY <1>0, GateAssumption DEF OfficeTypes
<1>p. /\ \A label \in {"free", "autolist", "autocreate", "list", "remove", "except"} :
            label \in Posts
      /\ 0 \in Listings \union {0}
  BY DEF Posts
<1>s. ASSUME NEW label \in Posts, NEW l \in Listings \union {0}, Sits(o, label, l)
      PROVE  /\ desk' \in [Officers -> [at : Posts, listing : Listings \union {0}]]
             /\ desk'[o].at = label /\ desk'[o].listing = l
             /\ \A p \in Officers \ {o} : desk'[p] = desk[p]
  BY <1>s, DesksAreKept
<1>1. ASSUME NEW to \in ComplianceStates, TransitionComplianceState(o, to)
      PROVE  OfficeTypes' /\ OfficeOK' /\ UNCHANGED requestVars
  <2> USE <1>1 DEF TransitionComplianceState, Act
  <2>1. CASE Sits(o, "autolist", 0)
    BY <1>0, <1>n, <1>p, <1>s, <2>1 DEF OfficeTypes, OfficeOK, Live
  <2>2. CASE UNCHANGED desk
    BY <1>0, <1>n, <2>2 DEF OfficeTypes, OfficeOK, Live
  <2> QED
    BY <2>1, <2>2
<1>2. CASE AutoListForComplianceFail(o)
  <2> USE <1>2 DEF AutoListForComplianceFail, standingVars
  <2>1. CASE Sits(o, "free", 0) /\ ActiveListing # 0 /\ owed' = owed \union {"do_not_fund"}
    BY <1>0, <1>a, <1>n, <1>p, <1>s, <2>1 DEF OfficeTypes, OfficeOK, Live
  <2>2. CASE Sits(o, "autocreate", 0) /\ UNCHANGED owed
    BY <1>0, <1>n, <1>p, <1>s, <2>2 DEF OfficeTypes, OfficeOK, Live
  <2> QED
    BY <2>1, <2>2
<1>3. CASE CreateListing(o)
  <2> USE <1>3 DEF CreateListing
  <2>1. NextListing \in Listings
    BY NextListingIsFresh
  <2>2. /\ listing' = [listing EXCEPT ![NextListing] = "listed"]
        /\ owed' \subseteq owed \union {"do_not_fund"} /\ Sits(o, "free", 0)
    OBVIOUS
  <2>3. /\ listing' \in [Listings -> {"none", "listed", "removed"}]
        /\ listing'[NextListing] = "listed"
    BY <1>0, <2>1, <2>2 DEF OfficeTypes
  <2>4. (\E l \in Listings : Live(l))'
    BY <2>1, <2>3 DEF Live
  <2> QED
    BY <1>0, <1>p, <1>s, <2>2, <2>3, <2>4 DEF OfficeTypes, OfficeOK
<1>4. CASE BeginListing(o)
  BY <1>4, <1>0, <1>n, <1>p, <1>s
     DEF BeginListing, Act, OfficeTypes, OfficeOK, Live, standingVars
<1>5. ASSUME NEW label \in {"remove", "except"}, BeginDecision(o, label)
      PROVE  OfficeTypes' /\ OfficeOK' /\ UNCHANGED requestVars
  <2>1. /\ o \in Humans /\ ActiveListing \in Listings /\ Sits(o, label, ActiveListing)
        /\ acts' \in 0..MaxActs /\ UNCHANGED <<standingVars, requestVars, owed, deaths>>
    BY <1>5, <1>a, <1>n DEF BeginDecision, Act
  <2>2. /\ desk' \in [Officers -> [at : Posts, listing : Listings \union {0}]]
        /\ desk'[o].listing = ActiveListing
        /\ \A p \in Officers \ {o} : desk'[p] = desk[p]
    BY <1>p, <1>s, <2>1
  <2> QED
    BY <1>0, <2>1, <2>2 DEF OfficeTypes, OfficeOK, Live, standingVars
<1>6. CASE RemoveListing(o)
  <2> USE <1>6 DEF RemoveListing
  <2>1. o \in Humans /\ desk[o].listing \in Listings
    BY <1>0 DEF OfficeOK
  <2>2. listing' \in [Listings -> {"none", "listed", "removed"}]
    BY <1>0, <2>1 DEF OfficeTypes
  <2>3. owed' = owed \ {"do_not_fund"}
    BY <2>1
  <2>4. /\ desk' \in [Officers -> [at : Posts, listing : Listings \union {0}]]
        /\ desk'[o].at = "free"
        /\ \A p \in Officers \ {o} : desk'[p] = desk[p]
    BY <1>p, <1>s
  <2>5. OfficeTypes'
    BY <1>0, <2>2, <2>3, <2>4 DEF OfficeTypes
  <2>6. OfficeOK'
    BY <1>0, <2>3, <2>4 DEF OfficeOK
  <2> QED
    BY <2>5, <2>6
<1>7. CASE GrantOverride(o)
  <2> USE <1>7 DEF GrantOverride
  <2>1. desk[o].listing \in Listings
    BY <1>0 DEF OfficeOK
  <2>2. override' \in [Overrides -> Listings \union {0}]
    BY <1>0, <2>1 DEF OfficeTypes
  <2> QED
    BY <1>0, <1>p, <1>s, <2>2 DEF OfficeTypes, OfficeOK, Live
<1>8. CASE TriggerFirewall(o) \/ ClearFirewall(o)
  <2>1. /\ acts' \in 0..MaxActs
        /\ \/ firewall' = "triggered" /\ owed' = owed \union {"firewall"}
           \/ firewall' = "clear" /\ owed' = owed \ {"firewall"}
        /\ UNCHANGED <<compliance, listing, override, breach, consents, activated,
                       contactable, requestVars, desk, deaths>>
    BY <1>8, <1>n DEF TriggerFirewall, ClearFirewall, Act
  <2>2. OfficeTypes'
    BY <1>0, <2>1 DEF OfficeTypes
  <2>3. OfficeOK'
    BY <1>0, <2>1 DEF OfficeOK, Live
  <2> QED
    BY <2>1, <2>2, <2>3
<1>9. ASSUME NEW b \in Breaches, DetectBreach(o, b) \/ ReviewBreach(o, b) \/ ResolveBreach(o, b)
      PROVE  OfficeTypes' /\ OfficeOK' /\ UNCHANGED requestVars
  <2>1. /\ acts' \in 0..MaxActs
        /\ \E to \in {"open", "resolved"} : breach' = [breach EXCEPT ![b] = to]
        /\ UNCHANGED <<compliance, firewall, listing, override, consents, activated,
                       contactable, requestVars, desk, owed, deaths>>
    BY <1>9, <1>n DEF DetectBreach, ReviewBreach, ResolveBreach, SetBreach, Act
  <2>2. OfficeTypes'
    BY <1>0, <2>1 DEF OfficeTypes
  <2>3. OfficeOK'
    BY <1>0, <2>1 DEF OfficeOK, Live
  <2> QED
    BY <2>1, <2>2, <2>3
<1>10. CASE OfficerDies(o)
  BY <1>10, <1>0, <1>n, <1>p, <1>s DEF OfficerDies, OfficeTypes, OfficeOK, Live, standingVars
<1> QED
  BY <1>1, <1>2, <1>3, <1>4, <1>5, <1>6, <1>7, <1>8, <1>9, <1>10 DEF OfficerStep

\* The determinations that change by themselves, or by the client's doing.
LEMMA OthersKeep ==
    ASSUME GateInv,
           \/ \E b \in Breaches : ReviewLapses(b)
           \/ \E c \in Consents : GrantConsent(c) \/ RevokeConsent(c)
           \/ ChangeActivation \/ ChangePreferences
    PROVE  OfficeTypes' /\ OfficeOK' /\ UNCHANGED requestVars
<1>0. OfficeTypes /\ OfficeOK
  BY DEF GateInv, GateTypeOK, OfficeTypes, Posts
<1>n. acts < MaxActs /\ acts' = acts + 1 => acts' \in 0..MaxActs
  BY <1>0, GateAssumption DEF OfficeTypes
<1>1. ASSUME NEW b \in Breaches, ReviewLapses(b)
      PROVE  OfficeTypes' /\ OfficeOK' /\ UNCHANGED requestVars
  BY <1>1, <1>0 DEF ReviewLapses, SetBreach, OfficeTypes, OfficeOK, Live
<1>2. ASSUME NEW c \in Consents, GrantConsent(c) \/ RevokeConsent(c)
      PROVE  OfficeTypes' /\ OfficeOK' /\ UNCHANGED requestVars
  <2>1. /\ acts' \in 0..MaxActs /\ consents' \subseteq consents \union {c}
        /\ UNCHANGED <<compliance, firewall, listing, override, breach, activated,
                       contactable, requestVars, desk, owed, deaths>>
    BY <1>2, <1>n DEF GrantConsent, RevokeConsent
  <2>2. OfficeTypes'
    BY <1>0, <2>1 DEF OfficeTypes
  <2>3. OfficeOK'
    BY <1>0, <2>1 DEF OfficeOK, Live
  <2> QED
    BY <2>1, <2>2, <2>3
<1>3. CASE ChangeActivation \/ ChangePreferences
  <2>1. acts' \in 0..MaxActs
    BY <1>3, <1>n DEF ChangeActivation, ChangePreferences
  <2>2. activated' \in BOOLEAN /\ contactable' \in BOOLEAN
    BY <1>3, <1>0 DEF ChangeActivation, ChangePreferences, OfficeTypes
  <2>3. UNCHANGED <<compliance, firewall, listing, override, breach, consents,
                    requestVars, desk, owed, deaths>>
    BY <1>3 DEF ChangeActivation, ChangePreferences
  <2>4. OfficeTypes'
    BY <1>0, <2>1, <2>2, <2>3 DEF OfficeTypes
  <2>5. OfficeOK'
    BY <1>0, <2>3 DEF OfficeOK, Live
  <2> QED
    BY <2>3, <2>4, <2>5
<1> QED
  BY <1>1, <1>2, <1>3

\* ... and, as they leave the requests alone, the invariant.
LEMMA RowsKeepInv ==
    ASSUME GateInv, Observe, OfficeTypes', OfficeOK', UNCHANGED requestVars
    PROVE  GateInv'
<1>1. UNCHANGED <<kind, at, locals, log, message, reason>>
  BY DEF requestVars
<1>2. RequestTypes'
  BY <1>1, StoodIsTyped DEF GateInv, RequestTypes
<1>3. GateTypeOK'
  BY <1>1, StoodIsTyped DEF GateInv, GateTypeOK, OfficeTypes, Posts
<1>4. ASSUME NEW q \in Requests PROVE RequestOK(q)' /\ InForce(q)'
  BY <1>1, OthersStay
<1> QED
  BY <1>2, <1>3, <1>4 DEF GateInv

-----------------------------------------------------------------------------
(***************************************************************************)
(* The invariant, and what it shows.                                       *)
(***************************************************************************)
LEMMA GateInitInv == GateInit => GateInv
<1> SUFFICES ASSUME GateInit PROVE GateInv
  OBVIOUS
<1> USE DEF GateInit
<1>1. GateTypeOK
  BY GateAssumption DEF GateTypeOK, ComplianceStates, NewLocals, AtDesk
<1>2. RequestTypes
  BY DEF RequestTypes, Labels, Reasons
<1>3. OfficeOK
  BY DEF OfficeOK, AtDesk
<1>4. ASSUME NEW r \in Requests PROVE RequestOK(r) /\ InForce(r)
  <2>1. PastItsChecks(r) /\ ReadsAgree(r) /\ LeadsWithTheWorst(r) /\ InForce(r)
    BY DEF PastItsChecks, ReadsAgree, LeadsWithTheWorst, InForce
  <2>2. KeepsToItsKind(r)
    BY DEF KeepsToItsKind, Logged
  <2> QED
    BY <2>1, <2>2 DEF RequestOK
<1> QED
  BY <1>1, <1>2, <1>3, <1>4 DEF GateInv

LEMMA GateNextInv == GateInv /\ [GateNext]_gateVars => GateInv'
<1> SUFFICES ASSUME GateInv, [GateNext]_gateVars PROVE GateInv'
  OBVIOUS
<1>1. CASE UNCHANGED gateVars
  <2>1. UNCHANGED <<standingVars, requestVars, stood, officeVars, deaths>>
    BY <1>1 DEF gateVars
  <2>2. GateTypeOK' /\ RequestTypes' /\ OfficeOK'
    BY <2>1 DEF GateInv, GateTypeOK, RequestTypes, OfficeOK, Live, standingVars,
       requestVars, officeVars
  <2>3. ASSUME NEW r \in Requests PROVE RequestOK(r)' /\ InForce(r)'
    <3>1. RequestOK(r) /\ InForce(r) /\ UNCHANGED <<kind, at, locals, log, message, reason>>
      BY <2>1 DEF GateInv, requestVars
    <3>2. BlocksFor(kind[r])' = BlocksFor(kind[r])
      BY <2>1, <3>1, BlocksStay
    <3>3. InForce(r)'
      BY <2>1, <3>1, <3>2 DEF InForce
    <3>4. PastItsChecks(r)' /\ ReadsAgree(r)' /\ LeadsWithTheWorst(r)'
      BY <2>1, <3>1 DEF RequestOK, PastItsChecks, ReadsAgree, LeadsWithTheWorst
    <3>5. KeepsToItsKind(r)'
      BY <2>1, <3>1 DEF RequestOK, KeepsToItsKind, IsPlacement, Logged
    <3> QED
      BY <3>3, <3>4, <3>5 DEF RequestOK
  <2> QED
    BY <2>2, <2>3 DEF GateInv
<1>2. CASE GateNext
  <2>0. Observe
    BY <1>2 DEF GateNext
  <2>1. ASSUME NEW r \in Requests, ChainStep(r) \/ RequestDies(r) PROVE GateInv'
    BY <2>0, <2>1, ChainKeepsInv
  <2>2. ASSUME NEW o \in Officers, OfficerStep(o) \/ OfficerDies(o) PROVE GateInv'
    BY <2>0, <2>2, OfficersKeep, RowsKeepInv
  <2>3. CASE \/ \E b \in Breaches : ReviewLapses(b)
             \/ \E c \in Consents : GrantConsent(c) \/ RevokeConsent(c)
             \/ ChangeActivation \/ ChangePreferences
    BY <2>0, <2>3, OthersKeep, RowsKeepInv
  <2> QED
    BY <1>2, <2>1, <2>2, <2>3 DEF GateNext
<1> QED
  BY <1>1, <1>2

LEMMA GateHoldsInv == GateSafetySpec => []GateInv
BY GateInitInv, GateNextInv, PTL DEF GateSafetySpec

LEMMA GateInvImplies ==
    GateInv => BlocksAreInForce /\ StandingBlockStops /\ RefusalLeadsWithTheWorst
<1> SUFFICES ASSUME GateInv
             PROVE  BlocksAreInForce /\ StandingBlockStops /\ RefusalLeadsWithTheWorst
  OBVIOUS
<1>1. BlocksAreInForce
  BY ActiveListingIsLive DEF GateInv, OfficeOK, BlocksAreInForce, AutomaticInHumanOut
<1>2. StandingBlockStops
  BY DEF GateInv, RequestOK, KeepsToItsKind, StandingBlockStops
<1>3. ASSUME NEW r \in Requests, reason[r] \in DOMAIN Outranking, NEW b \in stood[r]
      PROVE  b.what \notin Outranking[reason[r]]
  <2>1. MayLead(reason[r], b.what)
    BY DEF GateInv, RequestOK, LeadsWithTheWorst
  <2>2. reason[r] \in {"conduct", "firewall", "compliance", "regulatory", "consent"}
    BY <1>3 DEF Outranking
  <2>3. CASE reason[r] = "conduct"
    BY <2>1, <2>3 DEF Outranking, MayLead
  <2>4. CASE reason[r] = "firewall"
    BY <2>1, <2>4 DEF Outranking, MayLead
  <2>5. CASE reason[r] = "compliance"
    BY <2>1, <2>5 DEF Outranking, MayLead
  <2>6. CASE reason[r] = "regulatory"
    BY <2>1, <2>6 DEF Outranking, MayLead
  <2>7. CASE reason[r] = "consent"
    BY <2>1, <2>7 DEF Outranking, MayLead
  <2> QED
    BY <2>2, <2>3, <2>4, <2>5, <2>6, <2>7
<1> QED
  BY <1>1, <1>2, <1>3 DEF RefusalLeadsWithTheWorst

\* The rows that block stay well formed, and a client who failed stays listed,
\* and a triggered Firewall triggered, until a human lifts it, however many
\* officers act at once and whoever dies between two statements.
THEOREM BlocksStayInForce == GateSafetySpec => []BlocksAreInForce
BY GateHoldsInv, GateInvImplies, PTL

\* No placement is recommended, and no message approved, past a block that
\* stood from the request's first step to its last, for any interleaving of
\* the chain's reads with the officers' writes.
THEOREM NothingGetsThrough == GateSafetySpec => []StandingBlockStops
BY GateHoldsInv, GateInvImplies, PTL

\* The block a refusal names is outranked by none that stood throughout.
THEOREM TheWorstLeads == GateSafetySpec => []RefusalLeadsWithTheWorst
BY GateHoldsInv, GateInvImplies, PTL
=============================================================================
