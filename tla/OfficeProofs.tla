----------------------------- MODULE OfficeProofs -----------------------------
(***************************************************************************)
(* Proofs about what is kept, judged, written and reported for clients,    *)
(* and about the two HTTP servers in front, for any clerks, holds,         *)
(* providers, editions, sentences, phrases and requests.                   *)
(*                                                                         *)
(* As in MoneyProofs, each desk has an invariant in two parts: what its    *)
(* rows say of each other, and what a request under way read that is still *)
(* so when it writes.                                                      *)
(***************************************************************************)
EXTENDS MCOffice, FiniteSetTheorems, TLAPS

-----------------------------------------------------------------------------
(***************************************************************************)
(* Requests.                                                               *)
(***************************************************************************)
RequestsOK == request = [c \in Clerks |-> request[c]]

\* c's request becomes next, and nobody else's changes; no day passes.
Turns(c, next) == /\ RequestsOK' /\ today' = today
                  /\ \A d \in Clerks : request'[d] = IF d = c THEN next ELSE request[d]

LEMMA RequestTurns ==
    ASSUME RequestsOK, NEW c \in Clerks, NEW next,
           request' = [request EXCEPT ![c] = next], today' = today
    PROVE  Turns(c, next)
<1> DEFINE after == [d \in Clerks |-> IF d = c THEN next ELSE request[d]]
<1>1. request' = after
  BY DEF RequestsOK
<1>2. after = [d \in Clerks |-> after[d]]
  OBVIOUS
<1> QED
  BY <1>1, <1>2 DEF Turns, RequestsOK

LEMMA DeskTurns ==
    ASSUME RequestsOK, NEW c \in Clerks
    PROVE  /\ \A next : Begins(c, next) => Turns(c, next) /\ Doing(c, "none")
           /\ \A next : GoesOn(c, next) => Turns(c, next)
           /\ Finishes(c) => Turns(c, AtRest)
           /\ ClerkDies(c) => Turns(c, AtRest) /\ ~Doing(c, "none")
BY RequestTurns DEF Begins, GoesOn, Finishes, ClerkDies

LEMMA RequestsStay ==
    ASSUME RequestsOK, request' = request
    PROVE  RequestsOK'
BY DEF RequestsOK

\* A day passes and no request changes.
LEMMA DayIsCounted ==
    ASSUME RequestsOK, today \in Nat, DayPasses
    PROVE  RequestsOK' /\ request' = request /\ today' \in Nat /\ today' >= today
BY RequestsStay DEF DayPasses

LEMMA ClerksCounted ==
    /\ IsFiniteSet(Clerks) /\ Cardinality(Clerks) \in Nat
    /\ \A S : S \subseteq Clerks => IsFiniteSet(S) /\ Cardinality(S) \in Nat
                                    /\ Cardinality(S) <= Cardinality(Clerks)
<1>1. IsFiniteSet(Clerks)
  BY DeskAssumption
<1>2. ASSUME NEW S, S \subseteq Clerks
      PROVE  IsFiniteSet(S) /\ Cardinality(S) <= Cardinality(Clerks)
  BY <1>1, <1>2, FS_Subset
<1> QED
  BY <1>1, <1>2, FS_CardinalityType

-----------------------------------------------------------------------------
(***************************************************************************)
(* The portal.  What a browser can come to hold is bounded by what it held *)
(* first, case by case.                                                    *)
(***************************************************************************)
Accounts == [authenticator : BOOLEAN, keys : 0..(PASSKEYS_REQUIRED + 1), passwordOff : BOOLEAN,
             passwordRemoved : BOOLEAN]

OneFactors == {{"password"}, {"mailbox"}, {"password", "mailbox"}, {"code"}}

\* Before a reset the session and the mailbox, after it no session.
BeforeReset == holds \subseteq {"session", "mailbox", "link"}
AfterReset  == holds \subseteq {"mailbox", "link", "password", "challenge"}

PortalRowsOK ==
    /\ holds \subseteq Cookies \union Proofs /\ account \in Accounts
    /\ first.holds = {"session"} => holds \subseteq {"session", "secret"}
    /\ first.authenticator /\ first.holds \in OneFactors =>
          /\ account.authenticator
          /\ holds \subseteq {"code"} \/ holds \subseteq {"password", "mailbox", "challenge", "link"}
    /\ first.authenticator /\ first.holds = {"session", "mailbox"} =>
          account.authenticator /\ (BeforeReset \/ AfterReset)

LEMMA PortalInitOK ==
    ASSUME PortalInit
    PROVE  PortalRowsOK
<1>1. /\ holds \subseteq {"session", "password", "code", "mailbox", "passkey"}
      /\ first = [holds |-> holds, authenticator |-> account.authenticator]
  BY DEF PortalInit
<1>2. account \in Accounts
  BY DEF PortalInit, Accounts, PASSKEYS_REQUIRED
<1>3. first.holds = holds /\ first.authenticator = account.authenticator
  BY <1>1
<1> QED
  BY <1>1, <1>2, <1>3 DEF PortalRowsOK, OneFactors, BeforeReset, Cookies, Proofs

LEMMA PortalStep ==
    ASSUME PortalRowsOK, PortalNext
    PROVE  PortalRowsOK'
<1> USE DEF PortalRowsOK, BeforeReset, AfterReset, OneFactors, Cookies, Proofs, Gains, SwapFor,
            AccountStays, HasActiveFactor, CodeIsTaken, ByPassword, Confirmed, ConfirmedTwice
<1>1. CASE SignIn /\ first' = first
  BY <1>1 DEF SignIn
<1>2. CASE SignInMfa /\ first' = first
  BY <1>2 DEF SignInMfa
<1>3. CASE SignInKey /\ first' = first
  BY <1>3 DEF SignInKey
<1>4. CASE SignInPasskey /\ first' = first
  BY <1>4 DEF SignInPasskey
<1>5. CASE PasswordReset /\ first' = first
  BY <1>5 DEF PasswordReset
<1>6. CASE PasswordResetComplete /\ first' = first
  BY <1>6 DEF PasswordResetComplete
<1>7. CASE SignOut /\ first' = first
  BY <1>7 DEF SignOut
<1>8. CASE MfaEnrol /\ first' = first
  BY <1>8 DEF MfaEnrol
<1>9. CASE MfaEnrolConfirm /\ first' = first
  BY <1>9 DEF MfaEnrolConfirm, Accounts, PASSKEYS_REQUIRED
<1>10. CASE MfaRemove /\ first' = first
  BY <1>10 DEF MfaRemove, Accounts, PASSKEYS_REQUIRED
<1>11. CASE Password /\ first' = first
  BY <1>11 DEF Password
<1>12. CASE Email /\ first' = first
  BY <1>12 DEF Email
<1>13. CASE EmailConfirm /\ first' = first
  BY <1>13 DEF EmailConfirm
<1>14. CASE Keys /\ first' = first
  BY <1>14 DEF Keys, Accounts, PASSKEYS_REQUIRED
<1>15. CASE RecoveryCodes /\ first' = first
  BY <1>15 DEF RecoveryCodes
<1>16. CASE PasswordSignInDisable /\ first' = first
  BY <1>16 DEF PasswordSignInDisable, Accounts, PASSKEYS_REQUIRED
<1>17. CASE RemovePassword /\ first' = first
  BY <1>17 DEF RemovePassword, Accounts, PASSKEYS_REQUIRED
<1> QED
  BY <1>1, <1>2, <1>3, <1>4, <1>5, <1>6, <1>7, <1>8, <1>9, <1>10, <1>11, <1>12, <1>13, <1>14, <1>15, <1>16, <1>17
     DEF PortalNext

LEMMA ProofsStayApart ==
    ASSUME PortalRowsOK
    PROVE  PortalTypeOK /\ ProofsDoNotAddUp
<1>1. PortalTypeOK
  BY DEF PortalRowsOK, PortalTypeOK, Accounts
<1>2. SessionIsNoCredential
  BY DEF PortalRowsOK, SessionIsNoCredential
<1>3. OneFactorOpensNothing
  BY DEF PortalRowsOK, OneFactorOpensNothing, OneFactors
<1>4. ResetDoesNotAddUp
  BY DEF PortalRowsOK, ResetDoesNotAddUp, BeforeReset, AfterReset
<1> QED
  BY <1>1, <1>2, <1>3, <1>4 DEF ProofsDoNotAddUp

-----------------------------------------------------------------------------
(***************************************************************************)
(* A funding attempt.  Billing is told first, so the row of billing that a *)
(* decision is about to name is dated as the decision will be; and an      *)
(* outcome, once written, is on its way to the lender database.            *)
(***************************************************************************)
Decisions == {"approved", "declined", "withdrawn"}
Attempts == [outcome : {"none", "pending"} \union Decisions, decided : SUBSET Nat,
             bill : SUBSET Bills, funded : SUBSET Nat, asked : BOOLEAN]
BillRows == [approved : SUBSET Nat, funded : SUBSET Nat, charged : BOOLEAN]

SomeFunded == \E b \in Bills : bill[b].funded # {}
InTheFeed(outcome) == \E c \in Clerks : Doing(c, "feed") /\ request[c].outcome = outcome

OutcomesRowsOK ==
    /\ attempt \in Attempts /\ bill \in [Bills -> BillRows]
    /\ learned \subseteq Decisions /\ cutShort \in BOOLEAN
    /\ attempt.outcome \in {"none", "pending"} <=> attempt.decided = {}
    /\ BillingIsToldFirst

\* What is so at the desk that is followed.
OutcomesDeskOK ==
    /\ \A b \in Bills : bill[b].approved \union bill[b].funded \subseteq 0..today
    /\ attempt.decided # {} => attempt.outcome \in learned \/ cutShort \/ InTheFeed(attempt.outcome)

Marks == [op : {"mark", "fund"}, day : Nat, bill : SUBSET Bills]

OutcomesRequestOK(r) ==
    /\ r.op \in {"bill", "approve", "decline", "mark", "fund"} => r.day \in 0..today
    /\ r.op = "approve" => r.bill \in Bills /\ bill[r.bill].approved = {r.day}
    /\ r.op = "decline" => r.outcome \in {"declined", "withdrawn"}
    /\ r.op = "feed" => r.outcome \in Decisions
    /\ r.op \in {"mark", "fund"} => r \in Marks
    /\ r.op = "mark" => r.bill # {}
    /\ r.op = "fund" => SomeFunded

OutcomesRequestsOK == \A c \in Clerks : OutcomesRequestOK(request[c])

\* What no step undoes.
OutcomesSettle ==
    /\ \A b \in Bills : bill[b].approved # {} => bill'[b].approved = bill[b].approved
    /\ \A b \in Bills : bill[b].funded # {} => bill'[b].funded # {}

LEMMA OutcomesInitOK ==
    ASSUME OutcomesInit, request = [c \in Clerks |-> AtRest], today = 0
    PROVE  OutcomesRowsOK /\ OutcomesDeskOK /\ OutcomesRequestsOK
BY DEF OutcomesInit, OutcomesRowsOK, OutcomesDeskOK, OutcomesRequestsOK, OutcomesRequestOK,
       AtRest, Attempts, BillRows, NoBill, Decisions, BillingIsToldFirst

LEMMA OutcomesTypes ==
    ASSUME OutcomesRowsOK, OutcomesDeskOK
    PROVE  OutcomesTypeOK
BY DEF OutcomesRowsOK, OutcomesDeskOK, OutcomesTypeOK, Attempts, Decisions

LEMMA DecisionsAreKnown ==
    ASSUME OutcomesRowsOK
    PROVE  BillingIsToldFirst /\ UnfundedIsRefundable
<1>1. SUFFICES ASSUME ApprovedAndUnfunded
               PROVE  \E b \in attempt.bill :
                         b \in RefundsDueOn \/ ~bill[b].charged \/ bill[b].funded # {}
  BY DEF UnfundedIsRefundable, OutcomesRowsOK
<1>2. PICK b \in attempt.bill : bill[b].approved = attempt.decided
  BY <1>1 DEF OutcomesRowsOK, BillingIsToldFirst, ApprovedAndUnfunded
<1>3. b \in Bills
  BY <1>2 DEF OutcomesRowsOK, Attempts
<1> QED
  BY <1>1, <1>2, <1>3 DEF ApprovedAndUnfunded, RefundsDueOn

LEMMA OutcomesRequestsKept ==
    ASSUME NEW c \in Clerks, NEW next, Turns(c, next), OutcomesRequestsOK,
           OutcomesRequestOK(next)', OutcomesSettle, OutcomesRowsOK
    PROVE  OutcomesRequestsOK'
<1>1. SomeFunded => SomeFunded'
  BY DEF SomeFunded, OutcomesSettle
<1>2. ASSUME NEW d \in Clerks PROVE OutcomesRequestOK(request[d])'
  <2>1. CASE d = c
    BY <2>1, Zenon DEF Turns, OutcomesRequestOK
  <2>2. CASE d # c
    <3>1. request'[d] = request[d] /\ today' = today /\ OutcomesRequestOK(request[d])
      BY <2>2 DEF Turns, OutcomesRequestsOK
    <3> QED
      BY <1>1, <3>1 DEF OutcomesRequestOK, OutcomesSettle
  <2> QED
    BY <2>1, <2>2
<1> QED
  BY <1>2 DEF OutcomesRequestsOK

\* c's own feed aside, what is on its way to the lender database still is.
LEMMA FeedsGoOn ==
    ASSUME NEW c \in Clerks, NEW next, Turns(c, next), ~Doing(c, "feed"), NEW outcome
    PROVE  InTheFeed(outcome) => InTheFeed(outcome)'
BY DEF InTheFeed, Turns, Doing

LEMMA OutcomesStep ==
    ASSUME RequestsOK, today \in Nat, OutcomesRowsOK, OutcomesDeskOK, OutcomesRequestsOK,
           OutcomesNext
    PROVE  RequestsOK' /\ today' \in Nat /\ OutcomesRowsOK' /\ OutcomesDeskOK' /\ OutcomesRequestsOK'
<1> DEFINE Serves(c, next) == /\ Turns(c, next) /\ OutcomesRowsOK' /\ OutcomesDeskOK'
                              /\ OutcomesRequestOK(next)' /\ OutcomesSettle
<1>1. OutcomesRequestOK(AtRest)'
  BY DEF OutcomesRequestOK, AtRest
<1>2. ASSUME NEW c \in Clerks PROVE OutcomesRequestOK(request[c])
  BY DEF OutcomesRequestsOK
\* A request that only looks.
<1>3. ASSUME NEW c \in Clerks, NEW next, Turns(c, next), UNCHANGED outcomesRows,
             ~Doing(c, "feed"), OutcomesRequestOK(next)
      PROVE  Serves(c, next)
  <2>1. UNCHANGED <<attempt, bill, learned, cutShort>> /\ today' = today
    BY <1>3 DEF outcomesRows, Turns
  <2>2. OutcomesRowsOK' /\ OutcomesSettle
    BY <2>1 DEF OutcomesRowsOK, OutcomesSettle, BillingIsToldFirst
  <2>3. OutcomesDeskOK'
    BY <1>3, <2>1, FeedsGoOn DEF OutcomesDeskOK
  <2>4. OutcomesRequestOK(next)'
    BY <1>3, <2>1 DEF OutcomesRequestOK, SomeFunded
  <2> QED
    BY <1>3, <2>2, <2>3, <2>4
\* A decision: the attempt takes an outcome, and the request goes on to tell.
<1>4. ASSUME NEW c \in Clerks, NEW outcome \in Decisions, NEW row \in Attempts, NEW day \in 0..today,
             Feeds(c, outcome), ~Doing(c, "feed"), attempt' = row,
             UNCHANGED <<bill, learned, cutShort>>, row.outcome = outcome, row.decided = {day},
             row.funded = attempt.funded,
             outcome = "approved" => \E b \in row.bill : bill[b].approved = {day}
      PROVE  \E next : Serves(c, next)
  <2> DEFINE next == [op |-> "feed", outcome |-> outcome]
  <2>1. Turns(c, next)
    BY <1>4, DeskTurns DEF Feeds
  <2>2. OutcomesRequestOK(next)'
    BY DEF OutcomesRequestOK
  <2>3. InTheFeed(outcome)'
    BY <2>1 DEF InTheFeed, Doing, Turns
  <2>4. OutcomesRowsOK' /\ OutcomesSettle
    BY <1>4 DEF OutcomesRowsOK, OutcomesSettle, BillingIsToldFirst, Decisions
  <2>5. OutcomesDeskOK'
    BY <1>4, <2>1, <2>3 DEF OutcomesDeskOK, Turns
  <2> QED
    BY <2>1, <2>2, <2>4, <2>5
<1>5. ASSUME NEW c \in Clerks, SubmitAttempt(c) PROVE \E next : Serves(c, next)
  <2>1. /\ attempt.outcome = "none" /\ Turns(c, AtRest) /\ Doing(c, "none")
        /\ attempt' = [attempt EXCEPT !.outcome = "pending"] /\ UNCHANGED <<bill, learned, cutShort>>
    BY <1>5, DeskTurns DEF SubmitAttempt
  <2>2. /\ attempt' \in Attempts /\ attempt'.outcome = "pending" /\ attempt'.decided = {}
        /\ attempt'.funded = attempt.funded
    BY <2>1 DEF OutcomesRowsOK, Attempts
  <2>3. OutcomesRowsOK' /\ OutcomesSettle
    BY <2>1, <2>2 DEF OutcomesRowsOK, OutcomesSettle, BillingIsToldFirst
  <2>4. OutcomesDeskOK'
    BY <2>1, <2>2 DEF OutcomesDeskOK, Turns
  <2> QED
    BY <1>1, <2>1, <2>3, <2>4
<1>6. ASSUME NEW c \in Clerks, ApproveAttempt(c) PROVE \E next : Serves(c, next)
  <2>1. CASE /\ attempt.outcome = "pending" /\ UNCHANGED outcomesRows
             /\ \E day \in 0..today : Begins(c, [op |-> "bill", day |-> day])
    <3>1. PICK day \in 0..today : Begins(c, [op |-> "bill", day |-> day])
      BY <2>1
    <3>2. OutcomesRequestOK([op |-> "bill", day |-> day])
      BY DEF OutcomesRequestOK
    <3> QED
      BY <1>3, <2>1, <3>1, <3>2, DeskTurns DEF Doing
  <2>2. CASE /\ Doing(c, "bill")
             /\ \E b \in Free :
                  /\ bill' = [bill EXCEPT ![b].approved = {request[c].day}]
                  /\ GoesOn(c, [op |-> "approve", day |-> request[c].day, bill |-> b])
             /\ UNCHANGED <<attempt, learned, cutShort>>
    <3>1. PICK b \in Free : /\ bill' = [bill EXCEPT ![b].approved = {request[c].day}]
                            /\ GoesOn(c, [op |-> "approve", day |-> request[c].day, bill |-> b])
      BY <2>2
    <3>2. PICK day : day = request[c].day
      OBVIOUS
    <3>3. PICK next : next = [op |-> "approve", day |-> day, bill |-> b]
      OBVIOUS
    <3>4. next.op = "approve" /\ next.day = day /\ next.bill = b
      BY <3>3
    <3>5. day \in 0..today /\ b \in Bills /\ bill[b].approved = {} /\ bill[b].funded = {}
      BY <1>2, <2>2, <3>2 DEF OutcomesRequestOK, Doing, Free, NoBill
    <3>6. Turns(c, next)
      BY <3>1, <3>2, <3>3, DeskTurns
    <3>7. /\ bill' \in [Bills -> BillRows]
          /\ \A a \in Bills : /\ bill'[a].funded = bill[a].funded
                              /\ bill'[a].approved = IF a = b THEN {day} ELSE bill[a].approved
      <4>1. {day} \in SUBSET Nat
        BY <3>5
      <4> QED
        BY <3>1, <3>5, <3>2, <4>1 DEF OutcomesRowsOK, BillRows
    <3>8. BillingIsToldFirst'
      <4>1. attempt.outcome = "approved" => \E a \in attempt.bill : bill[a].approved = attempt.decided
                                                                  /\ a # b
        BY <2>2, <3>5 DEF OutcomesRowsOK, BillingIsToldFirst
      <4> QED
        BY <2>2, <3>7, <4>1 DEF OutcomesRowsOK, BillingIsToldFirst, Attempts
    <3>9. OutcomesRowsOK' /\ OutcomesSettle
      BY <2>2, <3>5, <3>7, <3>8 DEF OutcomesRowsOK, OutcomesSettle
    <3>10. OutcomesDeskOK'
      <4>1. InTheFeed(attempt.outcome) => InTheFeed(attempt.outcome)'
        BY <2>2, <3>6, FeedsGoOn DEF Doing
      <4> QED
        BY <2>2, <3>5, <3>6, <3>7, <4>1 DEF OutcomesDeskOK, Turns
    <3>11. OutcomesRequestOK(next)'
      BY <3>4, <3>5, <3>6, <3>7 DEF OutcomesRequestOK, Turns
    <3> QED
      BY <3>6, <3>9, <3>10, <3>11
  <2>3. CASE /\ Doing(c, "approve") /\ Feeds(c, "approved")
             /\ attempt' = [attempt EXCEPT !.outcome = "approved", !.decided = {request[c].day},
                                           !.bill = {request[c].bill}]
             /\ UNCHANGED <<bill, learned, cutShort>>
    <3> DEFINE day == request[c].day
               b == request[c].bill
               row == [attempt EXCEPT !.outcome = "approved", !.decided = {day}, !.bill = {b}]
    <3>1. day \in 0..today /\ b \in Bills /\ bill[b].approved = {day}
      BY <1>2, <2>3 DEF OutcomesRequestOK, Doing
    <3> HIDE DEF day, b
    <3>2. /\ row \in Attempts /\ row.outcome = "approved" /\ row.decided = {day} /\ row.bill = {b}
          /\ row.funded = attempt.funded
      <4>1. {day} \in SUBSET Nat /\ {b} \in SUBSET Bills
        BY <3>1
      <4>2. PICK was \in Attempts : was = attempt
        BY DEF OutcomesRowsOK
      <4>3. PICK new : new = [was EXCEPT !.outcome = "approved", !.decided = {day}, !.bill = {b}]
        OBVIOUS
      <4>4. /\ new \in Attempts /\ new.outcome = "approved" /\ new.decided = {day}
            /\ new.bill = {b} /\ new.funded = was.funded
        BY <4>1, <4>2, <4>3 DEF Attempts, Decisions
      <4> QED
        BY <4>2, <4>3, <4>4
    <3>3. attempt' = row
      BY <2>3 DEF day, b
    <3> HIDE DEF row
    <3> QED
      BY <1>4, <2>3, <3>1, <3>2, <3>3 DEF Doing, Decisions
  <2> QED
    BY <1>6, <2>1, <2>2, <2>3 DEF ApproveAttempt
<1>7. ASSUME NEW c \in Clerks, DeclineAttempt(c) PROVE \E next : Serves(c, next)
  <2>1. CASE /\ attempt.outcome = "pending" /\ UNCHANGED outcomesRows
             /\ \E day \in 0..today, outcome \in {"declined", "withdrawn"} :
                   Begins(c, [op |-> "decline", day |-> day, outcome |-> outcome])
    <3>1. PICK day \in 0..today, outcome \in {"declined", "withdrawn"} :
                   Begins(c, [op |-> "decline", day |-> day, outcome |-> outcome])
      BY <2>1
    <3>2. OutcomesRequestOK([op |-> "decline", day |-> day, outcome |-> outcome])
      BY DEF OutcomesRequestOK
    <3> QED
      BY <1>3, <2>1, <3>1, <3>2, DeskTurns DEF Doing
  <2>2. CASE /\ Doing(c, "decline") /\ Feeds(c, request[c].outcome)
             /\ attempt' = [attempt EXCEPT !.outcome = request[c].outcome,
                                           !.decided = {request[c].day}]
             /\ UNCHANGED <<bill, learned, cutShort>>
    <3> DEFINE day == request[c].day
               outcome == request[c].outcome
               row == [attempt EXCEPT !.outcome = outcome, !.decided = {day}]
    <3>1. day \in 0..today /\ outcome \in Decisions /\ outcome # "approved"
      BY <1>2, <2>2 DEF OutcomesRequestOK, Doing, Decisions
    <3> HIDE DEF day, outcome
    <3>2. /\ row \in Attempts /\ row.outcome = outcome /\ row.decided = {day}
          /\ row.funded = attempt.funded
      <4>1. {day} \in SUBSET Nat
        BY <3>1
      <4>2. PICK was \in Attempts : was = attempt
        BY DEF OutcomesRowsOK
      <4>3. PICK new : new = [was EXCEPT !.outcome = outcome, !.decided = {day}]
        OBVIOUS
      <4>4. /\ new \in Attempts /\ new.outcome = outcome /\ new.decided = {day}
            /\ new.funded = was.funded
        BY <3>1, <4>1, <4>2, <4>3 DEF Attempts
      <4> QED
        BY <4>2, <4>3, <4>4
    <3>3. attempt' = row /\ Feeds(c, outcome)
      BY <2>2 DEF day, outcome
    <3> HIDE DEF row
    <3> QED
      BY <1>4, <2>2, <3>1, <3>2, <3>3 DEF Doing
  <2> QED
    BY <1>7, <2>1, <2>2 DEF DeclineAttempt
<1>8. ASSUME NEW c \in Clerks, FeedBack(c) PROVE \E next : Serves(c, next)
  <2> DEFINE outcome == request[c].outcome
  <2>1. /\ Doing(c, "feed") /\ learned' = learned \union {outcome} /\ Turns(c, AtRest)
        /\ UNCHANGED <<attempt, bill, cutShort>>
    BY <1>8, DeskTurns DEF FeedBack
  <2>2. outcome \in Decisions
    BY <1>2, <2>1 DEF OutcomesRequestOK, Doing
  <2>3. OutcomesRowsOK' /\ OutcomesSettle
    BY <2>1, <2>2 DEF OutcomesRowsOK, OutcomesSettle, BillingIsToldFirst
  <2>4. InTheFeed(attempt.outcome) => attempt.outcome = outcome \/ InTheFeed(attempt.outcome)'
    BY <2>1 DEF InTheFeed, Turns, Doing
  <2>5. OutcomesDeskOK'
    BY <2>1, <2>4 DEF OutcomesDeskOK, Turns
  <2> QED
    BY <1>1, <2>1, <2>3, <2>5
<1>9. ASSUME NEW c \in Clerks, MarkAttemptFunded(c) PROVE \E next : Serves(c, next)
  <2>1. CASE /\ attempt.outcome = "approved" /\ attempt.funded = {} /\ UNCHANGED outcomesRows
             /\ \E day \in 0..today :
                  /\ \A decided \in attempt.decided : decided <= day
                  /\ Begins(c, [op |-> "mark", day |-> day, bill |-> attempt.bill])
    <3>1. PICK day \in 0..today : Begins(c, [op |-> "mark", day |-> day, bill |-> attempt.bill])
      BY <2>1
    <3>2. attempt.bill # {} /\ attempt.bill \in SUBSET Bills
      BY <2>1 DEF OutcomesRowsOK, BillingIsToldFirst, Attempts
    <3>3. OutcomesRequestOK([op |-> "mark", day |-> day, bill |-> attempt.bill])
      BY <3>2 DEF OutcomesRequestOK, Marks
    <3> QED
      BY <1>3, <2>1, <3>1, <3>3, DeskTurns DEF Doing
  <2>2. CASE /\ Doing(c, "mark") /\ GoesOn(c, [request[c] EXCEPT !.op = "fund"])
             /\ bill' = [b \in Bills |-> IF b \in request[c].bill
                                   THEN [bill[b] EXCEPT !.funded = {request[c].day}] ELSE bill[b]]
             /\ UNCHANGED <<attempt, learned, cutShort>>
    <3>1. PICK was \in Marks : was = request[c]
      BY <1>2, <2>2 DEF OutcomesRequestOK, Doing
    <3>2. PICK next : next = [was EXCEPT !.op = "fund"]
      OBVIOUS
    <3>3. PICK day, bills : day = was.day /\ bills = was.bill
      OBVIOUS
    <3>4. /\ day \in 0..today /\ bills \in SUBSET Bills /\ bills # {}
          /\ next \in Marks /\ next.op = "fund" /\ next.day = day
      BY <1>2, <2>2, <3>1, <3>2, <3>3 DEF OutcomesRequestOK, Doing, Marks
    <3>5. Turns(c, next)
      BY <2>2, <3>1, <3>2, DeskTurns
    <3>6. /\ bill' \in [Bills -> BillRows]
          /\ \A b \in Bills : /\ bill'[b].approved = bill[b].approved
                              /\ bill'[b].funded = IF b \in bills THEN {day} ELSE bill[b].funded
      <4>1. {day} \in SUBSET Nat
        BY <3>4
      <4>2. bill' = [b \in Bills |-> IF b \in bills THEN [bill[b] EXCEPT !.funded = {day}]
                                     ELSE bill[b]]
        BY <2>2, <3>1, <3>3
      <4> QED
        BY <3>4, <4>1, <4>2 DEF OutcomesRowsOK, BillRows
    <3>7. SomeFunded'
      BY <3>4, <3>6 DEF SomeFunded
    <3>8. BillingIsToldFirst'
      BY <2>2, <3>4, <3>6, <3>7 DEF OutcomesRowsOK, BillingIsToldFirst, SomeFunded, Attempts
    <3>9. OutcomesSettle
      BY <3>6 DEF OutcomesSettle
    <3>10. OutcomesRowsOK' /\ OutcomesSettle
      BY <2>2, <3>6, <3>8, <3>9 DEF OutcomesRowsOK
    <3>11. OutcomesDeskOK'
      <4>1. InTheFeed(attempt.outcome) => InTheFeed(attempt.outcome)'
        BY <2>2, <3>5, FeedsGoOn DEF Doing
      <4> QED
        BY <2>2, <3>4, <3>5, <3>6, <4>1 DEF OutcomesDeskOK, Turns
    <3>12. OutcomesRequestOK(next)'
      BY <3>4, <3>5, <3>7 DEF OutcomesRequestOK, Turns
    <3> QED
      BY <3>5, <3>10, <3>11, <3>12
  <2>3. CASE /\ Doing(c, "fund") /\ Finishes(c)
             /\ attempt' = [attempt EXCEPT !.funded = {request[c].day}]
             /\ UNCHANGED <<bill, learned, cutShort>>
    <3> DEFINE day == request[c].day
    <3>1. day \in 0..today /\ SomeFunded
      BY <1>2, <2>3 DEF OutcomesRequestOK, Doing
    <3>2. Turns(c, AtRest)
      BY <2>3, DeskTurns
    <3> HIDE DEF day
    <3>3. /\ attempt' \in Attempts /\ attempt'.outcome = attempt.outcome
          /\ attempt'.decided = attempt.decided /\ attempt'.bill = attempt.bill
      BY <2>3, <3>1 DEF OutcomesRowsOK, Attempts, day
    <3>4. OutcomesRowsOK' /\ OutcomesSettle
      BY <2>3, <3>1, <3>3 DEF OutcomesRowsOK, OutcomesSettle, BillingIsToldFirst, SomeFunded
    <3>5. OutcomesDeskOK'
      <4>1. InTheFeed(attempt.outcome) => InTheFeed(attempt.outcome)'
        BY <2>3, <3>2, FeedsGoOn DEF Doing
      <4> QED
        BY <2>3, <3>2, <3>3, <4>1 DEF OutcomesDeskOK, Turns
    <3> QED
      BY <1>1, <3>2, <3>4, <3>5
  <2> QED
    BY <1>9, <2>1, <2>2, <2>3 DEF MarkAttemptFunded
<1>10. ASSUME NEW c \in Clerks, RecordSatisfaction(c) PROVE \E next : Serves(c, next)
  <2>1. /\ Turns(c, AtRest) /\ Doing(c, "none")
        /\ attempt' = [attempt EXCEPT !.asked = TRUE] /\ UNCHANGED <<bill, learned, cutShort>>
    BY <1>10, DeskTurns DEF RecordSatisfaction
  <2>2. /\ attempt' \in Attempts /\ attempt'.outcome = attempt.outcome
        /\ attempt'.decided = attempt.decided /\ attempt'.bill = attempt.bill
        /\ attempt'.funded = attempt.funded
    BY <2>1 DEF OutcomesRowsOK, Attempts
  <2>3. OutcomesRowsOK' /\ OutcomesSettle
    BY <2>1, <2>2 DEF OutcomesRowsOK, OutcomesSettle, BillingIsToldFirst
  <2>4. OutcomesDeskOK'
    <3>1. InTheFeed(attempt.outcome) => InTheFeed(attempt.outcome)'
      BY <2>1, FeedsGoOn DEF Doing
    <3> QED
      BY <2>1, <2>2, <3>1 DEF OutcomesDeskOK, Turns
  <2> QED
    BY <1>1, <2>1, <2>3, <2>4
<1>fee. ASSUME NEW c \in Clerks, ChargeSuccessFee(c) PROVE \E next : Serves(c, next)
  <2>1. PICK b \in Bills : /\ Turns(c, AtRest) /\ Doing(c, "none")
                           /\ bill' = [bill EXCEPT ![b].charged = TRUE]
                           /\ UNCHANGED <<attempt, learned, cutShort>>
    BY <1>fee, DeskTurns DEF ChargeSuccessFee
  <2>2. PICK was \in BillRows : was = bill[b]
    BY DEF OutcomesRowsOK
  <2>3. PICK row : row = [was EXCEPT !.charged = TRUE]
    OBVIOUS
  <2>4. row \in BillRows /\ row.approved = was.approved /\ row.funded = was.funded
    BY <2>3 DEF BillRows
  <2>5. /\ bill' \in [Bills -> BillRows]
        /\ \A a \in Bills : bill'[a].approved = bill[a].approved /\ bill'[a].funded = bill[a].funded
    <3>1. bill' = [bill EXCEPT ![b] = row]
      BY <2>1, <2>2, <2>3
    <3> QED
      BY <2>2, <2>4, <3>1 DEF OutcomesRowsOK
  <2>6. OutcomesRowsOK' /\ OutcomesSettle
    BY <2>1, <2>5 DEF OutcomesRowsOK, OutcomesSettle, BillingIsToldFirst, Attempts
  <2>7. OutcomesDeskOK'
    <3>1. InTheFeed(attempt.outcome) => InTheFeed(attempt.outcome)'
      BY <2>1, FeedsGoOn DEF Doing
    <3> QED
      BY <2>1, <2>5, <3>1 DEF OutcomesDeskOK, Turns
  <2> QED
    BY <1>1, <2>1, <2>6, <2>7
<1>11. ASSUME NEW c \in Clerks, DeciderDies(c) PROVE \E next : Serves(c, next)
  <2>1. /\ Turns(c, AtRest) /\ cutShort' = (cutShort \/ Doing(c, "feed"))
        /\ UNCHANGED <<attempt, bill, learned>>
    BY <1>11, DeskTurns DEF DeciderDies
  <2>2. OutcomesRowsOK' /\ OutcomesSettle
    <3>1. cutShort' \in BOOLEAN
      BY <2>1, Zenon
    <3> QED
      BY <2>1, <3>1 DEF OutcomesRowsOK, OutcomesSettle, BillingIsToldFirst
  <2>3. OutcomesDeskOK'
    <3>1. CASE Doing(c, "feed")
      BY <2>1, <3>1 DEF OutcomesDeskOK, Turns
    <3>2. CASE ~Doing(c, "feed")
      BY <2>1, <3>2, FeedsGoOn DEF OutcomesDeskOK, Turns
    <3> QED
      BY <3>1, <3>2
  <2> QED
    BY <1>1, <2>1, <2>2, <2>3
<1>12. CASE DayPasses /\ UNCHANGED outcomesRows
  <2>1. /\ RequestsOK' /\ request' = request /\ today' \in Nat /\ today' >= today
        /\ UNCHANGED <<attempt, bill, learned, cutShort>>
    BY <1>12, DayIsCounted DEF outcomesRows
  <2>2. 0..today \subseteq 0..today'
    BY <2>1
  <2>3. OutcomesRowsOK'
    BY <2>1 DEF OutcomesRowsOK, BillingIsToldFirst
  <2>4. OutcomesDeskOK'
    BY <2>1, <2>2 DEF OutcomesDeskOK, InTheFeed, Doing
  <2>5. OutcomesRequestsOK'
    BY <2>1, <2>2 DEF OutcomesRequestsOK, OutcomesRequestOK, SomeFunded
  <2> QED
    BY <2>1, <2>3, <2>4, <2>5
<1>13. CASE ~(DayPasses /\ UNCHANGED outcomesRows)
  <2>1. PICK c, next : c \in Clerks /\ Serves(c, next)
    BY <1>5, <1>6, <1>7, <1>8, <1>9, <1>10, <1>11, <1>fee, <1>13 DEF OutcomesNext
  <2>2. OutcomesRequestsOK'
    BY <2>1, OutcomesRequestsKept
  <2> QED
    BY <2>1, <2>2 DEF Turns
<1> QED
  BY <1>12, <1>13

-----------------------------------------------------------------------------
(***************************************************************************)
(* Deliverables.  A stage that is under way rests on marks that the row    *)
(* never loses, so stages that overlap cannot skip one.                    *)
(***************************************************************************)
StagesPassed == {"qa", "scan", "human"}
EditionStates == {"draft", "qa_checked", "scanned", "blocked", "awaiting_human", "approved",
                  "rejected", "delivered"}
Pieces == {"title", "client", "heading", "text", "label", "value", "provenance", "note", "state", "code",
           "summary", "disclosure", "column", "cell", "nowhere"}
EditionRows == [status : EditionStates, document : Documents, phrase : Pieces, known : BOOLEAN,
                passed : SUBSET StagesPassed]

\* A phrase that was known as banned is in no part that is printed but the name.
Unbanned(row) == row.known => row.phrase \notin Render(row.document) \ {"client"}

SoundEdition(row) ==
    /\ row \in EditionRows /\ (row.known => banned)
    /\ row.status \in {"qa_checked", "scanned", "awaiting_human", "approved", "delivered"}
          => "qa" \in row.passed
    /\ row.status \in {"scanned", "awaiting_human", "approved", "delivered"}
          => "scan" \in row.passed
    /\ row.status \in {"approved", "delivered"} => "human" \in row.passed
    /\ "scan" \in row.passed => Unbanned(row)

Numbered == \E n \in Nat : Rows = 1..n

DeliverablesRowsOK ==
    /\ banned \in BOOLEAN /\ Numbered
    /\ edition \in [Editions -> EditionRows \union {NoEdition}]
    /\ \A v \in Rows : SoundEdition(edition[v])

DeliverablesRequestOK(r) ==
    /\ r.op = "draft" => /\ r.v \in Editions /\ SoundEdition(r.row)
                         /\ \A n \in Nat : Rows = 1..n => r.v \in 1..(n + 1)
    /\ r.op \in {"qa", "library", "scan", "ask", "approve", "reject", "deliver"} => r.v \in Rows
    /\ r.op \in {"library", "scan", "ask", "approve", "deliver"} => "qa" \in edition[r.v].passed
    /\ r.op \in {"ask", "approve", "deliver"} => "scan" \in edition[r.v].passed
    /\ r.op = "deliver" => "human" \in edition[r.v].passed
    /\ r.op = "scan" => (~r.blocked => Unbanned(edition[r.v]))

DeliverablesRequestsOK == \A c \in Clerks : DeliverablesRequestOK(request[c])

\* What no step undoes.
DeliverablesSettle ==
    /\ banned => banned'
    /\ \A v \in Rows :
          /\ v \in Rows' /\ edition[v].passed \subseteq edition'[v].passed
          /\ edition'[v].known = edition[v].known /\ edition'[v].phrase = edition[v].phrase
          /\ edition'[v].document = edition[v].document
    /\ \A n \in Nat : Rows' = 1..n => \E m \in Nat : m <= n /\ Rows = 1..m

\* What is printed is what is scanned, and the client's name.
LEMMA PrintedIsScanned ==
    ASSUME NEW text \in Documents
    PROVE  Render(text) \ {"client"} = ScannableText(text)
<1> DEFINE Scanned(k) == CASE k = "paragraph"        -> {"text"}
                           [] k = "key_figures"      -> {"label", "value", "provenance", "note"}
                           [] k = "compliance_state" -> {"state", "code", "summary"}
                           [] k = "disclosure"       -> {"disclosure"}
                           [] k = "table"            -> {"column", "cell"}
<1>1. \A k \in text : RenderBlock(k) = Scanned(k)
  BY DeliverablesAssumption DEF RenderBlock, BlockKinds
<1>2. {RenderBlock(k) : k \in text} = {Scanned(k) : k \in text}
  <2> HIDE DEF Scanned
  <2> QED
    BY <1>1
<1>3. ScannableText(text) = {"title", "heading"} \union UNION {Scanned(k) : k \in text}
  BY DEF ScannableText
<1>4. Render(text) = {"title", "client", "heading"} \union UNION {RenderBlock(k) : k \in text}
  BY DEF Render
<1>5. \A k \in text : "client" \notin RenderBlock(k)
  BY DeliverablesAssumption DEF RenderBlock, BlockKinds
<1> HIDE DEF Scanned
<1> QED
  BY <1>2, <1>3, <1>4, <1>5

LEMMA PiecesOfADocument ==
    ASSUME NEW text \in Documents
    PROVE  Render(text) \subseteq Pieces
<1>1. \A k \in text : RenderBlock(k) \subseteq Pieces
  BY DeliverablesAssumption DEF RenderBlock, BlockKinds, Pieces
<1> QED
  BY <1>1 DEF Render, Pieces

LEMMA DeliverablesInitOK ==
    ASSUME DeliverablesInit, request = [c \in Clerks |-> AtRest]
    PROVE  DeliverablesRowsOK /\ DeliverablesRequestsOK
<1>1. Rows = {}
  BY DEF DeliverablesInit, Rows
<1>2. Numbered
  <2>1. 0 \in Nat /\ 1..0 = {}
    OBVIOUS
  <2> QED
    BY <1>1, <2>1 DEF Numbered
<1>3. DeliverablesRowsOK
  BY <1>1, <1>2 DEF DeliverablesInit, DeliverablesRowsOK
<1>4. DeliverablesRequestsOK
  BY DEF DeliverablesRequestsOK, DeliverablesRequestOK, AtRest
<1> QED
  BY <1>3, <1>4

LEMMA RowsAreEditions ==
    ASSUME DeliverablesRowsOK
    PROVE  \A v \in Rows : v \in Editions /\ edition[v] \in EditionRows
BY DEF DeliverablesRowsOK, Rows, SoundEdition

LEMMA DeliveredIsSound ==
    ASSUME DeliverablesRowsOK
    PROVE  DeliverablesTypeOK /\ BannedIsNotDelivered /\ DeliveredPassedAll
<1>1. Rows = 1..Cardinality(Rows)
  <2>1. PICK n \in Nat : Rows = 1..n
    BY DEF DeliverablesRowsOK, Numbered
  <2>2. Cardinality(1..n) = n
    <3>1. Cardinality(1..n) = IF 1 > n THEN 0 ELSE n - 1 + 1
      BY FS_Interval
    <3> QED
      BY <3>1
  <2> QED
    BY <2>1, <2>2
<1>2. DeliverablesTypeOK
  BY <1>1 DEF DeliverablesRowsOK, DeliverablesTypeOK, SoundEdition, EditionRows, EditionStates
<1>3. BannedIsNotDelivered
  BY DEF DeliverablesRowsOK, BannedIsNotDelivered, SoundEdition, Unbanned
<1>4. DeliveredPassedAll
  <2> SUFFICES ASSUME NEW v \in Rows, edition[v].status = "delivered"
               PROVE  edition[v].passed = {"qa", "scan", "human"}
    BY DEF DeliveredPassedAll
  <2>1. edition[v].passed \subseteq StagesPassed /\ StagesPassed \subseteq edition[v].passed
    BY DEF DeliverablesRowsOK, SoundEdition, EditionRows, StagesPassed
  <2> QED
    BY <2>1 DEF StagesPassed
<1> QED
  BY <1>2, <1>3, <1>4

LEMMA DeliverablesRequestStands ==
    ASSUME NEW r, DeliverablesRequestOK(r), DeliverablesSettle
    PROVE  DeliverablesRequestOK(r)'
<1>1. r.op = "draft" => /\ r.v \in Editions /\ SoundEdition(r.row)'
                        /\ \A n \in Nat : Rows' = 1..n => r.v \in 1..(n + 1)
  <2> SUFFICES ASSUME r.op = "draft"
               PROVE  SoundEdition(r.row)' /\ \A n \in Nat : Rows' = 1..n => r.v \in 1..(n + 1)
    BY DEF DeliverablesRequestOK
  <2>1. SoundEdition(r.row)'
    BY DEF DeliverablesRequestOK, DeliverablesSettle, SoundEdition, Unbanned
  <2>2. ASSUME NEW n \in Nat, Rows' = 1..n PROVE r.v \in 1..(n + 1)
    <3>1. PICK m \in Nat : m <= n /\ Rows = 1..m
      BY <2>2 DEF DeliverablesSettle
    <3>2. r.v \in 1..(m + 1)
      BY <3>1 DEF DeliverablesRequestOK
    <3> QED
      BY <3>1, <3>2
  <2> QED
    BY <2>1, <2>2
<1>2. r.op = "scan" => (~r.blocked => Unbanned(edition'[r.v]))
  BY DEF DeliverablesRequestOK, DeliverablesSettle, Unbanned
<1>3. r.op \in {"qa", "library", "scan", "ask", "approve", "reject", "deliver"} => r.v \in Rows'
  BY DEF DeliverablesRequestOK, DeliverablesSettle
<1>4. r.op \in {"library", "scan", "ask", "approve", "deliver"} => "qa" \in edition'[r.v].passed
  BY DEF DeliverablesRequestOK, DeliverablesSettle
<1>5. r.op \in {"ask", "approve", "deliver"} => "scan" \in edition'[r.v].passed
  BY DEF DeliverablesRequestOK, DeliverablesSettle
<1>6. r.op = "deliver" => "human" \in edition'[r.v].passed
  BY DEF DeliverablesRequestOK, DeliverablesSettle
<1> QED
  BY <1>1, <1>2, <1>3, <1>4, <1>5, <1>6 DEF DeliverablesRequestOK, Unbanned

LEMMA DeliverablesRequestsKept ==
    ASSUME NEW c \in Clerks, NEW next, Turns(c, next), DeliverablesRequestsOK,
           DeliverablesRequestOK(next)', DeliverablesSettle
    PROVE  DeliverablesRequestsOK'
<1>1. ASSUME NEW d \in Clerks PROVE DeliverablesRequestOK(request[d])'
  <2>1. CASE d = c
    BY <2>1, Zenon DEF Turns, DeliverablesRequestOK
  <2>2. CASE d # c
    BY <2>2, DeliverablesRequestStands DEF Turns, DeliverablesRequestsOK
  <2> QED
    BY <2>1, <2>2
<1> QED
  BY <1>1 DEF DeliverablesRequestsOK

LEMMA DeliverablesStep ==
    ASSUME RequestsOK, today \in Nat, DeliverablesRowsOK, DeliverablesRequestsOK, DeliverablesNext
    PROVE  RequestsOK' /\ today' \in Nat /\ DeliverablesRowsOK' /\ DeliverablesRequestsOK'
<1> DEFINE Serves(c, next) == /\ Turns(c, next) /\ DeliverablesRowsOK'
                              /\ DeliverablesRequestOK(next)' /\ DeliverablesSettle
<1>1. DeliverablesRequestOK(AtRest)'
  BY DEF DeliverablesRequestOK, AtRest
<1>2. ASSUME NEW c \in Clerks PROVE DeliverablesRequestOK(request[c])
  BY DEF DeliverablesRequestsOK
<1>3. Numbered
  BY DEF DeliverablesRowsOK
<1>4. UNCHANGED deliverableRows => DeliverablesRowsOK' /\ DeliverablesSettle
  BY <1>3 DEF deliverableRows, DeliverablesRowsOK, DeliverablesSettle, Rows, SoundEdition, Unbanned,
         Numbered
\* A request that only looks.
<1>5. ASSUME NEW c \in Clerks, NEW next, Turns(c, next), UNCHANGED deliverableRows,
             DeliverablesRequestOK(next)
      PROVE  Serves(c, next)
  BY <1>4, <1>5, DeliverablesRequestStands
<1>6. ASSUME NEW c \in Clerks, NEW stage \in {"qa", "library", "ask", "approve", "reject", "deliver"},
             NEW from, Reads(c, stage, from),
             \A v \in Rows : edition[v].status \in from =>
                /\ stage \in {"library", "ask", "approve", "deliver"} => "qa" \in edition[v].passed
                /\ stage \in {"ask", "approve", "deliver"} => "scan" \in edition[v].passed
                /\ stage = "deliver" => "human" \in edition[v].passed
      PROVE  \E next : Serves(c, next)
  <2>1. PICK v \in Rows : /\ edition[v].status \in from /\ Begins(c, [op |-> stage, v |-> v])
                          /\ UNCHANGED deliverableRows
    BY <1>6 DEF Reads
  <2>2. DeliverablesRequestOK([op |-> stage, v |-> v])
    BY <1>6, <2>1 DEF DeliverablesRequestOK
  <2> QED
    BY <1>5, <2>1, <2>2, DeskTurns
<1>7. ASSUME NEW c \in Clerks, NEW status \in EditionStates, NEW passed \in SUBSET StagesPassed,
             Writes(c, status, passed), request[c].v \in Rows,
             \A old : old = edition[request[c].v] =>
                /\ status \in {"qa_checked", "scanned", "awaiting_human", "approved", "delivered"}
                      => "qa" \in old.passed \union passed
                /\ status \in {"scanned", "awaiting_human", "approved", "delivered"}
                      => "scan" \in old.passed \union passed
                /\ status \in {"approved", "delivered"} => "human" \in old.passed \union passed
                /\ "scan" \in passed => Unbanned(old)
      PROVE  \E next : Serves(c, next)
  <2>1. PICK v \in Rows : v = request[c].v
    BY <1>7
  <2>2. PICK old \in EditionRows : old = edition[v]
    BY <2>1, RowsAreEditions
  <2>3. PICK new : new = [old EXCEPT !.status = status, !.passed = old.passed \union passed]
    OBVIOUS
  <2>4. /\ new \in EditionRows /\ new.status = status /\ new.passed = old.passed \union passed
        /\ new.document = old.document /\ new.phrase = old.phrase /\ new.known = old.known
    <3>1. old.passed \union passed \in SUBSET StagesPassed
      BY DEF EditionRows
    <3> QED
      BY <2>3, <3>1 DEF EditionRows
  <2>5. v \in Editions /\ new # NoEdition /\ new.status # "none"
    BY <2>1, <2>4, RowsAreEditions DEF EditionRows, EditionStates, NoEdition
  <2>6. Turns(c, AtRest) /\ banned' = banned
    BY <1>7, DeskTurns DEF Writes
  <2>7. edition' = [edition EXCEPT ![v] = new]
    <3>1. edition' = [edition EXCEPT ![v].status = status,
                                     ![v].passed = edition[v].passed \union passed]
      BY <1>7, <2>1 DEF Writes
    <3> QED
      BY <2>1, <2>2, <2>3, <3>1, RowsAreEditions DEF DeliverablesRowsOK, EditionRows
  <2>8. /\ edition' \in [Editions -> EditionRows \union {NoEdition}]
        /\ edition'[v] = new /\ \A u \in Editions \ {v} : edition'[u] = edition[u]
    BY <2>4, <2>5, <2>7 DEF DeliverablesRowsOK
  <2>9. Rows' = Rows
    BY <2>1, <2>5, <2>8 DEF Rows
  <2>10. SoundEdition(new)
    <3>1. SoundEdition(old)
      BY <2>1, <2>2 DEF DeliverablesRowsOK
    <3>2. "scan" \in new.passed => Unbanned(new)
      BY <1>7, <2>1, <2>2, <2>4, <3>1 DEF SoundEdition, Unbanned
    <3> QED
      BY <1>7, <2>1, <2>2, <2>4, <3>1, <3>2 DEF SoundEdition
  <2>11. \A u \in Rows' : SoundEdition(edition[u])'
    BY <2>1, <2>5, <2>6, <2>8, <2>9, <2>10, RowsAreEditions
       DEF DeliverablesRowsOK, SoundEdition, Unbanned
  <2>12. DeliverablesRowsOK'
    BY <1>3, <2>6, <2>8, <2>9, <2>11 DEF DeliverablesRowsOK, Numbered
  <2>13. DeliverablesSettle
    <3>1. \A u \in Rows : u \in Editions
      BY RowsAreEditions
    <3>2. \A n \in Nat : Rows' = 1..n => \E m \in Nat : m <= n /\ Rows = 1..m
      BY <2>9
    <3> QED
      BY <2>1, <2>2, <2>4, <2>6, <2>8, <2>9, <3>1, <3>2 DEF DeliverablesSettle
  <2> QED
    BY <1>1, <2>6, <2>12, <2>13
<1>8. ASSUME NEW v \in Rows PROVE SoundEdition(edition[v])
  BY DEF DeliverablesRowsOK
<1>9. ASSUME NEW c \in Clerks, Draft(c) PROVE \E next : Serves(c, next)
  <2>1. CASE \E text \in Documents :
               \E phrase \in Render(text) \union {"nowhere"} :
                  /\ Cardinality(Rows) + 1 \in Editions /\ UNCHANGED deliverableRows
                  /\ Begins(c, [op |-> "draft", v |-> Cardinality(Rows) + 1,
                           row |-> [status |-> "draft", document |-> text, phrase |-> phrase,
                                    known |-> banned, passed |-> {}]])
    <3>1. PICK text, phrase :
                  /\ text \in Documents
                  /\ phrase \in Render(text) \union {"nowhere"}
                  /\ Cardinality(Rows) + 1 \in Editions /\ UNCHANGED deliverableRows
                  /\ Begins(c, [op |-> "draft", v |-> Cardinality(Rows) + 1,
                           row |-> [status |-> "draft", document |-> text, phrase |-> phrase,
                                    known |-> banned, passed |-> {}]])
      BY <2>1
    <3>2. PICK row : row = [status |-> "draft", document |-> text, phrase |-> phrase,
                            known |-> banned, passed |-> {}]
      OBVIOUS
    <3>3. SoundEdition(row)
      <4>1. phrase \in Pieces
        BY <3>1, PiecesOfADocument DEF Pieces
      <4>2. banned \in BOOLEAN
        BY DEF DeliverablesRowsOK
      <4>3. row \in EditionRows
        BY <3>1, <3>2, <4>1, <4>2 DEF EditionRows, EditionStates
      <4> QED
        BY <3>2, <4>3 DEF SoundEdition
    <3>4. PICK v : v = Cardinality(Rows) + 1
      OBVIOUS
    <3>5. \A n \in Nat : Rows = 1..n => v \in 1..(n + 1)
      <4> SUFFICES ASSUME NEW n \in Nat, Rows = 1..n PROVE v \in 1..(n + 1)
        OBVIOUS
      <4>1. Cardinality(1..n) = IF 1 > n THEN 0 ELSE n - 1 + 1
        BY FS_Interval
      <4> QED
        BY <3>4, <4>1
    <3>6. PICK next : next = [op |-> "draft", v |-> v, row |-> row]
      OBVIOUS
    <3>7. next.op = "draft" /\ next.v = v /\ next.row = row
      BY <3>6
    <3>8. DeliverablesRequestOK(next)
      BY <3>1, <3>3, <3>4, <3>5, <3>7 DEF DeliverablesRequestOK
    <3> QED
      BY <1>5, <3>1, <3>2, <3>4, <3>6, <3>8, DeskTurns
  <2>2. CASE /\ Doing(c, "draft") /\ Finishes(c) /\ UNCHANGED banned
             /\ edition' = IF request[c].v \in Rows THEN edition
                           ELSE [edition EXCEPT ![request[c].v] = request[c].row]
    <3>1. PICK v, row : v = request[c].v /\ row = request[c].row
      OBVIOUS
    <3>2. /\ v \in Editions /\ SoundEdition(row)
          /\ \A n \in Nat : Rows = 1..n => v \in 1..(n + 1)
      BY <1>2, <2>2, <3>1 DEF DeliverablesRequestOK, Doing
    <3>3. CASE v \in Rows
      <4>1. UNCHANGED deliverableRows /\ Turns(c, AtRest)
        BY <2>2, <3>1, <3>3, DeskTurns DEF deliverableRows
      <4> QED
        BY <1>1, <1>4, <4>1
    <3>4. CASE v \notin Rows
      <4>1. /\ edition' = [edition EXCEPT ![v] = row] /\ banned' = banned
            /\ Turns(c, AtRest)
        BY <2>2, <3>1, <3>4, DeskTurns
      <4>2. PICK n \in Nat : Rows = 1..n
        BY <1>3 DEF Numbered
      <4>3. v = n + 1
        BY <3>2, <3>4, <4>2
      <4>4. row \in EditionRows /\ row # NoEdition
        BY <3>2 DEF SoundEdition, EditionRows, EditionStates, NoEdition
      <4>5. /\ edition' \in [Editions -> EditionRows \union {NoEdition}]
            /\ edition'[v] = row /\ \A u \in Editions \ {v} : edition'[u] = edition[u]
        BY <3>2, <4>1, <4>4 DEF DeliverablesRowsOK
      <4>6. Rows' = Rows \union {v}
        BY <3>2, <4>4, <4>5 DEF Rows
      <4>7. Rows' = 1..(n + 1)
        BY <4>2, <4>3, <4>6
      <4>8. \A u \in Rows' : SoundEdition(edition[u])'
        <5>1. \A u \in Rows : edition'[u] = edition[u] /\ SoundEdition(edition[u])
          BY <1>8, <3>4, <4>5, RowsAreEditions
        <5> QED
          BY <3>2, <4>1, <4>5, <4>6, <5>1 DEF SoundEdition, Unbanned
      <4>9. DeliverablesRowsOK'
        <5>1. n + 1 \in Nat
          OBVIOUS
        <5>2. Numbered'
          BY <4>7, <5>1 DEF Numbered
        <5> QED
          BY <4>1, <4>5, <4>8, <5>2 DEF DeliverablesRowsOK
      <4>10. DeliverablesSettle
        <5>1. \A u \in Rows : u \in Rows' /\ edition'[u] = edition[u]
          BY <3>4, <4>5, <4>6, RowsAreEditions
        <5>2. ASSUME NEW k \in Nat, Rows' = 1..k PROVE n <= k
          <6>1. n + 1 \in 1..k
            BY <4>7, <5>2
          <6> QED
            BY <6>1
        <5> QED
          BY <4>1, <4>2, <5>1, <5>2 DEF DeliverablesSettle
      <4> QED
        BY <1>1, <4>1, <4>9, <4>10
    <3> QED
      BY <3>3, <3>4
  <2> QED
    BY <1>9, <2>1, <2>2 DEF Draft
<1>10. ASSUME NEW c \in Clerks, RunQaCheck(c) PROVE \E next : Serves(c, next)
  <2>1. CASE Reads(c, "qa", {"draft"})
    BY <1>6, <2>1
  <2>2. CASE Doing(c, "qa") /\ Writes(c, "qa_checked", {"qa"})
    <3>1. request[c].v \in Rows
      BY <1>2, <2>2 DEF DeliverablesRequestOK, Doing
    <3> QED
      BY <1>7, <2>2, <3>1 DEF EditionStates, StagesPassed
  <2> QED
    BY <1>10, <2>1, <2>2 DEF RunQaCheck
<1>11. ASSUME NEW c \in Clerks, RunComplianceScan(c) PROVE \E next : Serves(c, next)
  <2>1. CASE Reads(c, "library", {"qa_checked"})
    BY <1>6, <1>8, <2>1 DEF SoundEdition
  <2>2. CASE Doing(c, "library")
    <3>1. PICK v : v = request[c].v
      OBVIOUS
    <3>2. PICK blocked : blocked = (banned /\ edition[v].phrase \in ScannableText(edition[v].document))
      OBVIOUS
    <3>3. PICK next : next = [op |-> "scan", v |-> v, blocked |-> blocked]
      OBVIOUS
    <3>4. next.op = "scan" /\ next.v = v /\ next.blocked = blocked
      BY <3>3
    <3>5. GoesOn(c, next) /\ UNCHANGED deliverableRows
      BY <1>11, <2>2, <3>1, <3>2, <3>3
         DEF RunComplianceScan, Reads, Begins, Writes, Doing
    <3>6. v \in Rows /\ "qa" \in edition[v].passed
      BY <1>2, <2>2, <3>1 DEF DeliverablesRequestOK, Doing
    <3>7. ~blocked => Unbanned(edition[v])
      <4>1. edition[v].document \in Documents /\ (edition[v].known => banned)
        BY <1>8, <3>6 DEF SoundEdition, EditionRows
      <4> QED
        BY <3>2, <4>1, PrintedIsScanned DEF Unbanned
    <3>8. DeliverablesRequestOK(next)
      BY <3>4, <3>6, <3>7 DEF DeliverablesRequestOK
    <3> QED
      BY <1>5, <3>5, <3>8, DeskTurns
  <2>3. CASE Doing(c, "scan")
    <3>1. /\ request[c].v \in Rows /\ "qa" \in edition[request[c].v].passed
          /\ ~request[c].blocked => Unbanned(edition[request[c].v])
      BY <1>2, <2>3 DEF DeliverablesRequestOK, Doing
    <3>2. IF request[c].blocked THEN Writes(c, "blocked", {}) ELSE Writes(c, "scanned", {"scan"})
      BY <1>11, <2>3 DEF RunComplianceScan, Reads, Begins, Doing
    <3>3. CASE request[c].blocked
      BY <1>7, <3>1, <3>2, <3>3 DEF EditionStates
    <3>4. CASE ~request[c].blocked
      BY <1>7, <3>1, <3>2, <3>4 DEF EditionStates, StagesPassed
    <3> QED
      BY <3>3, <3>4
  <2> QED
    BY <1>11, <2>1, <2>2, <2>3 DEF RunComplianceScan
<1>12. ASSUME NEW c \in Clerks, RequestHumanReview(c) PROVE \E next : Serves(c, next)
  <2>1. CASE Reads(c, "ask", {"scanned"})
    BY <1>6, <1>8, <2>1 DEF SoundEdition
  <2>2. CASE Doing(c, "ask") /\ Writes(c, "awaiting_human", {})
    <3>1. request[c].v \in Rows /\ {"qa", "scan"} \subseteq edition[request[c].v].passed
      BY <1>2, <2>2 DEF DeliverablesRequestOK, Doing
    <3> QED
      BY <1>7, <2>2, <3>1 DEF EditionStates
  <2> QED
    BY <1>12, <2>1, <2>2 DEF RequestHumanReview
<1>13. ASSUME NEW c \in Clerks, ApproveDelivery(c) PROVE \E next : Serves(c, next)
  <2>1. CASE Reads(c, "approve", {"scanned", "awaiting_human"})
    BY <1>6, <1>8, <2>1 DEF SoundEdition
  <2>2. CASE Doing(c, "approve") /\ Writes(c, "approved", {"human"})
    <3>1. request[c].v \in Rows /\ {"qa", "scan"} \subseteq edition[request[c].v].passed
      BY <1>2, <2>2 DEF DeliverablesRequestOK, Doing
    <3> QED
      BY <1>7, <2>2, <3>1 DEF EditionStates, StagesPassed
  <2> QED
    BY <1>13, <2>1, <2>2 DEF ApproveDelivery
<1>14. ASSUME NEW c \in Clerks, Reject(c) PROVE \E next : Serves(c, next)
  <2>1. CASE Reads(c, "reject", {edition[v].status : v \in Rows})
    <3>1. PICK from : from = {edition[v].status : v \in Rows}
      OBVIOUS
    <3> QED
      BY <1>6, <2>1, <3>1
  <2>2. CASE Doing(c, "reject") /\ Writes(c, "rejected", {})
    <3>1. request[c].v \in Rows
      BY <1>2, <2>2 DEF DeliverablesRequestOK, Doing
    <3> QED
      BY <1>7, <2>2, <3>1 DEF EditionStates
  <2> QED
    BY <1>14, <2>1, <2>2 DEF Reject
<1>15. ASSUME NEW c \in Clerks, Deliver(c) PROVE \E next : Serves(c, next)
  <2>1. CASE Reads(c, "deliver", {"approved"})
    BY <1>6, <1>8, <2>1 DEF SoundEdition
  <2>2. CASE Doing(c, "deliver") /\ Writes(c, "delivered", {})
    <3>1. request[c].v \in Rows /\ StagesPassed \subseteq edition[request[c].v].passed
      BY <1>2, <2>2 DEF DeliverablesRequestOK, Doing, StagesPassed
    <3> QED
      BY <1>7, <2>2, <3>1 DEF EditionStates, StagesPassed
  <2> QED
    BY <1>15, <2>1, <2>2 DEF Deliver
<1>16. ASSUME NEW c \in Clerks, ClerkDies(c) /\ UNCHANGED deliverableRows
       PROVE  \E next : Serves(c, next)
  BY <1>1, <1>4, <1>16, DeskTurns
<1>17. CASE BanPhrase
  <2>1. banned' = TRUE /\ UNCHANGED <<edition, request, today>>
    BY <1>17 DEF BanPhrase, deskVars
  <2>2. DeliverablesRowsOK' /\ DeliverablesSettle
    BY <1>3, <2>1 DEF DeliverablesRowsOK, DeliverablesSettle, Rows, SoundEdition, Unbanned, Numbered
  <2>3. \A c \in Clerks : DeliverablesRequestOK(request[c])'
    BY <1>2, <2>1, <2>2, DeliverablesRequestStands
  <2> QED
    BY <2>1, <2>2, <2>3, RequestsStay DEF DeliverablesRequestsOK
<1>18. CASE ~BanPhrase
  <2>1. PICK c, next : c \in Clerks /\ Serves(c, next)
    BY <1>9, <1>10, <1>11, <1>12, <1>13, <1>14, <1>15, <1>16, <1>18 DEF DeliverablesNext
  <2>2. DeliverablesRequestsOK'
    BY <2>1, DeliverablesRequestsKept
  <2> QED
    BY <2>1, <2>2 DEF Turns
<1> QED
  BY <1>17, <1>18

-----------------------------------------------------------------------------
(***************************************************************************)
(* A call.  Whoever raises promises has each of those it heard on its list *)
(* or among the obligations, and an obligation that was raised again was   *)
(* on the list of a request of its own.                                    *)
(***************************************************************************)
Hearing == {"attach", "detect", "raise", "assign", "close"}
CallRows == [status : {"none", "consent_refused", "recording", "captured", "analysed"},
             basis : {"none", "allowed", "refused"}, transcript : Transcripts \union {{}}]
ObligationRows == [excerpt : Sentences, raised : Nat, due : Nat,
                   status : {"open", "corrected", "dismissed"}]

DueAsItsWorst(row) == row.due = row.raised + CorrectionWindow[SeverityOf(row.excerpt)]

CallsRowsOK ==
    /\ call \in CallRows /\ owed \in Seq(ObligationRows) /\ lostTask \in BOOLEAN
    /\ RefusedLeavesNoTrace
    /\ queued \subseteq DOMAIN owed
    /\ \A t \in heard : DetectPromises(t) \subseteq Owed
    /\ \A i \in DOMAIN owed : DueAsItsWorst(owed[i])

RowsOf(s) == {i \in DOMAIN owed : owed[i].excerpt = s}
WaitingFor(s) == {c \in Clerks : request[c].op \in {"raise", "assign"} /\ s \in request[c].todo}
IsAssigned(i) == \E c \in Clerks : Doing(c, "assign") /\ request[c].row = i

OneOpens == \A c, d \in Clerks : Doing(c, "open") /\ Doing(d, "open") => c = d
TasksFollow == lostTask \/ \A i \in DOMAIN owed \ queued : IsAssigned(i)
OwedByTheirOwn ==
    \A s \in Sentences : Cardinality(RowsOf(s)) + Cardinality(WaitingFor(s)) <= Cardinality(Clerks)

CallsDeskOK == OneOpens /\ TasksFollow /\ OwedByTheirOwn

CallsRequestOK(r) ==
    /\ r.op = "open" => call = NoCall
    /\ r.op \in Hearing => call.basis = "allowed"
    /\ r.op \in {"attach", "detect", "raise", "assign"} => r.transcript \in Transcripts
    /\ r.op \in {"detect", "raise", "assign"} => r.now \in Nat
    /\ r.op \in {"raise", "assign"} => /\ r.todo \subseteq Sentences
                                       /\ DetectPromises(r.transcript) \subseteq Owed \union r.todo
    /\ r.op \in {"assign", "close"} => r.row \in DOMAIN owed
    /\ r.op = "close" => r.how \in {"corrected", "dismissed"}

CallsRequestsOK == \A c \in Clerks : CallsRequestOK(request[c])

\* What c's step does not undo.
CallsSettle(c) ==
    /\ \A d \in Clerks : d # c /\ Doing(d, "open") => call' = NoCall
    /\ call.basis = "allowed" => call'.basis = "allowed"
    /\ DOMAIN owed \subseteq DOMAIN owed' /\ Owed \subseteq Owed'

LEMMA NoneOwed ==
    ASSUME owed = <<>>
    PROVE  DOMAIN owed = {} /\ Owed = {} /\ \A s : Cardinality(RowsOf(s)) = 0
<1>1. DOMAIN owed = {}
  OBVIOUS
<1>2. \A s : RowsOf(s) = {}
  BY <1>1 DEF RowsOf
<1> QED
  BY <1>1, <1>2, FS_EmptySet DEF Owed

LEMMA CallsInitOK ==
    ASSUME CallsInit, request = [c \in Clerks |-> AtRest]
    PROVE  CallsRowsOK /\ CallsDeskOK /\ CallsRequestsOK
<1>1. DOMAIN owed = {} /\ Owed = {} /\ \A s : Cardinality(RowsOf(s)) = 0
  BY NoneOwed DEF CallsInit
<1>2. CallsRowsOK
  <2>1. call \in CallRows /\ RefusedLeavesNoTrace
    BY DEF CallsInit, CallRows, NoCall, RefusedLeavesNoTrace
  <2>2. owed \in Seq(ObligationRows)
    BY DEF CallsInit
  <2> QED
    BY <1>1, <2>1, <2>2 DEF CallsInit, CallsRowsOK
<1>3. OneOpens /\ TasksFollow
  BY <1>1 DEF OneOpens, TasksFollow, Doing, AtRest
<1>4. ASSUME NEW s PROVE Cardinality(WaitingFor(s)) \in Nat
                        /\ Cardinality(WaitingFor(s)) <= Cardinality(Clerks)
  BY ClerksCounted DEF WaitingFor
<1>5. CallsRequestsOK
  BY DEF CallsRequestsOK, CallsRequestOK, AtRest, Hearing
<1> QED
  BY <1>1, <1>2, <1>3, <1>4, <1>5, ClerksCounted DEF CallsDeskOK, OwedByTheirOwn

LEMMA Windows ==
    /\ CorrectionWindow["critical"] = 1 /\ CorrectionWindow["serious"] = 3
    /\ \A kind \in DOMAIN PromiseDetectors : PromiseDetectors[kind] \in {"critical", "serious"}
BY DEF CorrectionWindow, PromiseDetectors

LEMMA PromisesAreSentences ==
    ASSUME NEW t \in Transcripts
    PROVE  DetectPromises(t) \subseteq Sentences
BY CallsAssumption DEF DetectPromises

\* What is owed in time is owed to the worst of it.
LEMMA WorstIsSoonest ==
    ASSUME CallsRowsOK
    PROVE  WorstSetsTheDate
<1>1. SUFFICES ASSUME NEW i \in DOMAIN owed, NEW kind \in Fires[owed[i].excerpt]
               PROVE  owed[i].due <= owed[i].raised + CorrectionWindow[PromiseDetectors[kind]]
  BY DEF WorstSetsTheDate
<1>2. owed[i] \in ObligationRows
  BY DEF CallsRowsOK
<1>3. PICK s \in Sentences : s = owed[i].excerpt
  BY <1>2 DEF ObligationRows
<1>4. kind \in DOMAIN PromiseDetectors
  BY <1>3, CallsAssumption
<1>5. owed[i].raised \in Nat /\ owed[i].due = owed[i].raised + CorrectionWindow[SeverityOf(s)]
  BY <1>2, <1>3 DEF CallsRowsOK, DueAsItsWorst, ObligationRows
<1>6. CASE PromiseDetectors[kind] = "critical"
  <2>1. SeverityOf(s) = "critical"
    BY <1>3, <1>6 DEF SeverityOf
  <2> QED
    BY <1>5, <1>6, <2>1, Windows
<1>7. CASE PromiseDetectors[kind] = "serious"
  <2>1. SeverityOf(s) \in {"critical", "serious"}
    BY DEF SeverityOf
  <2> QED
    BY <1>5, <1>7, <2>1, Windows
<1> QED
  BY <1>4, <1>6, <1>7, Windows

LEMMA RowsAreCounted ==
    ASSUME owed \in Seq(ObligationRows), NEW s
    PROVE  IsFiniteSet(RowsOf(s)) /\ Cardinality(RowsOf(s)) \in Nat
<1>1. DOMAIN owed = 1..Len(owed) /\ Len(owed) \in Nat
  OBVIOUS
<1>2. IsFiniteSet(DOMAIN owed) /\ RowsOf(s) \subseteq DOMAIN owed
  BY <1>1, FS_Interval DEF RowsOf
<1> QED
  BY <1>2, FS_Subset, FS_CardinalityType

LEMMA CallsAnswer ==
    ASSUME CallsRowsOK, CallsDeskOK
    PROVE  CallsTypeOK /\ PromisesAreAnswered
<1>1. CallsTypeOK
  BY DEF CallsRowsOK, CallsTypeOK, CallRows
<1>2. RefusedLeavesNoTrace /\ PromisesAreOwed
  BY DEF CallsRowsOK, CallsDeskOK, PromisesAreOwed, TasksFollow, IsAssigned
<1>3. ASSUME NEW s \in Sentences
      PROVE  Cardinality({i \in DOMAIN owed : owed[i].excerpt = s}) <= Cardinality(Clerks)
  <2>1. Cardinality(RowsOf(s)) \in Nat
    BY RowsAreCounted DEF CallsRowsOK
  <2>2. Cardinality(WaitingFor(s)) \in Nat
    BY ClerksCounted DEF WaitingFor
  <2>3. Cardinality(RowsOf(s)) + Cardinality(WaitingFor(s)) <= Cardinality(Clerks)
    BY DEF CallsDeskOK, OwedByTheirOwn
  <2> QED
    BY <2>1, <2>2, <2>3, ClerksCounted DEF RowsOf
<1> QED
  BY <1>1, <1>2, <1>3, WorstIsSoonest DEF PromisesAreAnswered, OwedOncePerAnalysis

LEMMA CallsRequestsKept ==
    ASSUME NEW c \in Clerks, NEW next, Turns(c, next), CallsRequestsOK, CallsRequestOK(next)',
           CallsSettle(c)
    PROVE  CallsRequestsOK'
<1>1. ASSUME NEW d \in Clerks PROVE CallsRequestOK(request[d])'
  <2>1. CASE d = c
    BY <2>1, Zenon DEF Turns, CallsRequestOK
  <2>2. CASE d # c
    <3>1. request'[d] = request[d] /\ CallsRequestOK(request[d])
      BY <2>2 DEF Turns, CallsRequestsOK
    <3>2. request[d].op = "open" => call' = NoCall
      BY <2>2 DEF CallsSettle, Doing
    <3> QED
      BY <3>1, <3>2 DEF CallsRequestOK, CallsSettle
  <2> QED
    BY <2>1, <2>2
<1> QED
  BY <1>1 DEF CallsRequestsOK

\* What c's step leaves of the waiting, when it puts nothing new on its list.
LEMMA WaitingShrinks ==
    ASSUME OwedByTheirOwn, NEW c \in Clerks, NEW next, Turns(c, next),
           \A s : next.op \in {"raise", "assign"} /\ s \in next.todo => c \in WaitingFor(s),
           \A s : RowsOf(s)' = RowsOf(s), owed \in Seq(ObligationRows)
    PROVE  OwedByTheirOwn'
<1> SUFFICES ASSUME NEW s \in Sentences
             PROVE  Cardinality(RowsOf(s)') + Cardinality(WaitingFor(s)') <= Cardinality(Clerks)
  BY DEF OwedByTheirOwn
<1>1. WaitingFor(s)' \subseteq WaitingFor(s)
  <2>1. ASSUME NEW d \in WaitingFor(s)' PROVE d \in WaitingFor(s)
    <3>1. CASE d = c
      BY <2>1, <3>1 DEF WaitingFor, Turns
    <3>2. CASE d # c
      BY <2>1, <3>2 DEF WaitingFor, Turns
    <3> QED
      BY <3>1, <3>2
  <2> QED
    BY <2>1
<1>2. IsFiniteSet(WaitingFor(s)) /\ Cardinality(WaitingFor(s)) \in Nat
  BY ClerksCounted DEF WaitingFor
<1>3. Cardinality(WaitingFor(s)') \in Nat /\ Cardinality(WaitingFor(s)') <= Cardinality(WaitingFor(s))
  <2>1. IsFiniteSet(WaitingFor(s)')
    BY <1>1, <1>2, FS_Subset
  <2> QED
    BY <1>1, <1>2, <2>1, FS_Subset, FS_CardinalityType
<1>4. Cardinality(RowsOf(s)) + Cardinality(WaitingFor(s)) <= Cardinality(Clerks)
  BY DEF OwedByTheirOwn
<1>5. Cardinality(RowsOf(s)) \in Nat
  BY RowsAreCounted
<1> QED
  BY <1>2, <1>3, <1>4, <1>5, ClerksCounted

\* What c's step leaves of the desk, when it opens nothing and owes nothing new.
LEMMA CallsDeskStays ==
    ASSUME CallsDeskOK, NEW c \in Clerks, NEW next, Turns(c, next), next.op # "open",
           \A s : next.op \in {"raise", "assign"} /\ s \in next.todo => c \in WaitingFor(s),
           \A s : RowsOf(s)' = RowsOf(s), DOMAIN owed' = DOMAIN owed, owed \in Seq(ObligationRows),
           lostTask' \/ (~lostTask' /\ ~lostTask /\ queued \subseteq queued'
                         /\ (Doing(c, "assign") => request[c].row \in queued'))
    PROVE  CallsDeskOK'
<1>1. OneOpens'
  BY DEF CallsDeskOK, OneOpens, Doing, Turns
<1>2. TasksFollow'
  <2>1. SUFFICES ASSUME ~lostTask', NEW i \in DOMAIN owed \ queued' PROVE IsAssigned(i)'
    BY DEF TasksFollow
  <2>2. PICK d \in Clerks : Doing(d, "assign") /\ request[d].row = i
    BY <2>1 DEF CallsDeskOK, TasksFollow, IsAssigned
  <2>3. d # c
    BY <2>1, <2>2
  <2> QED
    BY <2>2, <2>3 DEF IsAssigned, Doing, Turns
<1>3. OwedByTheirOwn'
  BY WaitingShrinks DEF CallsDeskOK
<1> QED
  BY <1>1, <1>2, <1>3 DEF CallsDeskOK

LEMMA CallsStep ==
    ASSUME RequestsOK, today \in Nat, CallsRowsOK, CallsDeskOK, CallsRequestsOK, CallsNext
    PROVE  RequestsOK' /\ today' \in Nat /\ CallsRowsOK' /\ CallsDeskOK' /\ CallsRequestsOK'
<1> DEFINE Serves(c, next) == /\ Turns(c, next) /\ CallsRowsOK' /\ CallsDeskOK'
                              /\ CallsRequestOK(next)' /\ CallsSettle(c)
<1>1. CallsRequestOK(AtRest)' /\ AtRest.op = "none"
  BY DEF CallsRequestOK, AtRest, Hearing
<1>2. ASSUME NEW c \in Clerks PROVE CallsRequestOK(request[c])
  BY DEF CallsRequestsOK
<1>3. call \in CallRows /\ owed \in Seq(ObligationRows) /\ lostTask \in BOOLEAN
  BY DEF CallsRowsOK
\* A hearing under way: the call was opened, and nobody else opens it.
<1>4. ASSUME call.basis = "allowed", NEW c \in Clerks PROVE ~Doing(c, "open")
  BY <1>2, <1>4 DEF CallsRequestOK, Doing, NoCall
\* A step that changes no row.
<1>5. ASSUME UNCHANGED callsRows
      PROVE  /\ CallsRowsOK' /\ (\A c \in Clerks : CallsSettle(c))
             /\ \A s : RowsOf(s)' = RowsOf(s)
  <2>1. UNCHANGED <<call, owed, queued, heard, lostTask>>
    BY <1>5 DEF callsRows
  <2>2. Owed' = Owed /\ \A s : RowsOf(s)' = RowsOf(s)
    BY <2>1 DEF Owed, RowsOf
  <2>3. CallsRowsOK'
    BY <2>1, <2>2 DEF CallsRowsOK, RefusedLeavesNoTrace
  <2>4. \A c \in Clerks : CallsSettle(c)
    BY <1>2, <2>1, <2>2 DEF CallsSettle, CallsRequestOK, Doing
  <2> QED
    BY <2>2, <2>3, <2>4
\* A request that only looks.
<1>6. ASSUME NEW c \in Clerks, NEW next, Turns(c, next), UNCHANGED callsRows,
             next.op # "open", ~Doing(c, "assign"), CallsRequestOK(next),
             \A s : next.op \in {"raise", "assign"} /\ s \in next.todo => c \in WaitingFor(s)
      PROVE  Serves(c, next)
  <2>1. UNCHANGED <<call, owed, queued, lostTask>>
    BY <1>6 DEF callsRows
  <2>2. CallsDeskOK'
    BY <1>3, <1>5, <1>6, <2>1, CallsDeskStays
  <2>3. CallsRequestOK(next)'
    BY <1>5, <1>6, <2>1 DEF CallsRequestOK, Owed
  <2> QED
    BY <1>5, <1>6, <2>2, <2>3
\* The call's row changes, and no obligation.
<1>7. ASSUME NEW c \in Clerks, Finishes(c), UNCHANGED <<owed, queued, lostTask>>,
             call' \in CallRows, call.basis = "allowed" => call'.basis = "allowed",
             \/ call'.basis = "allowed"
             \/ call'.status = "consent_refused" /\ call'.transcript = {} /\ owed = <<>>,
             \A d \in Clerks : d # c => ~Doing(d, "open"), ~Doing(c, "assign"),
             \A t \in heard' : DetectPromises(t) \subseteq Owed
      PROVE  Serves(c, AtRest)
  <2>1. Turns(c, AtRest)
    BY <1>7, DeskTurns
  <2>2. Owed' = Owed /\ \A s : RowsOf(s)' = RowsOf(s)
    BY <1>7 DEF Owed, RowsOf
  <2>3. CallsRowsOK'
    BY <1>7, <2>2 DEF CallsRowsOK, RefusedLeavesNoTrace
  <2>4. CallsDeskOK'
    BY <1>1, <1>3, <1>7, <2>1, <2>2, CallsDeskStays
  <2>5. CallsSettle(c)
    BY <1>7, <2>2 DEF CallsSettle
  <2> QED
    BY <1>1, <2>1, <2>3, <2>4, <2>5
<1>8. ASSUME NEW c \in Clerks, BeginCall(c) PROVE \E next : Serves(c, next)
  <2>1. CASE call = NoCall /\ UNCHANGED callsRows /\ ~Doing(c, "open")
    <3>1. PICK allowed : Begins(c, [op |-> "open", permitted |-> allowed])
      BY <1>8, <2>1 DEF BeginCall
    <3>2. PICK next : next = [op |-> "open", permitted |-> allowed]
      OBVIOUS
    <3>3. Turns(c, next) /\ next.op = "open" /\ Doing(c, "none")
      BY <3>1, <3>2, DeskTurns
    <3>4. \A d \in Clerks : ~Doing(d, "open")
      BY <1>8, <2>1 DEF BeginCall
    <3>5. CallsRequestOK(next)'
      BY <2>1, <3>3 DEF CallsRequestOK, callsRows, Hearing
    <3>6. OneOpens'
      BY <3>3, <3>4 DEF OneOpens, Doing, Turns
    <3>7. TasksFollow'
      BY <2>1, <3>3 DEF CallsDeskOK, TasksFollow, IsAssigned, Doing, Turns, callsRows
    <3>8. OwedByTheirOwn'
      BY <1>3, <1>5, <2>1, <3>3, WaitingShrinks DEF CallsDeskOK
    <3> QED
      BY <1>5, <2>1, <3>3, <3>5, <3>6, <3>7, <3>8 DEF CallsDeskOK
  <2>2. CASE Doing(c, "open") /\ Finishes(c)
    <3>1. call = NoCall /\ owed = <<>>
      BY <1>2, <2>2 DEF CallsRequestOK, Doing, CallsRowsOK, RefusedLeavesNoTrace, NoCall
    <3>2. UNCHANGED <<owed, queued, heard, lostTask>>
      BY <1>8, <2>2 DEF BeginCall, Begins, Doing
    <3>3. PICK row \in CallRows :
            /\ call' = row /\ \/ row.basis = "allowed"
                              \/ row.status = "consent_refused" /\ row.transcript = {}
      <4>1. call' = IF request[c].permitted
                    THEN [call EXCEPT !.status = "recording", !.basis = "allowed"]
                    ELSE [call EXCEPT !.status = "consent_refused", !.basis = "refused"]
        BY <1>8, <2>2 DEF BeginCall, Begins, Doing
      <4>2. call' \in CallRows /\ \/ call'.basis = "allowed"
                                  \/ call'.status = "consent_refused" /\ call'.transcript = {}
        BY <1>3, <3>1, <4>1 DEF CallRows, NoCall
      <4> QED
        BY <4>2
    <3>4. call.basis # "allowed"
      BY <3>1 DEF NoCall
    <3>5. \A d \in Clerks : d # c => ~Doing(d, "open")
      BY <2>2 DEF CallsDeskOK, OneOpens
    <3>6. \A t \in heard' : DetectPromises(t) \subseteq Owed
      BY <3>2 DEF CallsRowsOK
    <3> QED
      BY <1>7, <2>2, <3>1, <3>2, <3>3, <3>4, <3>5, <3>6 DEF Doing
  <2> QED
    BY <1>8, <2>1, <2>2 DEF BeginCall, Begins, Doing
<1>9. ASSUME NEW c \in Clerks, AttachTranscript(c) PROVE \E next : Serves(c, next)
  <2>1. CASE call.status \notin {"none", "consent_refused"} /\ UNCHANGED callsRows /\ ~Doing(c, "attach")
    <3>1. PICK t \in Transcripts : Begins(c, [op |-> "attach", transcript |-> t])
      BY <1>9, <2>1 DEF AttachTranscript
    <3>2. PICK next : next = [op |-> "attach", transcript |-> t]
      OBVIOUS
    <3>3. Turns(c, next) /\ next.op = "attach" /\ Doing(c, "none") /\ next.transcript = t
      BY <3>1, <3>2, DeskTurns
    <3>4. CallsRequestOK(next)
      BY <2>1, <3>3 DEF CallsRequestOK, CallsRowsOK, RefusedLeavesNoTrace
    <3> QED
      BY <1>6, <2>1, <3>3, <3>4 DEF Doing
  <2>2. CASE /\ Doing(c, "attach") /\ Finishes(c)
             /\ call' = [call EXCEPT !.status = "captured", !.transcript = request[c].transcript]
             /\ UNCHANGED <<regime, consents, owed, queued, heard, lostTask>>
    <3>1. call.basis = "allowed" /\ request[c].transcript \in Transcripts
      BY <1>2, <2>2 DEF CallsRequestOK, Doing, Hearing
    <3>2. call' \in CallRows /\ call'.basis = "allowed"
      BY <1>3, <2>2, <3>1 DEF CallRows
    <3>3. \A t \in heard' : DetectPromises(t) \subseteq Owed
      BY <2>2 DEF CallsRowsOK
    <3> QED
      BY <1>4, <1>7, <2>2, <3>1, <3>2, <3>3 DEF Doing
  <2> QED
    BY <1>9, <2>1, <2>2 DEF AttachTranscript, Begins, Doing
<1>10. ASSUME NEW c \in Clerks, AnalyseCall(c) PROVE \E next : Serves(c, next)
  <2>1. CASE /\ call.transcript # {} /\ UNCHANGED callsRows
             /\ Begins(c, [op |-> "detect", transcript |-> call.transcript, now |-> today])
    <3>1. PICK next : next = [op |-> "detect", transcript |-> call.transcript, now |-> today]
      OBVIOUS
    <3>2. /\ Turns(c, next) /\ next.op = "detect" /\ Doing(c, "none")
          /\ next.transcript = call.transcript /\ next.now = today
      BY <2>1, <3>1, DeskTurns
    <3>3. CallsRequestOK(next)
      BY <1>3, <2>1, <3>2
         DEF CallsRequestOK, CallsRowsOK, RefusedLeavesNoTrace, CallRows
    <3> QED
      BY <1>6, <2>1, <3>2, <3>3 DEF Doing
  <2>2. CASE /\ Doing(c, "detect") /\ UNCHANGED callsRows
             /\ GoesOn(c, [op |-> "raise", transcript |-> request[c].transcript,
                           now |-> request[c].now, todo |-> Unseen(request[c].transcript)])
    <3>1. PICK t, now : t = request[c].transcript /\ now = request[c].now
      OBVIOUS
    <3>2. t \in Transcripts /\ now \in Nat /\ call.basis = "allowed"
      BY <1>2, <2>2, <3>1 DEF CallsRequestOK, Doing, Hearing
    <3>3. PICK todo : todo = Unseen(t)
      OBVIOUS
    <3>4. PICK next : next = [op |-> "raise", transcript |-> t, now |-> now, todo |-> todo]
      OBVIOUS
    <3>5. /\ Turns(c, next) /\ next.op = "raise" /\ next.transcript = t /\ next.now = now
          /\ next.todo = todo
      BY <2>2, <3>1, <3>3, <3>4, DeskTurns
    <3>6. todo \subseteq Sentences /\ todo \intersect Owed = {} /\ DetectPromises(t) \subseteq Owed \union todo
      BY <3>2, <3>3, PromisesAreSentences DEF Unseen
    <3>7. CallsRequestOK(next)'
      BY <1>5, <2>2, <3>2, <3>5, <3>6 DEF CallsRequestOK, callsRows, Owed
    <3>8. OneOpens'
      BY <3>5 DEF CallsDeskOK, OneOpens, Doing, Turns
    <3>9. TasksFollow'
      BY <2>2, <3>5 DEF CallsDeskOK, TasksFollow, IsAssigned, Doing, Turns, callsRows
    <3>10. OwedByTheirOwn'
      <4> SUFFICES ASSUME NEW s \in Sentences
                   PROVE  Cardinality(RowsOf(s)') + Cardinality(WaitingFor(s)') <= Cardinality(Clerks)
        BY DEF OwedByTheirOwn
      <4>1. RowsOf(s)' = RowsOf(s)
        BY <1>5, <2>2
      <4>2. CASE s \in todo
        <5>1. RowsOf(s) = {}
          BY <3>6, <4>2 DEF RowsOf, Owed
        <5>2. /\ Cardinality(WaitingFor(s)') \in Nat
              /\ Cardinality(WaitingFor(s)') <= Cardinality(Clerks)
          BY ClerksCounted DEF WaitingFor
        <5> QED
          BY <4>1, <5>1, <5>2, FS_EmptySet, ClerksCounted
      <4>3. CASE s \notin todo
        <5>1. WaitingFor(s)' \subseteq WaitingFor(s)
          <6>1. ASSUME NEW d \in WaitingFor(s)' PROVE d \in WaitingFor(s)
            BY <3>5, <4>3, <6>1 DEF WaitingFor, Turns
          <6> QED
            BY <6>1
        <5>2. IsFiniteSet(WaitingFor(s)) /\ Cardinality(WaitingFor(s)) \in Nat
          BY ClerksCounted DEF WaitingFor
        <5>3. IsFiniteSet(WaitingFor(s)') /\ Cardinality(WaitingFor(s)') <= Cardinality(WaitingFor(s))
          BY <5>1, <5>2, FS_Subset
        <5>4. Cardinality(WaitingFor(s)') \in Nat
          BY <5>3, FS_CardinalityType
        <5>5. Cardinality(RowsOf(s)) \in Nat
          BY <1>3, RowsAreCounted
        <5>6. Cardinality(RowsOf(s)) + Cardinality(WaitingFor(s)) <= Cardinality(Clerks)
          BY DEF CallsDeskOK, OwedByTheirOwn
        <5> QED
          BY <4>1, <5>2, <5>3, <5>4, <5>5, <5>6, ClerksCounted
      <4> QED
        BY <4>2, <4>3
    <3> QED
      BY <1>5, <2>2, <3>5, <3>7, <3>8, <3>9, <3>10 DEF CallsDeskOK
  <2>3. CASE /\ Doing(c, "raise")
             /\ \E s \in request[c].todo :
                  /\ owed' = Append(owed, Obligation(s, request[c].now))
                  /\ GoesOn(c, [op |-> "assign", transcript |-> request[c].transcript,
                                now |-> request[c].now, todo |-> request[c].todo \ {s},
                                row |-> Len(owed) + 1])
             /\ UNCHANGED <<regime, consents, call, queued, heard, lostTask>>
    <3>1. PICK t, now, todo : t = request[c].transcript /\ now = request[c].now /\ todo = request[c].todo
      OBVIOUS
    <3>2. /\ t \in Transcripts /\ now \in Nat /\ call.basis = "allowed" /\ todo \subseteq Sentences
          /\ DetectPromises(t) \subseteq Owed \union todo
      BY <1>2, <2>3, <3>1 DEF CallsRequestOK, Doing, Hearing
    <3>3. PICK s \in todo :
            /\ owed' = Append(owed, Obligation(s, now))
            /\ GoesOn(c, [op |-> "assign", transcript |-> t, now |-> now, todo |-> todo \ {s},
                          row |-> Len(owed) + 1])
      BY <2>3, <3>1
    <3>4. PICK n \in Nat : n = Len(owed) + 1
      BY <1>3
    <3>5. PICK next : next = [op |-> "assign", transcript |-> t, now |-> now, todo |-> todo \ {s},
                              row |-> n]
      OBVIOUS
    <3>6. /\ Turns(c, next) /\ next.op = "assign" /\ next.transcript = t /\ next.now = now
          /\ next.todo = todo \ {s} /\ next.row = n
      BY <3>3, <3>4, <3>5, DeskTurns
    <3>7. PICK row : row = Obligation(s, now)
      OBVIOUS
    <3>17. row \in ObligationRows /\ row.excerpt = s /\ DueAsItsWorst(row)
      <4>1. SeverityOf(s) \in {"critical", "serious"}
        BY DEF SeverityOf
      <4>2. PICK due \in Nat : due = now + CorrectionWindow[SeverityOf(s)]
        BY <3>2, <4>1, Windows
      <4>3. row = [excerpt |-> s, raised |-> now, status |-> "open", due |-> due]
        BY <3>7, <4>2 DEF Obligation
      <4> QED
        BY <3>2, <4>2, <4>3 DEF ObligationRows, DueAsItsWorst
    <3>8. /\ owed' \in Seq(ObligationRows) /\ DOMAIN owed' = DOMAIN owed \union {n}
          /\ n \notin DOMAIN owed /\ owed'[n] = row /\ \A i \in DOMAIN owed : owed'[i] = owed[i]
      BY <1>3, <3>3, <3>4, <3>7, <3>17
    <3>9. Owed' = Owed \union {s}
      <4>1. \A x \in Owed' : x \in Owed \union {s}
        BY <3>8, <3>17 DEF Owed
      <4>2. \A x \in Owed : x \in Owed'
        BY <3>8 DEF Owed
      <4>3. s \in Owed'
        BY <3>8, <3>17 DEF Owed
      <4> QED
        BY <4>1, <4>2, <4>3
    <3>10. UNCHANGED <<call, queued, heard, lostTask>>
      BY <2>3
    <3>11. CallsRowsOK'
      <4>1. \A i \in DOMAIN owed' : DueAsItsWorst(owed'[i])
        BY <3>8, <3>17 DEF CallsRowsOK
      <4>2. \A u \in heard' : DetectPromises(u) \subseteq Owed'
        BY <3>9, <3>10 DEF CallsRowsOK
      <4> QED
        BY <3>2, <3>8, <3>10, <4>1, <4>2 DEF CallsRowsOK, RefusedLeavesNoTrace
    <3>12. CallsRequestOK(next)'
      <4>1. DetectPromises(t) \subseteq Owed' \union (todo \ {s})
        BY <3>2, <3>9
      <4> QED
        BY <3>2, <3>6, <3>8, <3>10, <4>1 DEF CallsRequestOK
    <3>13. CallsSettle(c)
      BY <1>4, <3>2, <3>8, <3>9, <3>10 DEF CallsSettle
    <3>14. OneOpens'
      BY <3>6 DEF CallsDeskOK, OneOpens, Doing, Turns
    <3>15. TasksFollow'
      <4>1. SUFFICES ASSUME ~lostTask', NEW i \in DOMAIN owed' \ queued' PROVE IsAssigned(i)'
        BY DEF TasksFollow
      <4>2. CASE i = n
        BY <3>6, <4>2 DEF IsAssigned, Doing, Turns
      <4>3. CASE i # n
        <5>1. PICK d \in Clerks : Doing(d, "assign") /\ request[d].row = i
          BY <3>8, <3>10, <4>1, <4>3 DEF CallsDeskOK, TasksFollow, IsAssigned
        <5>2. d # c
          BY <2>3, <5>1 DEF Doing
        <5> QED
          BY <3>6, <5>1, <5>2 DEF IsAssigned, Doing, Turns
      <4> QED
        BY <4>2, <4>3
    <3>16. OwedByTheirOwn'
      <4> SUFFICES ASSUME NEW x \in Sentences
                   PROVE  Cardinality(RowsOf(x)') + Cardinality(WaitingFor(x)') <= Cardinality(Clerks)
        BY DEF OwedByTheirOwn
      <4>1. /\ IsFiniteSet(WaitingFor(x)) /\ Cardinality(WaitingFor(x)) \in Nat
        BY ClerksCounted DEF WaitingFor
      <4>2. IsFiniteSet(RowsOf(x)) /\ Cardinality(RowsOf(x)) \in Nat
        BY <1>3, RowsAreCounted
      <4>3. Cardinality(RowsOf(x)) + Cardinality(WaitingFor(x)) <= Cardinality(Clerks)
        BY DEF CallsDeskOK, OwedByTheirOwn
      <4>4. CASE x = s
        <5>1. RowsOf(x)' = RowsOf(x) \union {n} /\ n \notin RowsOf(x)
          BY <3>8, <3>17, <4>4 DEF RowsOf
        <5>2. Cardinality(RowsOf(x)') = Cardinality(RowsOf(x)) + 1
          BY <4>2, <5>1, FS_AddElement
        <5>3. c \in WaitingFor(x)
          BY <2>3, <3>1, <3>3, <4>4 DEF WaitingFor, Doing
        <5>4. WaitingFor(x)' = WaitingFor(x) \ {c}
          <6>1. \A d \in Clerks : d \in WaitingFor(x)' <=> d \in WaitingFor(x) /\ d # c
            BY <3>6, <4>4 DEF WaitingFor, Turns
          <6> QED
            BY <6>1 DEF WaitingFor
        <5>5. Cardinality(WaitingFor(x)') = Cardinality(WaitingFor(x)) - 1
          BY <4>1, <5>3, <5>4, FS_RemoveElement
        <5> QED
          BY <4>1, <4>2, <4>3, <5>2, <5>5, ClerksCounted
      <4>5. CASE x # s
        <5>1. RowsOf(x)' = RowsOf(x)
          BY <3>8, <3>17, <4>5 DEF RowsOf
        <5>2. WaitingFor(x)' = WaitingFor(x)
          <6>1. \A d \in Clerks : d \in WaitingFor(x)' <=> d \in WaitingFor(x)
            BY <2>3, <3>1, <3>6, <4>5 DEF WaitingFor, Turns, Doing
          <6> QED
            BY <6>1 DEF WaitingFor
        <5> QED
          BY <4>3, <5>1, <5>2
      <4> QED
        BY <4>4, <4>5
    <3> QED
      BY <3>6, <3>11, <3>12, <3>13, <3>14, <3>15, <3>16 DEF CallsDeskOK
  <2>4. CASE /\ Doing(c, "assign") /\ queued' = queued \union {request[c].row}
             /\ GoesOn(c, [op |-> "raise", transcript |-> request[c].transcript,
                           now |-> request[c].now, todo |-> request[c].todo])
             /\ UNCHANGED <<regime, consents, call, owed, heard, lostTask>>
    <3>1. PICK t, now, todo : t = request[c].transcript /\ now = request[c].now /\ todo = request[c].todo
      OBVIOUS
    <3>2. /\ t \in Transcripts /\ now \in Nat /\ call.basis = "allowed" /\ todo \subseteq Sentences
          /\ DetectPromises(t) \subseteq Owed \union todo /\ request[c].row \in DOMAIN owed
      BY <1>2, <2>4, <3>1 DEF CallsRequestOK, Doing, Hearing
    <3>3. PICK next : next = [op |-> "raise", transcript |-> t, now |-> now, todo |-> todo]
      OBVIOUS
    <3>4. /\ Turns(c, next) /\ next.op = "raise" /\ next.transcript = t /\ next.now = now
          /\ next.todo = todo
      BY <2>4, <3>1, <3>3, DeskTurns
    <3>5. Owed' = Owed /\ \A s : RowsOf(s)' = RowsOf(s)
      BY <2>4 DEF Owed, RowsOf
    <3>6. CallsRowsOK'
      BY <2>4, <3>2, <3>5 DEF CallsRowsOK, RefusedLeavesNoTrace
    <3>7. CallsRequestOK(next)'
      BY <2>4, <3>2, <3>4, <3>5 DEF CallsRequestOK
    <3>8. CallsSettle(c)
      BY <1>4, <2>4, <3>2, <3>5 DEF CallsSettle
    <3>9. \A s : s \in next.todo => c \in WaitingFor(s)
      BY <2>4, <3>1, <3>4 DEF WaitingFor, Doing
    <3>10. CallsDeskOK'
      BY <1>3, <2>4, <3>4, <3>5, <3>9, CallsDeskStays
    <3> QED
      BY <3>4, <3>6, <3>7, <3>8, <3>10
  <2>5. CASE /\ Doing(c, "raise") /\ request[c].todo = {} /\ Finishes(c)
             /\ call' = [call EXCEPT !.status = "analysed"]
             /\ heard' = heard \union {request[c].transcript}
             /\ UNCHANGED <<regime, consents, owed, queued, lostTask>>
    <3>1. call.basis = "allowed" /\ DetectPromises(request[c].transcript) \subseteq Owed
      BY <1>2, <2>5 DEF CallsRequestOK, Doing, Hearing
    <3>2. call' \in CallRows /\ call'.basis = "allowed"
      BY <1>3, <2>5, <3>1 DEF CallRows
    <3>3. \A t \in heard' : DetectPromises(t) \subseteq Owed
      BY <2>5, <3>1 DEF CallsRowsOK
    <3> QED
      BY <1>4, <1>7, <2>5, <3>1, <3>2, <3>3 DEF Doing
  <2> QED
    BY <1>10, <2>1, <2>2, <2>3, <2>4, <2>5 DEF AnalyseCall
<1>11. ASSUME NEW c \in Clerks, CloseObligation(c) PROVE \E next : Serves(c, next)
  <2>1. CASE UNCHANGED callsRows /\ ~Doing(c, "close")
    <3>1. PICK i \in DOMAIN owed, how \in {"corrected", "dismissed"} :
             owed[i].status = "open" /\ Begins(c, [op |-> "close", row |-> i, how |-> how])
      BY <1>11, <2>1 DEF CloseObligation
    <3>2. PICK next : next = [op |-> "close", row |-> i, how |-> how]
      OBVIOUS
    <3>3. Turns(c, next) /\ next.op = "close" /\ Doing(c, "none") /\ next.row = i /\ next.how = how
      BY <3>1, <3>2, DeskTurns
    <3>4. call.basis = "allowed"
      BY <3>1, NoneOwed DEF CallsRowsOK, RefusedLeavesNoTrace
    <3>5. CallsRequestOK(next)
      BY <3>1, <3>3, <3>4 DEF CallsRequestOK
    <3> QED
      BY <1>6, <2>1, <3>3, <3>5 DEF Doing
  <2>2. CASE /\ Doing(c, "close") /\ Finishes(c)
             /\ owed' = [owed EXCEPT ![request[c].row].status = request[c].how]
             /\ UNCHANGED <<regime, consents, call, queued, heard, lostTask>>
    <3>1. PICK i, how : i = request[c].row /\ how = request[c].how
      OBVIOUS
    <3>2. i \in DOMAIN owed /\ how \in {"corrected", "dismissed"} /\ call.basis = "allowed"
      BY <1>2, <2>2, <3>1 DEF CallsRequestOK, Doing, Hearing
    <3>3. PICK was \in ObligationRows : was = owed[i]
      BY <1>3, <3>2
    <3>4. PICK row : row = [was EXCEPT !.status = how]
      OBVIOUS
    <3>13. /\ row \in ObligationRows /\ row.excerpt = was.excerpt
           /\ row.due = was.due /\ row.raised = was.raised
      BY <3>2, <3>4 DEF ObligationRows
    <3>5. owed' = [owed EXCEPT ![i] = row]
      BY <1>3, <2>2, <3>1, <3>2, <3>3, <3>4
    <3>6. /\ owed' \in Seq(ObligationRows) /\ DOMAIN owed' = DOMAIN owed /\ owed'[i] = row
          /\ \A j \in DOMAIN owed : j # i => owed'[j] = owed[j]
      BY <1>3, <3>2, <3>5, <3>13
    <3>7. \A j \in DOMAIN owed : /\ owed'[j].excerpt = owed[j].excerpt /\ owed'[j].due = owed[j].due
                                 /\ owed'[j].raised = owed[j].raised
      BY <3>3, <3>6, <3>13
    <3>8. Owed' = Owed /\ \A s : RowsOf(s)' = RowsOf(s)
      <4>1. \A s : RowsOf(s)' = RowsOf(s)
        BY <3>6, <3>7 DEF RowsOf
      <4>2. \A x : x \in Owed' <=> x \in Owed
        BY <3>6, <3>7 DEF Owed
      <4> QED
        BY <4>1, <4>2
    <3>9. CallsRowsOK'
      <4>1. \A j \in DOMAIN owed' : DueAsItsWorst(owed'[j])
        BY <3>6, <3>7 DEF CallsRowsOK, DueAsItsWorst
      <4> QED
        BY <2>2, <3>2, <3>6, <3>8, <4>1 DEF CallsRowsOK, RefusedLeavesNoTrace
    <3>10. Turns(c, AtRest) /\ ~Doing(c, "assign")
      BY <2>2, DeskTurns DEF Doing
    <3>11. CallsDeskOK'
      BY <1>1, <1>3, <2>2, <3>6, <3>8, <3>10, CallsDeskStays
    <3>12. CallsSettle(c)
      BY <1>4, <2>2, <3>2, <3>6, <3>8 DEF CallsSettle
    <3> QED
      BY <1>1, <3>9, <3>10, <3>11, <3>12
  <2> QED
    BY <1>11, <2>1, <2>2 DEF CloseObligation, Begins, Doing
<1>12. ASSUME NEW c \in Clerks, AnalystDies(c) PROVE \E next : Serves(c, next)
  <2>1. /\ Turns(c, AtRest) /\ lostTask' = (lostTask \/ Doing(c, "assign"))
        /\ UNCHANGED <<call, owed, queued, heard>>
    BY <1>12, DeskTurns DEF AnalystDies
  <2>2. lostTask' \in BOOLEAN
    BY <2>1, Zenon
  <2>3. Owed' = Owed /\ \A s : RowsOf(s)' = RowsOf(s)
    BY <2>1 DEF Owed, RowsOf
  <2>4. CallsRowsOK'
    BY <2>1, <2>2, <2>3 DEF CallsRowsOK, RefusedLeavesNoTrace
  <2>5. lostTask' \/ (~lostTask' /\ ~lostTask /\ ~Doing(c, "assign"))
    BY <2>1
  <2>6. CallsDeskOK'
    BY <1>1, <1>3, <2>1, <2>3, <2>5, CallsDeskStays
  <2>7. CallsSettle(c)
    BY <1>2, <2>1, <2>3 DEF CallsSettle, CallsRequestOK, Doing
  <2> QED
    BY <1>1, <2>1, <2>4, <2>6, <2>7
<1>13. CASE (DayPasses /\ UNCHANGED callsRows) \/ RevokeRecordingConsent
  <2>1. RequestsOK' /\ request' = request /\ today' \in Nat
    BY <1>13, DayIsCounted, RequestsStay DEF RevokeRecordingConsent, deskVars
  <2>2. UNCHANGED <<call, owed, queued, heard, lostTask>>
    BY <1>13 DEF RevokeRecordingConsent, callsRows
  <2>3. Owed' = Owed /\ \A s : RowsOf(s)' = RowsOf(s) /\ WaitingFor(s)' = WaitingFor(s)
    BY <2>1, <2>2 DEF Owed, RowsOf, WaitingFor
  <2>4. CallsRowsOK'
    BY <2>2, <2>3 DEF CallsRowsOK, RefusedLeavesNoTrace
  <2>5. CallsDeskOK'
    BY <2>1, <2>2, <2>3
       DEF CallsDeskOK, OneOpens, TasksFollow, IsAssigned, OwedByTheirOwn, Doing
  <2>6. CallsRequestsOK'
    BY <2>1, <2>2, <2>3 DEF CallsRequestsOK, CallsRequestOK
  <2> QED
    BY <2>1, <2>4, <2>5, <2>6
<1>14. CASE ~((DayPasses /\ UNCHANGED callsRows) \/ RevokeRecordingConsent)
  <2>1. PICK c, next : c \in Clerks /\ Serves(c, next)
    BY <1>8, <1>9, <1>10, <1>11, <1>12, <1>14 DEF CallsNext
  <2>2. CallsRequestsOK'
    BY <2>1, CallsRequestsKept
  <2> QED
    BY <2>1, <2>2 DEF Turns
<1> QED
  BY <1>13, <1>14

-----------------------------------------------------------------------------
(***************************************************************************)
(* A document of a client.  A hold that was in force stays so until it is  *)
(* released, so whoever found none in force after reading the row knows    *)
(* what it had read of as released.                                        *)
(***************************************************************************)
Scopes == {"tenant", "client", "this kind", "other kind"}
CoveringScopes == {"tenant", "client", "this kind"}
Dates == {{}} \union {{day} : day \in Nat}
VaultRows == [stored : BOOLEAN, scan : {"pending", "clean", "infected"}, hold : BOOLEAN,
              until : Dates, deleted : BOOLEAN]
ScheduleRows == [days : Nat, verified : SUBSET Nat]
KnownSets == [matters : SUBSET Holds, own : BOOLEAN]
Removals == [op : {"refuse", "remove", "resolve", "delete"}, until : Dates, known : KnownSets]
Judgements == [op : {"decide"}, as : {"eligible", "refused", "approved"}, matters : SUBSET Holds]

RecordsRowsOK ==
    /\ blob \in BOOLEAN /\ document \in VaultRows /\ hold \in [Holds -> Scopes \union {"none", "released"}]
    /\ schedule \in Seq(ScheduleRows) /\ copies \in Nat
    /\ asked \in {"none", "received", "approved", "refused", "completed"}
    /\ StoredIsReadable

Scheduling == {c \in Clerks : Doing(c, "schedule")}

\* Each live row was made by somebody who had superseded what there was.
RecordsDeskOK == Len(schedule) + Cardinality(Scheduling) <= Cardinality(Clerks)

RecordsRequestOK(r) ==
    /\ r.op = "store" => blob
    /\ r.op = "schedule" => r.row \in ScheduleRows
    /\ r.op \in {"refuse", "remove", "resolve", "delete"} => r \in Removals
    /\ r.op \in {"remove", "resolve", "delete"} =>
          ~r.known.own /\ \A h \in r.known.matters : hold[h] \in CoveringScopes \union {"released"}
    /\ r.op \in {"resolve", "delete"} => \A h \in r.known.matters : hold[h] = "released"
    /\ r.op = "export" => r.known.own = r.row.hold
    /\ r.op = "decide" =>
          /\ r \in Judgements /\ \A h \in r.matters : hold[h] \in Scopes \union {"released"}
          /\ r.as = "approved" => \A h \in r.matters : hold[h] = "released"

RecordsRequestsOK == \A c \in Clerks : RecordsRequestOK(request[c])

\* What no step undoes.
RecordsSettle ==
    /\ blob => blob'
    /\ \A h \in Holds : hold[h] \in Scopes => hold'[h] \in {hold[h], "released"}
    /\ \A h \in Holds : hold[h] = "released" => hold'[h] = "released"

\* What HoldsPreserve says of c's own step.
Preserves(c) ==
    /\ Doing(c, "delete") /\ document' # document =>
          request[c].known.matters \intersect Covering = {} /\ ~request[c].known.own
    /\ Doing(c, "export") /\ copies' # copies =>
          request[c].known.matters \intersect Covering = {} /\ ~request[c].known.own
    /\ Doing(c, "decide") /\ asked' = "approved" /\ asked # asked' =>
          request[c].matters \intersect InForce = {}

HoldsPreserved == \A c \in Clerks : request'[c] = AtRest => Preserves(c)

LEMMA RecordsInitOK ==
    ASSUME RecordsInit, request = [c \in Clerks |-> AtRest]
    PROVE  RecordsRowsOK /\ RecordsDeskOK /\ RecordsRequestsOK
<1>1. RecordsRowsOK
  <2>1. document \in VaultRows /\ StoredIsReadable
    BY DEF RecordsInit, VaultRows, Dates, StoredIsReadable
  <2>2. schedule \in Seq(ScheduleRows)
    BY DEF RecordsInit
  <2>3. hold \in [Holds -> Scopes \union {"none", "released"}]
    BY DEF RecordsInit
  <2> QED
    BY <2>1, <2>2, <2>3 DEF RecordsInit, RecordsRowsOK
<1>2. Scheduling = {} /\ Len(schedule) = 0
  BY DEF RecordsInit, Scheduling, Doing, AtRest
<1>3. RecordsDeskOK
  BY <1>2, FS_EmptySet, ClerksCounted DEF RecordsDeskOK
<1>4. RecordsRequestsOK
  BY DEF RecordsRequestsOK, RecordsRequestOK, AtRest
<1> QED
  BY <1>1, <1>3, <1>4

LEMMA DatesAreOne ==
    ASSUME NEW dates \in Dates
    PROVE  Cardinality(dates) <= 1
<1>1. CASE dates = {}
  BY <1>1, FS_EmptySet
<1>2. CASE \E day \in Nat : dates = {day}
  <2>1. PICK day \in Nat : dates = {day}
    BY <1>2
  <2>2. Cardinality({day}) = 1
    BY FS_Singleton
  <2> QED
    BY <2>1, <2>2
<1> QED
  BY <1>1, <1>2 DEF Dates

LEMMA RecordsAgree ==
    ASSUME RecordsRowsOK, RecordsDeskOK
    PROVE  RecordsTypeOK /\ StoredIsReadable
<1>1. document.scan \in {"pending", "clean", "infected"} /\ Cardinality(document.until) <= 1
  <2>1. document \in VaultRows
    BY DEF RecordsRowsOK
  <2> QED
    BY <2>1, DatesAreOne DEF VaultRows
<1>2. Len(schedule) <= Cardinality(Clerks)
  <2>1. Len(schedule) \in Nat /\ Cardinality(Scheduling) \in Nat
    BY ClerksCounted DEF RecordsRowsOK, Scheduling
  <2> QED
    BY <2>1, ClerksCounted DEF RecordsDeskOK
<1> QED
  BY <1>1, <1>2 DEF RecordsRowsOK, RecordsTypeOK

LEMMA RecordsRequestStands ==
    ASSUME NEW r, RecordsRequestOK(r), RecordsSettle
    PROVE  RecordsRequestOK(r)'
<1>1. \A h \in Holds : hold[h] \in CoveringScopes => hold'[h] \in CoveringScopes \union {"released"}
  BY DEF RecordsSettle, CoveringScopes, Scopes
<1>2. \A h \in Holds : hold[h] \in Scopes => hold'[h] \in Scopes \union {"released"}
  BY DEF RecordsSettle
<1>3. \A h \in Holds : hold[h] = "released" => hold'[h] = "released"
  BY DEF RecordsSettle
<1>4. r.op \in {"remove", "resolve", "delete"} =>
          /\ ~r.known.own /\ \A h \in r.known.matters : hold'[h] \in CoveringScopes \union {"released"}
          /\ r.op \in {"resolve", "delete"} => \A h \in r.known.matters : hold'[h] = "released"
  <2>1. r.op \in {"remove", "resolve", "delete"} => r.known.matters \subseteq Holds
    BY DEF RecordsRequestOK, Removals, KnownSets
  <2> QED
    BY <1>1, <1>3, <2>1 DEF RecordsRequestOK
<1>5. r.op = "decide" =>
          /\ \A h \in r.matters : hold'[h] \in Scopes \union {"released"}
          /\ r.as = "approved" => \A h \in r.matters : hold'[h] = "released"
  <2>1. r.op = "decide" => r.matters \subseteq Holds
    BY DEF RecordsRequestOK, Judgements
  <2> QED
    BY <1>2, <1>3, <2>1 DEF RecordsRequestOK
<1> QED
  BY <1>4, <1>5 DEF RecordsRequestOK, RecordsSettle

LEMMA RecordsRequestsKept ==
    ASSUME NEW c \in Clerks, NEW next, Turns(c, next), RecordsRequestsOK, RecordsRequestOK(next)',
           RecordsSettle
    PROVE  RecordsRequestsOK'
<1>1. ASSUME NEW d \in Clerks PROVE RecordsRequestOK(request[d])'
  <2>1. CASE d = c
    BY <2>1, Zenon DEF Turns, RecordsRequestOK
  <2>2. CASE d # c
    BY <2>2, RecordsRequestStands DEF Turns, RecordsRequestsOK
  <2> QED
    BY <2>1, <2>2
<1> QED
  BY <1>1 DEF RecordsRequestsOK

\* Nobody but who acts puts an operation to rest.
LEMMA OnlyOwnSteps ==
    ASSUME NEW c \in Clerks, NEW next, Turns(c, next), Preserves(c)
    PROVE  HoldsPreserved
<1> SUFFICES ASSUME NEW d \in Clerks, request'[d] = AtRest, d # c PROVE Preserves(d)
  BY DEF HoldsPreserved
<1>1. request[d] = AtRest
  BY DEF Turns
<1> QED
  BY <1>1 DEF Preserves, Doing, AtRest

LEMMA SchedulingStays ==
    ASSUME RecordsDeskOK, RecordsRowsOK, NEW c \in Clerks, NEW next, Turns(c, next),
           next.op = "schedule" => Doing(c, "schedule"),
           Len(schedule') = Len(schedule)
    PROVE  RecordsDeskOK'
<1>1. Scheduling' \subseteq Scheduling
  <2>1. ASSUME NEW d \in Clerks, Doing(d, "schedule")' PROVE Doing(d, "schedule")
    BY <2>1 DEF Doing, Turns
  <2> QED
    BY <2>1 DEF Scheduling
<1>2. IsFiniteSet(Scheduling) /\ Cardinality(Scheduling) \in Nat
  BY ClerksCounted DEF Scheduling
<1>3. IsFiniteSet(Scheduling') /\ Cardinality(Scheduling') <= Cardinality(Scheduling)
  BY <1>1, <1>2, FS_Subset
<1>4. Cardinality(Scheduling') \in Nat
  BY <1>3, FS_CardinalityType
<1>5. Len(schedule) \in Nat
  BY DEF RecordsRowsOK
<1> QED
  BY <1>2, <1>3, <1>4, <1>5, ClerksCounted DEF RecordsDeskOK

LEMMA RecordsStep ==
    ASSUME RequestsOK, today \in Nat, RecordsRowsOK, RecordsDeskOK, RecordsRequestsOK, RecordsNext
    PROVE  /\ RequestsOK' /\ today' \in Nat /\ RecordsRowsOK' /\ RecordsDeskOK' /\ RecordsRequestsOK'
           /\ HoldsPreserved
<1> DEFINE Serves(c, next) == /\ Turns(c, next) /\ RecordsRowsOK' /\ RecordsDeskOK'
                              /\ RecordsRequestOK(next)' /\ RecordsSettle /\ Preserves(c)
<1>1. RecordsRequestOK(AtRest)' /\ AtRest.op = "none"
  BY DEF RecordsRequestOK, AtRest
<1>2. ASSUME NEW c \in Clerks PROVE RecordsRequestOK(request[c])
  BY DEF RecordsRequestsOK
<1>3. /\ blob \in BOOLEAN /\ document \in VaultRows /\ schedule \in Seq(ScheduleRows) /\ copies \in Nat
      /\ hold \in [Holds -> Scopes \union {"none", "released"}]
      /\ asked \in {"none", "received", "approved", "refused", "completed"} /\ (document.stored => blob)
  BY DEF RecordsRowsOK, StoredIsReadable
\* A request that only looks.
<1>4. ASSUME NEW c \in Clerks, NEW next, Turns(c, next), UNCHANGED recordsRows,
             next.op # "schedule", RecordsRequestOK(next)
      PROVE  Serves(c, next)
  <2>1. UNCHANGED <<blob, document, hold, schedule, asked, copies>>
    BY <1>4 DEF recordsRows
  <2>2. RecordsRowsOK' /\ RecordsSettle /\ Preserves(c)
    BY <2>1 DEF RecordsRowsOK, RecordsSettle, Preserves, StoredIsReadable
  <2>3. RecordsDeskOK'
    BY <1>4, <2>1, SchedulingStays
  <2> QED
    BY <1>4, <2>2, <2>3, RecordsRequestStands
\* The document's row changes, and no hold or schedule.
<1>5. ASSUME NEW c \in Clerks, NEW row \in VaultRows, Turns(c, AtRest), document' = row,
             UNCHANGED <<blob, hold, schedule, asked, copies>>, row.stored => blob,
             Doing(c, "delete") => Preserves(c)
      PROVE  Serves(c, AtRest)
  <2>1. RecordsRowsOK' /\ RecordsSettle /\ Preserves(c)
    BY <1>5 DEF RecordsRowsOK, RecordsSettle, Preserves, StoredIsReadable
  <2>2. RecordsDeskOK'
    BY <1>1, <1>5, SchedulingStays
  <2> QED
    BY <1>1, <1>5, <2>1, <2>2
<1>6. ASSUME NEW c \in Clerks, Store(c) PROVE \E next : Serves(c, next)
  <2>1. CASE UNCHANGED recordsRows /\ Begins(c, [op |-> "put"])
    <3>1. PICK next : next = [op |-> "put"]
      OBVIOUS
    <3>2. Turns(c, next) /\ next.op = "put"
      BY <2>1, <3>1, DeskTurns
    <3>3. RecordsRequestOK(next)
      BY <3>2 DEF RecordsRequestOK
    <3> QED
      BY <1>4, <2>1, <3>2, <3>3
  <2>2. CASE /\ Doing(c, "put") /\ blob' = TRUE /\ GoesOn(c, [op |-> "store"])
             /\ UNCHANGED <<document, hold, schedule, asked, copies>>
    <3>1. PICK next : next = [op |-> "store"]
      OBVIOUS
    <3>2. Turns(c, next) /\ next.op = "store"
      BY <2>2, <3>1, DeskTurns
    <3>3. RecordsRequestOK(next)'
      BY <2>2, <3>2 DEF RecordsRequestOK
    <3>4. RecordsRowsOK' /\ RecordsSettle /\ Preserves(c)
      BY <2>2 DEF RecordsRowsOK, RecordsSettle, Preserves, StoredIsReadable
    <3>5. RecordsDeskOK'
      BY <2>2, <3>2, SchedulingStays
    <3> QED
      BY <3>2, <3>3, <3>4, <3>5
  <2>3. CASE /\ Doing(c, "store") /\ document' = [document EXCEPT !.stored = TRUE] /\ Finishes(c)
             /\ UNCHANGED <<blob, hold, schedule, asked, copies>>
    <3>1. PICK row \in VaultRows : row = [document EXCEPT !.stored = TRUE]
      BY <1>3 DEF VaultRows
    <3>2. blob
      BY <1>2, <2>3 DEF RecordsRequestOK, Doing
    <3> QED
      BY <1>5, <2>3, <3>1, <3>2, DeskTurns DEF Doing
  <2> QED
    BY <1>6, <2>1, <2>2, <2>3 DEF Store
<1>7. ASSUME NEW c \in Clerks, RecordScanResult(c) \/ SetLegalHold(c) \/ SetRetention(c)
      PROVE \E next : Serves(c, next)
  <2>1. PICK row \in VaultRows : document' = row /\ (row.stored => document.stored)
    <3>1. CASE RecordScanResult(c)
      BY <1>3, <3>1 DEF RecordScanResult, VaultRows
    <3>2. CASE SetLegalHold(c)
      BY <1>3, <3>2 DEF SetLegalHold, VaultRows
    <3>3. CASE SetRetention(c)
      <4>1. PICK day \in 0..LastDay : document' = [document EXCEPT !.until = {day}]
        BY <3>3 DEF SetRetention
      <4>2. {day} \in Dates
        BY <4>1 DEF Dates
      <4>3. PICK dates \in Dates : dates = {day}
        BY <4>2
      <4>4. document' \in VaultRows /\ document'.stored = document.stored
        BY <1>3, <4>1, <4>3 DEF VaultRows
      <4> QED
        BY <4>4
    <3> QED
      BY <1>7, <3>1, <3>2, <3>3
  <2>2. /\ Turns(c, AtRest) /\ Doing(c, "none") /\ UNCHANGED <<blob, hold, schedule, asked, copies>>
    BY <1>7, DeskTurns DEF RecordScanResult, SetLegalHold, SetRetention
  <2> QED
    BY <1>3, <1>5, <2>1, <2>2 DEF Doing
<1>8. ASSUME NEW c \in Clerks, PlaceHold(c) PROVE \E next : Serves(c, next)
  <2>1. PICK h \in Holds, scope \in Scopes :
          hold[h] = "none" /\ Begins(c, AtRest) /\ hold' = [hold EXCEPT ![h] = scope]
    BY <1>8 DEF PlaceHold, Scopes
  <2>2. Turns(c, AtRest) /\ Doing(c, "none") /\ UNCHANGED <<blob, document, schedule, asked, copies>>
    BY <1>8, <2>1, DeskTurns DEF PlaceHold
  <2>3. RecordsRowsOK' /\ RecordsSettle /\ Preserves(c)
    BY <1>3, <2>1, <2>2 DEF RecordsRowsOK, RecordsSettle, Preserves, StoredIsReadable, Scopes
  <2>4. RecordsDeskOK'
    BY <1>1, <2>2, SchedulingStays
  <2> QED
    BY <1>1, <2>2, <2>3, <2>4
<1>9. ASSUME NEW c \in Clerks, ReleaseHold(c) PROVE \E next : Serves(c, next)
  <2>1. CASE \E h \in InForce : Begins(c, [op |-> "release", on |-> h]) /\ UNCHANGED recordsRows
    <3>1. PICK h \in InForce : Begins(c, [op |-> "release", on |-> h]) /\ UNCHANGED recordsRows
      BY <2>1
    <3>2. PICK next : next = [op |-> "release", on |-> h]
      OBVIOUS
    <3>3. Turns(c, next) /\ next.op = "release"
      BY <3>1, <3>2, DeskTurns
    <3>4. RecordsRequestOK(next)
      BY <3>3 DEF RecordsRequestOK
    <3> QED
      BY <1>4, <3>1, <3>3, <3>4
  <2>2. CASE /\ Doing(c, "release") /\ hold' = [hold EXCEPT ![request[c].on] = "released"]
             /\ Finishes(c) /\ UNCHANGED <<blob, document, schedule, asked, copies>>
    <3>1. Turns(c, AtRest)
      BY <2>2, DeskTurns
    <3>2. RecordsRowsOK' /\ RecordsSettle /\ Preserves(c)
      BY <1>3, <2>2 DEF RecordsRowsOK, RecordsSettle, Preserves, StoredIsReadable
    <3>3. RecordsDeskOK'
      BY <1>1, <2>2, <3>1, SchedulingStays
    <3> QED
      BY <1>1, <3>1, <3>2, <3>3
  <2> QED
    BY <1>9, <2>1, <2>2 DEF ReleaseHold
<1>10. ASSUME NEW c \in Clerks, RecordSchedule(c) PROVE \E next : Serves(c, next)
  <2>1. CASE schedule' = <<>> /\ UNCHANGED <<blob, document, hold, asked, copies>> /\ ~Doing(c, "schedule")
    <3>1. PICK days \in 1..LastDay, verified \in {{}} \union {{day} : day \in 0..today} :
             Begins(c, [op |-> "schedule", row |-> [days |-> days, verified |-> verified]])
      BY <1>10, <2>1 DEF RecordSchedule
    <3>2. PICK row : row = [days |-> days, verified |-> verified]
      OBVIOUS
    <3>3. PICK next : next = [op |-> "schedule", row |-> row]
      OBVIOUS
    <3>4. Turns(c, next) /\ next.op = "schedule" /\ next.row = row /\ Doing(c, "none")
      BY <3>1, <3>2, <3>3, DeskTurns
    <3>5. row \in ScheduleRows
      <4>1. verified \in SUBSET Nat
        BY <3>1
      <4>2. days \in Nat
        BY <3>1
      <4> QED
        BY <3>2, <4>1, <4>2 DEF ScheduleRows
    <3>6. RecordsRequestOK(next)'
      BY <3>4, <3>5 DEF RecordsRequestOK
    <3>7. schedule' \in Seq(ScheduleRows) /\ Len(schedule') = 0
      BY <2>1
    <3>8. RecordsRowsOK' /\ RecordsSettle /\ Preserves(c)
      BY <1>3, <2>1, <3>4, <3>7
         DEF RecordsRowsOK, RecordsSettle, Preserves, StoredIsReadable, Doing
    <3>9. Cardinality(Scheduling') \in Nat /\ Cardinality(Scheduling') <= Cardinality(Clerks)
      BY ClerksCounted DEF Scheduling
    <3> QED
      BY <3>4, <3>6, <3>7, <3>8, <3>9, ClerksCounted DEF RecordsDeskOK
  <2>2. CASE /\ Doing(c, "schedule") /\ schedule' = Append(schedule, request[c].row)
             /\ Finishes(c) /\ UNCHANGED <<blob, document, hold, asked, copies>>
    <3>1. Turns(c, AtRest) /\ request[c].row \in ScheduleRows
      BY <1>2, <2>2, DeskTurns DEF RecordsRequestOK, Doing
    <3>2. schedule' \in Seq(ScheduleRows) /\ Len(schedule') = Len(schedule) + 1
      BY <1>3, <2>2, <3>1
    <3>3. RecordsRowsOK' /\ RecordsSettle /\ Preserves(c)
      BY <1>3, <2>2, <3>2 DEF RecordsRowsOK, RecordsSettle, Preserves, StoredIsReadable, Doing
    <3>4. c \in Scheduling
      BY <2>2 DEF Scheduling
    <3>5. Scheduling' = Scheduling \ {c}
      <4>1. \A d \in Clerks : d \in Scheduling' <=> d \in Scheduling /\ d # c
        BY <1>1, <3>1 DEF Scheduling, Doing, Turns
      <4> QED
        BY <4>1 DEF Scheduling
    <3>6. IsFiniteSet(Scheduling) /\ Cardinality(Scheduling) \in Nat
      BY ClerksCounted DEF Scheduling
    <3>7. Cardinality(Scheduling') = Cardinality(Scheduling) - 1
      BY <3>4, <3>5, <3>6, FS_RemoveElement
    <3>8. Len(schedule) \in Nat
      BY <1>3
    <3> QED
      BY <1>1, <3>1, <3>2, <3>3, <3>6, <3>7, <3>8, ClerksCounted DEF RecordsDeskOK
  <2> QED
    BY <1>10, <2>1, <2>2, DeskTurns DEF RecordSchedule, Doing
<1>11. ASSUME NEW c \in Clerks, Export(c) PROVE \E next : Serves(c, next)
  <2>1. CASE Begins(c, [op |-> "export", row |-> document, known |-> KnownHolds]) /\ UNCHANGED recordsRows
    <3>1. PICK known : known = KnownHolds
      OBVIOUS
    <3>2. PICK next : next = [op |-> "export", row |-> document, known |-> known]
      OBVIOUS
    <3>3. Turns(c, next) /\ next.op = "export" /\ next.row = document /\ next.known = known
      BY <2>1, <3>1, <3>2, DeskTurns
    <3>4. RecordsRequestOK(next)
      BY <3>1, <3>3 DEF RecordsRequestOK, KnownHolds
    <3> QED
      BY <1>4, <2>1, <3>3, <3>4
  <2>2. CASE /\ Doing(c, "export") /\ Finishes(c)
             /\ copies' = IF request[c].row.hold \/ Covering # {} THEN copies ELSE copies + 1
             /\ UNCHANGED <<blob, document, hold, schedule, asked>>
    <3>1. Turns(c, AtRest) /\ request[c].known.own = request[c].row.hold
      BY <1>2, <2>2, DeskTurns DEF RecordsRequestOK, Doing
    <3>2. Preserves(c)
      BY <2>2, <3>1 DEF Preserves
    <3>3. RecordsRowsOK' /\ RecordsSettle
      BY <1>3, <2>2 DEF RecordsRowsOK, RecordsSettle, StoredIsReadable
    <3>4. RecordsDeskOK'
      BY <1>1, <2>2, <3>1, SchedulingStays
    <3> QED
      BY <1>1, <3>1, <3>2, <3>3, <3>4
  <2> QED
    BY <1>11, <2>1, <2>2 DEF Export
<1>12. ASSUME NEW c \in Clerks, ExportToClient(c) PROVE \E next : Serves(c, next)
  <2>1. CASE Begins(c, [op |-> "hand out", known |-> KnownHolds]) /\ UNCHANGED recordsRows
    <3>1. PICK next : next = [op |-> "hand out", known |-> KnownHolds]
      OBVIOUS
    <3>2. Turns(c, next) /\ next.op = "hand out"
      BY <2>1, <3>1, DeskTurns
    <3>3. RecordsRequestOK(next)
      BY <3>2 DEF RecordsRequestOK
    <3> QED
      BY <1>4, <2>1, <3>2, <3>3
  <2>2. CASE /\ Doing(c, "hand out") /\ copies' = copies + 1 /\ Finishes(c)
             /\ UNCHANGED <<blob, document, hold, schedule, asked>>
    <3>1. Turns(c, AtRest)
      BY <2>2, DeskTurns
    <3>2. RecordsRowsOK' /\ RecordsSettle
      <4>1. copies' = copies + 1
        BY <2>2, Zenon
      <4>2. UNCHANGED <<blob, document, hold, schedule, asked>>
        BY <2>2
      <4>3. copies' \in Nat
        BY <1>3, <4>1
      <4> QED
        BY <1>3, <4>2, <4>3 DEF RecordsRowsOK, RecordsSettle, StoredIsReadable
    <3>4. Preserves(c)
      BY <2>2 DEF Preserves, Doing
    <3>3. RecordsDeskOK'
      BY <1>1, <2>2, <3>1, SchedulingStays
    <3> QED
      BY <1>1, <3>1, <3>2, <3>3, <3>4
  <2> QED
    BY <1>12, <2>1, <2>2 DEF ExportToClient
<1>13. ASSUME NEW c \in Clerks, RemoveDocument(c) PROVE \E next : Serves(c, next)
  <2>1. CASE Begins(c, [op |-> IF document.hold THEN "refuse" ELSE "remove",
                        until |-> document.until, known |-> KnownHolds]) /\ UNCHANGED recordsRows
    <3>1. PICK known : known = KnownHolds
      OBVIOUS
    <3>2. PICK op : op = IF document.hold THEN "refuse" ELSE "remove"
      OBVIOUS
    <3>3. PICK next : next = [op |-> op, until |-> document.until, known |-> known]
      OBVIOUS
    <3>4. Turns(c, next)
      BY <2>1, <3>1, <3>2, <3>3, DeskTurns
    <3>5. /\ known \in KnownSets /\ known.own = document.hold
          /\ \A h \in known.matters : hold[h] \in CoveringScopes
      BY <1>3, <3>1 DEF KnownHolds, KnownSets, Covering, InForce, VaultRows, CoveringScopes
    <3>6. next \in Removals /\ next.op \in {"refuse", "remove"} /\ next.known = known
      BY <1>3, <3>2, <3>3, <3>5 DEF Removals, VaultRows
    <3>7. next.op = "remove" => ~known.own
      BY <3>2, <3>3, <3>5
    <3>8. RecordsRequestOK(next)
      BY <3>5, <3>6, <3>7 DEF RecordsRequestOK
    <3> QED
      BY <1>4, <2>1, <3>4, <3>6, <3>8
  <2>2. CASE /\ Doing(c, "remove") /\ UNCHANGED recordsRows
             /\ IF Covering # {} THEN Finishes(c) ELSE GoesOn(c, [request[c] EXCEPT !.op = "resolve"])
    <3>1. CASE Covering # {}
      BY <1>1, <1>4, <2>2, <3>1, DeskTurns DEF RecordsRequestOK, AtRest
    <3>2. CASE Covering = {}
      <4>1. PICK was \in Removals : was = request[c] /\ was.op = "remove" /\ RecordsRequestOK(was)
        BY <1>2, <2>2 DEF RecordsRequestOK, Doing
      <4>2. PICK next : next = [was EXCEPT !.op = "resolve"]
        OBVIOUS
      <4>3. /\ Turns(c, next) /\ next \in Removals /\ next.op = "resolve" /\ next.known = was.known
        BY <2>2, <3>2, <4>1, <4>2, DeskTurns DEF Removals
      <4>4. \A h \in was.known.matters : hold[h] = "released"
        <5>1. \A h \in Holds : hold[h] \notin CoveringScopes
          BY <3>2 DEF Covering, InForce, CoveringScopes
        <5>2. was.known.matters \subseteq Holds
          BY DEF Removals, KnownSets
        <5> QED
          BY <4>1, <5>1, <5>2 DEF RecordsRequestOK
      <4>5. RecordsRequestOK(next)
        BY <4>1, <4>3, <4>4 DEF RecordsRequestOK
      <4> QED
        BY <1>4, <2>2, <4>3, <4>5
    <3> QED
      BY <3>1, <3>2
  <2>3. CASE Doing(c, "refuse") /\ Finishes(c) /\ UNCHANGED recordsRows
    BY <1>1, <1>4, <2>3, DeskTurns DEF RecordsRequestOK, AtRest
  <2>4. CASE Doing(c, "resolve") /\ UNCHANGED recordsRows
    <3>1. GoesOn(c, [request[c] EXCEPT !.op = "delete"]) \/ Finishes(c)
      BY <1>13, <2>4 DEF RemoveDocument, RemoveAsking, Begins, Doing
    <3>2. CASE Finishes(c)
      BY <1>1, <1>4, <2>4, <3>2, DeskTurns DEF RecordsRequestOK, AtRest
    <3>3. CASE GoesOn(c, [request[c] EXCEPT !.op = "delete"])
      <4>1. PICK was \in Removals : was = request[c] /\ was.op = "resolve" /\ RecordsRequestOK(was)
        BY <1>2, <2>4 DEF RecordsRequestOK, Doing
      <4>2. PICK next : next = [was EXCEPT !.op = "delete"]
        OBVIOUS
      <4>3. /\ Turns(c, next) /\ next \in Removals /\ next.op = "delete" /\ next.known = was.known
        BY <3>3, <4>1, <4>2, DeskTurns DEF Removals
      <4>4. RecordsRequestOK(next)
        BY <4>1, <4>3 DEF RecordsRequestOK
      <4> QED
        BY <1>4, <2>4, <4>3, <4>4
    <3> QED
      BY <3>1, <3>2, <3>3
  <2>5. CASE Doing(c, "delete") /\ document' = [document EXCEPT !.deleted = TRUE] /\ Finishes(c)
             /\ UNCHANGED <<blob, hold, schedule, asked, copies>>
    <3>1. PICK row : row = [document EXCEPT !.deleted = TRUE]
      OBVIOUS
    <3>2. row \in VaultRows /\ row.stored = document.stored
      BY <1>3, <3>1 DEF VaultRows
    <3>3. ~request[c].known.own /\ \A h \in request[c].known.matters : hold[h] = "released"
      BY <1>2, <2>5 DEF RecordsRequestOK, Doing
    <3>4. Preserves(c)
      BY <2>5, <3>3 DEF Preserves, Doing, Covering, InForce
    <3> QED
      BY <1>3, <1>5, <2>5, <3>1, <3>2, <3>4, DeskTurns
  <2> QED
    BY <1>13, <2>1, <2>2, <2>3, <2>4, <2>5 DEF RemoveDocument, RemoveAsking
\* The client's request changes, and nothing else.
<1>14. ASSUME NEW c \in Clerks, Turns(c, AtRest), UNCHANGED <<blob, document, hold, schedule, copies>>,
              asked' \in {"received", "approved", "refused", "completed"},
              Doing(c, "decide") => Preserves(c)
       PROVE  Serves(c, AtRest)
  <2>1. RecordsRowsOK' /\ RecordsSettle /\ Preserves(c)
    BY <1>14 DEF RecordsRowsOK, RecordsSettle, Preserves, StoredIsReadable
  <2>2. RecordsDeskOK'
    BY <1>1, <1>14, SchedulingStays
  <2> QED
    BY <1>1, <1>14, <2>1, <2>2
<1>15. ASSUME NEW c \in Clerks, RequestDeletion(c) \/ CompleteDeletion(c)
       PROVE  \E next : Serves(c, next)
  <2>1. CASE Begins(c, [op |-> "complete"]) /\ UNCHANGED recordsRows
    <3>1. PICK next : next = [op |-> "complete"]
      OBVIOUS
    <3>2. Turns(c, next) /\ next.op = "complete"
      BY <2>1, <3>1, DeskTurns
    <3>3. RecordsRequestOK(next)
      BY <3>2 DEF RecordsRequestOK
    <3> QED
      BY <1>4, <2>1, <3>2, <3>3
  <2>2. CASE ~(Begins(c, [op |-> "complete"]) /\ UNCHANGED recordsRows)
    <3>1. /\ Turns(c, AtRest) /\ UNCHANGED <<blob, document, hold, schedule, copies>>
          /\ asked' \in {"received", "completed"} /\ ~Doing(c, "decide")
      BY <1>15, <2>2, DeskTurns DEF RequestDeletion, CompleteDeletion, Doing
    <3> QED
      BY <1>14, <3>1
  <2> QED
    BY <2>1, <2>2
<1>16. ASSUME NEW c \in Clerks, DecideRequest(c) PROVE \E next : Serves(c, next)
  <2>1. CASE UNCHANGED recordsRows /\ ~Doing(c, "decide")
    <3>1. PICK as \in {"eligible", "refused"} : Begins(c, [op |-> "decide", as |-> as, matters |-> InForce])
      BY <1>16, <2>1 DEF DecideRequest
    <3>2. PICK matters : matters = InForce
      OBVIOUS
    <3>3. PICK next : next = [op |-> "decide", as |-> as, matters |-> matters]
      OBVIOUS
    <3>4. Turns(c, next)
      BY <3>1, <3>2, <3>3, DeskTurns
    <3>5. next \in Judgements /\ next.as = as /\ next.matters = matters /\ next.op = "decide"
      BY <3>1, <3>2, <3>3 DEF Judgements, InForce
    <3>6. RecordsRequestOK(next)
      BY <3>1, <3>2, <3>5 DEF RecordsRequestOK, InForce, Scopes
    <3> QED
      BY <1>4, <2>1, <3>4, <3>5, <3>6
  <2>2. CASE /\ Doing(c, "decide") /\ request[c].as = "eligible" /\ UNCHANGED recordsRows
             /\ IF InForce # {} THEN Finishes(c) ELSE GoesOn(c, [request[c] EXCEPT !.as = "approved"])
    <3>1. CASE InForce # {}
      BY <1>1, <1>4, <2>2, <3>1, DeskTurns DEF RecordsRequestOK, AtRest
    <3>2. CASE InForce = {}
      <4>1. PICK was \in Judgements : was = request[c] /\ RecordsRequestOK(was)
        BY <1>2, <2>2 DEF RecordsRequestOK, Doing
      <4>2. PICK next : next = [was EXCEPT !.as = "approved"]
        OBVIOUS
      <4>3. /\ Turns(c, next) /\ next \in Judgements /\ next.op = "decide" /\ next.matters = was.matters
        BY <2>2, <3>2, <4>1, <4>2, DeskTurns DEF Judgements
      <4>4. \A h \in was.matters : hold[h] = "released"
        <5>1. \A h \in Holds : hold[h] \notin Scopes
          BY <3>2 DEF InForce, Scopes
        <5> QED
          BY <4>1, <5>1 DEF RecordsRequestOK, Judgements
      <4>5. RecordsRequestOK(next)
        BY <4>3, <4>4 DEF RecordsRequestOK
      <4> QED
        BY <1>4, <2>2, <4>3, <4>5
    <3> QED
      BY <3>1, <3>2
  <2>3. CASE /\ Doing(c, "decide") /\ request[c].as # "eligible"
             /\ asked' = request[c].as /\ Finishes(c)
             /\ UNCHANGED <<blob, document, hold, schedule, copies>>
    <3>1. /\ request[c] \in Judgements
          /\ request[c].as = "approved" => \A h \in request[c].matters : hold[h] = "released"
      BY <1>2, <2>3 DEF RecordsRequestOK, Doing
    <3>2. asked' \in {"approved", "refused"}
      BY <2>3, <3>1 DEF Judgements
    <3>3. Preserves(c)
      BY <2>3, <3>1 DEF Preserves, Doing, InForce
    <3> QED
      BY <1>14, <2>3, <3>2, <3>3, DeskTurns
  <2> QED
    BY <1>16, <2>1, <2>2, <2>3 DEF DecideRequest, Begins, Doing
<1>17. ASSUME NEW c \in Clerks, ClerkDies(c), UNCHANGED recordsRows PROVE \E next : Serves(c, next)
  BY <1>1, <1>4, <1>17, DeskTurns DEF RecordsRequestOK, AtRest
<1>18. CASE DayPasses /\ UNCHANGED recordsRows
  <2>1. RequestsOK' /\ request' = request /\ today' \in Nat
    BY <1>18, DayIsCounted
  <2>2. UNCHANGED <<blob, document, hold, schedule, asked, copies>>
    BY <1>18 DEF recordsRows
  <2>3. RecordsRowsOK' /\ RecordsSettle /\ HoldsPreserved
    BY <2>2 DEF RecordsRowsOK, RecordsSettle, HoldsPreserved, Preserves, StoredIsReadable
  <2>4. RecordsDeskOK'
    BY <2>1, <2>2 DEF RecordsDeskOK, Scheduling, Doing
  <2>5. \A c \in Clerks : RecordsRequestOK(request[c])'
    BY <1>2, <2>1, <2>3, RecordsRequestStands
  <2> QED
    BY <2>1, <2>3, <2>4, <2>5 DEF RecordsRequestsOK
<1>19. CASE ~(DayPasses /\ UNCHANGED recordsRows)
  <2>1. PICK c, next : c \in Clerks /\ Serves(c, next)
    BY <1>6, <1>7, <1>8, <1>9, <1>10, <1>11, <1>12, <1>13, <1>15, <1>16, <1>17, <1>19
       DEF RecordsNext
  <2>2. RecordsRequestsOK' /\ HoldsPreserved
    BY <2>1, RecordsRequestsKept, OnlyOwnSteps
  <2> QED
    BY <2>1, <2>2 DEF Turns
<1> QED
  BY <1>18, <1>19

-----------------------------------------------------------------------------
(***************************************************************************)
(* The lenders.  While complaints in an approved file's window reach the   *)
(* threshold, the board has overruled them or somebody is on the way from  *)
(* a complaint to the flag; and a recommendation parts what it considered. *)
(***************************************************************************)
FileRows == [status : Statuses, reviewed : SUBSET Nat, restricted : BOOLEAN, window : Nat,
             cadence : Nat]
ComplaintRows == [weight : Weights, received : Nat]
OfOne == {"submit", "approve", "review", "transition", "file", "score", "flag"}

SoundFile(p) == /\ file[p] \in FileRows /\ file[p].reviewed \subseteq 0..today
                /\ file[p].window \in 0..(today + 1)

NothingIsLost(found) ==
    /\ ToSet(found.presented) \union found.rejected = DOMAIN found.box
    /\ ToSet(found.presented) \intersect found.rejected = {}

ProvidersRowsOK ==
    /\ file \in [Providers -> FileRows] /\ complaints \in [Providers -> Seq(ComplaintRows)]
    /\ overruled \subseteq Providers /\ NothingIsLost(answer)

\* c has yet to find that the complaints about p are too many.
WillFlag(c, p) ==
    /\ request[c].op \in {"file", "score", "flag"} /\ request[c].of = p
    /\ request[c].op = "score" =>
          request[c].row.status = "approved" /\ Over(p, request[c].row)

ProvidersDeskOK ==
    /\ \A p \in Providers : SoundFile(p)
    /\ \A p \in Providers :
          file[p].status = "approved" /\ Over(p, file[p]) =>
             p \in overruled \/ \E c \in Clerks : WillFlag(c, p)

ProvidersRequestOK(r) ==
    /\ r.op \in OfOne => r.of \in Providers
    /\ r.op \in {"approve", "review"} => r.window \in 0..(today + 1)
    /\ r.op = "approve" => r.restricted \in BOOLEAN /\ r.days \in Nat
    /\ r.op = "recommend" => DOMAIN r.box \subseteq Providers /\ r.limit \in Nat

ProvidersRequestsOK == \A c \in Clerks : ProvidersRequestOK(request[c])

\* What RecommendedIsGoverned says.
Governed ==
    answer' # answer =>
        \A i \in DOMAIN answer'.presented :
            LET row == file[answer'.presented[i]] IN
            /\ row.status = "approved"
            /\ \E day \in row.reviewed :
                  day + MaximumCadence >= today /\ day + row.cadence >= today

LEMMA NoComplaintsNoScore == WindowScore(<<>>, 0) = 0
<1> DEFINE rows == <<>>
           D == {i \in DOMAIN rows : rows[i].received >= 0}
           Step(g) == [s \in SUBSET D |-> IF s = {} THEN 0
                          ELSE rows[CHOOSE x \in s : TRUE].weight + g[s \ {CHOOSE x \in s : TRUE}]]
           iter == CHOOSE g : g = Step(g)
<1>1. WindowScore(rows, 0) = iter[D]
  BY Zenon DEF WindowScore, MapThenSumSet, MapThenFoldSet
<1>2. D = {}
  OBVIOUS
<1>3. SUBSET D = {{}}
  BY <1>2
<1> DEFINE g0 == [s \in SUBSET D |-> 0]
<1>4. g0 = Step(g0)
  BY <1>3
<1>5. iter = Step(iter)
  BY <1>4
<1>6. iter[{}] = 0
  <2> HIDE DEF iter
  <2> QED
    BY <1>3, <1>5
<1> QED
  BY <1>1, <1>2, <1>6

LEMMA ProvidersInitOK ==
    ASSUME ProvidersInit, request = [c \in Clerks |-> AtRest], today = 0
    PROVE  ProvidersRowsOK /\ ProvidersDeskOK /\ ProvidersRequestsOK
<1> DEFINE Listed(days) == [NoFile EXCEPT !.status = "approved", !.reviewed = {0}, !.cadence = days]
<1>file. file \in [Providers -> {NoFile} \union {Listed(days) : days \in 0..MaximumCadence}]
  BY DEF ProvidersInit
<1> HIDE DEF Listed
<1>1. complaints = [p \in Providers |-> <<>>] /\ overruled = {} /\ answer = NoAnswer
  BY DEF ProvidersInit
<1>2. \A p \in Providers : /\ file[p] \in FileRows /\ file[p].reviewed \subseteq {0}
                           /\ file[p].window = 0
  <2>1. {0} \in SUBSET Nat /\ MaximumCadence \in Nat
    BY ProvidersAssumption
  <2>2. ASSUME NEW days \in 0..MaximumCadence, NEW new, new = Listed(days)
        PROVE  new \in FileRows /\ new.reviewed \subseteq {0} /\ new.window = 0
    <3>1. new = [status |-> "approved", reviewed |-> {0}, restricted |-> FALSE, window |-> 0,
                 cadence |-> days]
      BY <2>2 DEF NoFile, Listed
    <3> QED
      BY <2>1, <3>1 DEF FileRows, Statuses
  <2>3. NoFile \in FileRows /\ NoFile.reviewed \subseteq {0} /\ NoFile.window = 0
    BY <2>1 DEF NoFile, FileRows, Statuses
  <2> QED
    BY <1>file, <2>2, <2>3
<1>3. \A p \in Providers : complaints[p] = <<>> /\ Len(complaints[p]) = 0
                           /\ complaints[p] \in Seq(ComplaintRows)
  BY <1>1
<1>4. \A p \in Providers : ~Over(p, file[p])
  BY <1>2, <1>3, NoComplaintsNoScore, ProvidersAssumption DEF Over
<1>5. NothingIsLost(answer)
  BY <1>1 DEF NothingIsLost, NoAnswer, ToSet
<1>6. ProvidersRowsOK
  BY <1>file, <1>1, <1>2, <1>3, <1>5 DEF ProvidersRowsOK
<1>7. ProvidersDeskOK
  BY <1>2, <1>3, <1>4 DEF ProvidersDeskOK, SoundFile
<1>8. ProvidersRequestsOK
  BY DEF ProvidersRequestsOK, ProvidersRequestOK, OfOne, AtRest
<1> QED
  BY <1>6, <1>7, <1>8

LEMMA ProvidersAnswer ==
    ASSUME ProvidersRowsOK, ProvidersDeskOK
    PROVE  ProvidersTypeOK /\ NothingIsDropped /\ ComplaintsAddUp
<1>1. NothingIsDropped
  BY DEF ProvidersRowsOK, NothingIsDropped, NothingIsLost
<1>2. ProvidersTypeOK
  BY DEF ProvidersRowsOK, ProvidersDeskOK, ProvidersTypeOK, SoundFile, FileRows, NothingIsLost
<1>3. ComplaintsAddUp
  BY DEF ProvidersDeskOK, ComplaintsAddUp, WillFlag
<1> QED
  BY <1>1, <1>2, <1>3

\* A ranking names whom it ranks, each once.
LEMMA RankingsAreBijections ==
    ASSUME NEW fit, IsFiniteSet(fit), NEW order \in SetToSeqs(fit)
    PROVE  /\ Cardinality(fit) \in Nat /\ order \in [1..Cardinality(fit) -> fit]
           /\ order \in Seq(fit) /\ Len(order) = Cardinality(fit)
           /\ \A i, j \in 1..Cardinality(fit) : i # j => order[i] # order[j]
           /\ \A p \in fit : \E i \in 1..Cardinality(fit) : order[i] = p
<1>1. PICK n \in Nat : n = Cardinality(fit)
  BY FS_CardinalityType
<1>2. order \in [1..n -> fit] /\ \A i, j \in 1..n : i # j => order[i] # order[j]
  BY <1>1 DEF SetToSeqs
<1>3. order \in Seq(fit) /\ Len(order) = n
  BY <1>2
<1>4. order \in Injection(1..n, fit)
  BY <1>2 DEF Injection, IsInjective
<1>5. Cardinality(1..n) = n
  <2>1. Cardinality(1..n) = IF 1 > n THEN 0 ELSE n - 1 + 1
    BY FS_Interval
  <2> QED
    BY <2>1
<1>6. order \in Surjection(1..n, fit)
  BY <1>1, <1>4, <1>5, FS_Injection
<1>7. \A p \in fit : \E i \in 1..n : order[i] = p
  BY <1>6 DEF Surjection
<1> QED
  BY <1>1, <1>2, <1>3, <1>7

\* What is presented and what is cut off are all that were ranked, apart.
LEMMA PresentedIsParted ==
    ASSUME NEW box, NEW fit, IsFiniteSet(fit), fit \subseteq DOMAIN box,
           NEW order \in SetToSeqs(fit), NEW limit \in Nat
    PROVE  /\ NothingIsLost(Present(box, fit, order, limit))
           /\ \A i \in DOMAIN Present(box, fit, order, limit).presented :
                 Present(box, fit, order, limit).presented[i] \in fit
<1>1. PICK n \in Nat : n = Cardinality(fit)
  BY FS_CardinalityType
<1>2. /\ order \in Seq(fit) /\ Len(order) = n /\ order \in [1..n -> fit]
      /\ \A i, j \in 1..n : i # j => order[i] # order[j]
      /\ \A p \in fit : \E i \in 1..n : order[i] = p
  BY <1>1, RankingsAreBijections
<1>3. PICK cut \in 0..n : cut = LesserOf(limit, Len(order))
  BY <1>2 DEF LesserOf
<1>4. PICK head, tail : head = SubSeq(order, 1, cut) /\ tail = SubSeq(order, cut + 1, Len(order))
  OBVIOUS
<1>5. DOMAIN head = 1..cut /\ \A i \in 1..cut : head[i] = order[i]
  BY <1>2, <1>3, <1>4
<1>6. DOMAIN tail = 1..(n - cut) /\ \A i \in 1..(n - cut) : tail[i] = order[cut + i]
  <2>1. PICK start : start = cut + 1
    OBVIOUS
  <2>2. tail = SubSeq(order, start, n) /\ start \in 1..(n + 1)
    BY <1>1, <1>2, <1>3, <1>4, <2>1
  <2>3. DOMAIN tail = 1..(1 + n - start)
    BY <1>2, <2>2
  <2>4. \A i \in 1..(1 + n - start) : tail[i] = order[i + start - 1]
    BY <1>2, <2>2
  <2>5. 1 + n - start = n - cut /\ \A i \in Nat : i + start - 1 = cut + i
    BY <1>3, <2>1
  <2> QED
    BY <2>3, <2>4, <2>5
<1>7. ToSet(head) = {order[i] : i \in 1..cut}
  BY <1>5 DEF ToSet
<1>8. \A p : p \in ToSet(tail) <=> \E i \in (cut + 1)..n : p = order[i]
  <2>1. ASSUME NEW p, p \in ToSet(tail) PROVE \E i \in (cut + 1)..n : p = order[i]
    <3>1. PICK i \in 1..(n - cut) : p = order[cut + i]
      BY <1>6, <2>1 DEF ToSet
    <3>2. cut + i \in (cut + 1)..n
      BY <1>3, <3>1
    <3> QED
      BY <3>1, <3>2
  <2>2. ASSUME NEW p, NEW i \in (cut + 1)..n, p = order[i] PROVE p \in ToSet(tail)
    <3>1. i - cut \in 1..(n - cut) /\ cut + (i - cut) = i
      BY <1>3, <2>2
    <3>2. tail[i - cut] = p
      BY <1>6, <2>2, <3>1
    <3> QED
      BY <1>6, <3>1, <3>2 DEF ToSet
  <2> QED
    BY <2>1, <2>2
<1>9. ToSet(head) \intersect ToSet(tail) = {}
  <2>1. ASSUME NEW p, p \in ToSet(head), p \in ToSet(tail) PROVE FALSE
    <3>1. PICK i \in 1..cut : p = order[i]
      BY <1>7, <2>1
    <3>2. PICK j \in (cut + 1)..n : p = order[j]
      BY <1>8, <2>1
    <3>3. i \in 1..n /\ j \in 1..n /\ i # j
      BY <1>3, <3>1, <3>2
    <3> QED
      BY <1>2, <3>1, <3>2, <3>3
  <2> QED
    BY <2>1
<1>10. ToSet(head) \union ToSet(tail) = fit
  <2>1. ASSUME NEW p \in fit PROVE p \in ToSet(head) \union ToSet(tail)
    <3>1. PICK i \in 1..n : order[i] = p
      BY <1>2
    <3>2. i \in 1..cut \/ i \in (cut + 1)..n
      BY <1>3
    <3> QED
      BY <1>7, <1>8, <3>1, <3>2
  <2>2. ToSet(head) \subseteq fit
    <3>1. 1..cut \subseteq 1..n
      BY <1>3
    <3> QED
      BY <1>2, <1>7, <3>1
  <2>3. ToSet(tail) \subseteq fit
    <3>1. (cut + 1)..n \subseteq 1..n
      BY <1>3
    <3> QED
      BY <1>2, <1>8, <3>1
  <2> QED
    BY <2>1, <2>2, <2>3
<1>11. PICK found : found = Present(box, fit, order, limit)
  OBVIOUS
<1>12. found.box = box /\ found.presented = head /\ found.rejected = (DOMAIN box \ fit) \union ToSet(tail)
  BY <1>3, <1>4, <1>11 DEF Present
<1>13. NothingIsLost(found)
  BY <1>9, <1>10, <1>12 DEF NothingIsLost
<1>14. \A i \in DOMAIN head : head[i] \in fit
  BY <1>10 DEF ToSet
<1> QED
  BY <1>11, <1>12, <1>13, <1>14

LEMMA ProvidersRequestsKept ==
    ASSUME NEW c \in Clerks, NEW next, Turns(c, next), ProvidersRequestsOK, ProvidersRequestOK(next)'
    PROVE  ProvidersRequestsOK'
<1>1. today' = today
  BY DEF Turns
<1>2. ASSUME NEW d \in Clerks PROVE ProvidersRequestOK(request[d])'
  <2>1. CASE d = c
    BY <2>1, Zenon DEF Turns, ProvidersRequestOK
  <2>2. CASE d # c
    <3>1. request'[d] = request[d] /\ ProvidersRequestOK(request[d])
      BY <2>2 DEF Turns, ProvidersRequestsOK
    <3>2. request[d].op \in {"approve", "review"} => request[d].of \in Providers
      BY <3>1 DEF ProvidersRequestOK, OfOne
    <3> QED
      BY <1>1, <3>1, <3>2 DEF ProvidersRequestOK
  <2> QED
    BY <2>1, <2>2
<1> QED
  BY <1>2 DEF ProvidersRequestsOK

LEMMA ProvidersStep ==
    ASSUME RequestsOK, today \in Nat, ProvidersRowsOK, ProvidersDeskOK, ProvidersRequestsOK,
           ProvidersNext
    PROVE  /\ RequestsOK' /\ today' \in Nat
           /\ ProvidersRowsOK' /\ ProvidersDeskOK' /\ ProvidersRequestsOK' /\ Governed
<1> DEFINE Serves(c, next) == /\ Turns(c, next) /\ ProvidersRowsOK' /\ ProvidersDeskOK'
                              /\ ProvidersRequestOK(next)' /\ Governed
<1>1. ProvidersRequestOK(AtRest)' /\ AtRest.op = "none"
  BY DEF ProvidersRequestOK, AtRest, OfOne
<1>2. ASSUME NEW c \in Clerks PROVE ProvidersRequestOK(request[c])
  BY DEF ProvidersRequestsOK
<1>3. /\ file \in [Providers -> FileRows] /\ complaints \in [Providers -> Seq(ComplaintRows)]
      /\ overruled \subseteq Providers /\ NothingIsLost(answer)
      /\ \A p \in Providers : SoundFile(p)
  BY DEF ProvidersRowsOK, ProvidersDeskOK
<1>4. 0..(today + 1) \subseteq Nat /\ today + 1 \in Nat
  OBVIOUS
\* c was on its way to a flag for nobody, or still is.
<1>5. ASSUME NEW c \in Clerks, NEW next, Turns(c, next), UNCHANGED <<file, complaints, overruled, answer>>,
             \A p \in Providers : file[p].status = "approved" /\ Over(p, file[p]) /\ WillFlag(c, p)
                => WillFlag(c, p)',
             ProvidersRequestOK(next)
      PROVE  Serves(c, next)
  <2>1. today' = today
    BY <1>5 DEF Turns
  <2>2. ProvidersRowsOK' /\ Governed
    BY <1>3, <1>5 DEF ProvidersRowsOK, Governed
  <2>3. \A p : \A row : Over(p, row)' <=> Over(p, row)
    BY <1>5 DEF Over
  <2>4. ASSUME NEW p \in Providers, NEW d \in Clerks, d # c, WillFlag(d, p) PROVE WillFlag(d, p)'
    BY <1>5, <2>3, <2>4 DEF WillFlag, Turns
  <2>5. ASSUME NEW p \in Providers, file[p].status = "approved", Over(p, file[p]), p \notin overruled
        PROVE  \E d \in Clerks : WillFlag(d, p)'
    BY <1>5, <2>4, <2>5 DEF ProvidersDeskOK
  <2>6. ProvidersDeskOK'
    BY <1>3, <1>5, <2>1, <2>3, <2>5 DEF ProvidersDeskOK, SoundFile
  <2>7. ProvidersRequestOK(next)'
    BY <1>5, <2>1 DEF ProvidersRequestOK
  <2> QED
    BY <1>5, <2>2, <2>6, <2>7
\* A request that begins is on its way to no flag yet.
<1>6. ASSUME NEW c \in Clerks, NEW next, Begins(c, next), UNCHANGED <<file, complaints, overruled, answer>>,
             ProvidersRequestOK(next)
      PROVE  Serves(c, next)
  <2>1. Turns(c, next) /\ Doing(c, "none")
    BY <1>6, DeskTurns
  <2>2. \A p : ~WillFlag(c, p)
    BY <2>1 DEF WillFlag, Doing
  <2> QED
    BY <1>5, <1>6, <2>1, <2>2
<1>7. ASSUME NEW c \in Clerks, NEW op \in {"submit", "transition"}, NEW p \in Providers, Opens(c, op, p)
      PROVE  \E next : Serves(c, next)
  <2>1. PICK next : next = [op |-> op, of |-> p]
    OBVIOUS
  <2>2. Begins(c, next) /\ UNCHANGED <<file, complaints, overruled, answer>>
    BY <1>7, <2>1 DEF Opens, providersRows
  <2>3. next.op = op /\ next.of = p
    BY <2>1
  <2>4. ProvidersRequestOK(next)
    BY <2>3 DEF ProvidersRequestOK
  <2> QED
    BY <1>6, <2>2, <2>4
\* A decision: the file takes the row, overruled or not.
<1>8. ASSUME NEW c \in Clerks, NEW p \in Providers, p = request[c].of, NEW row \in FileRows, Decides(c, row),
             row.reviewed \subseteq 0..today, row.window \in 0..(today + 1)
      PROVE  \E next : Serves(c, next)
  <2>1. /\ file' = [file EXCEPT ![p] = row] /\ Turns(c, AtRest)
        /\ overruled' = IF row.status = "approved" /\ Over(p, row)
                        THEN overruled \union {p} ELSE overruled \ {p}
        /\ UNCHANGED <<complaints, answer>>
    BY <1>8, DeskTurns DEF Decides
  <2>2. /\ file' \in [Providers -> FileRows] /\ file'[p] = row
        /\ \A q \in Providers : q # p => file'[q] = file[q]
    BY <1>3, <2>1
  <2>3. ProvidersRowsOK' /\ Governed
    BY <1>3, <2>1, <2>2 DEF ProvidersRowsOK, Governed
  <2>4. \A q : \A r : Over(q, r)' <=> Over(q, r)
    BY <2>1 DEF Over
  <2>5. ASSUME NEW q \in Providers PROVE SoundFile(q)'
    BY <1>3, <1>8, <2>1, <2>2 DEF SoundFile, Turns
  <2>6. ASSUME NEW q \in Providers, file'[q].status = "approved", Over(q, file'[q]), q \notin overruled'
        PROVE  \E d \in Clerks : WillFlag(d, q)'
    <3>1. q # p
      BY <2>1, <2>2, <2>6
    <3>2. PICK d \in Clerks : WillFlag(d, q)
      BY <2>1, <2>2, <2>6, <3>1 DEF ProvidersDeskOK
    <3>3. d # c
      BY <1>8, <3>1, <3>2 DEF WillFlag
    <3> QED
      BY <2>1, <2>4, <3>2, <3>3 DEF WillFlag, Turns
  <2>7. ProvidersDeskOK'
    BY <2>4, <2>5, <2>6 DEF ProvidersDeskOK
  <2> QED
    BY <1>1, <2>1, <2>3, <2>7
<1>9. ASSUME NEW c \in Clerks, NEW op \in OfOne, Doing(c, op)
      PROVE  \E p \in Providers : p = request[c].of
  BY <1>2, <1>9 DEF ProvidersRequestOK, Doing
<1>10. ASSUME NEW c \in Clerks, AddOffering(c) PROVE \E next : Serves(c, next)
  <2>1. Begins(c, AtRest) /\ UNCHANGED <<file, complaints, overruled, answer>>
    BY <1>10 DEF AddOffering
  <2>2. ProvidersRequestOK(AtRest)
    BY DEF ProvidersRequestOK, AtRest, OfOne
  <2> QED
    BY <1>6, <2>1, <2>2
<1>11. ASSUME NEW c \in Clerks, SubmitForReview(c) PROVE \E next : Serves(c, next)
  <2>1. CASE \E p \in Providers : Opens(c, "submit", p)
    BY <1>7, <2>1
  <2>2. CASE Doing(c, "submit") /\ Decides(c, [file[request[c].of] EXCEPT !.status = "pending_review"])
    <3>1. PICK p \in Providers : p = request[c].of
      BY <1>9, <2>2 DEF OfOne
    <3>2. PICK was \in FileRows : was = file[p]
      BY <1>3
    <3>3. PICK row : row = [was EXCEPT !.status = "pending_review"]
      OBVIOUS
    <3>4. row \in FileRows /\ row.reviewed = was.reviewed /\ row.window = was.window
      BY <3>3 DEF FileRows, Statuses
    <3>5. Decides(c, row)
      BY <2>2, <3>1, <3>2, <3>3
    <3> QED
      BY <1>3, <1>8, <3>1, <3>2, <3>4, <3>5 DEF SoundFile
  <2> QED
    BY <1>11, <2>1, <2>2 DEF SubmitForReview
<1>12. ASSUME NEW c \in Clerks, Approve(c) PROVE \E next : Serves(c, next)
  <2>1. CASE ~Doing(c, "approve")
    <3>1. PICK p \in Providers, restricted \in BOOLEAN, days \in 0..MaximumCadence, at \in Instants :
             /\ Begins(c, [op |-> "approve", of |-> p, restricted |-> restricted, days |-> days,
                           window |-> at])
             /\ UNCHANGED providersRows
      BY <1>12, <2>1 DEF Approve
    <3>2. at \in 0..(today + 1) /\ days \in Nat
      BY <3>1, ProvidersAssumption DEF Instants
    <3>3. PICK next : next = [op |-> "approve", of |-> p, restricted |-> restricted, days |-> days,
                              window |-> at]
      OBVIOUS
    <3>4. /\ next.op = "approve" /\ next.of = p /\ next.window = at
          /\ next.restricted = restricted /\ next.days = days
      BY <3>3
    <3>5. ProvidersRequestOK(next)
      BY <3>1, <3>2, <3>4 DEF ProvidersRequestOK
    <3> QED
      BY <1>6, <3>1, <3>3, <3>5 DEF providersRows
  <2>2. CASE Doing(c, "approve")
    <3>1. PICK p \in Providers : p = request[c].of
      BY <1>9, <2>2 DEF OfOne
    <3>2. /\ request[c].window \in 0..(today + 1) /\ request[c].restricted \in BOOLEAN
          /\ request[c].days \in Nat
      BY <1>2, <2>2, <3>1 DEF ProvidersRequestOK, Doing
    <3>3. PICK row : row = [status |-> "approved", reviewed |-> {today},
                            restricted |-> request[c].restricted, window |-> request[c].window,
                            cadence |-> request[c].days]
      OBVIOUS
    <3>4. row \in FileRows /\ row.reviewed \subseteq 0..today /\ row.window = request[c].window
      <4>1. {today} \in SUBSET Nat /\ {today} \subseteq 0..today
        OBVIOUS
      <4>2. request[c].window \in Nat
        BY <1>4, <3>2
      <4> QED
        BY <3>2, <3>3, <4>1, <4>2 DEF FileRows, Statuses
    <3>5. Decides(c, row)
      BY <1>12, <2>2, <3>3 DEF Approve, Begins, Doing
    <3> QED
      BY <1>8, <3>1, <3>2, <3>4, <3>5
  <2> QED
    BY <2>1, <2>2
<1>13. ASSUME NEW c \in Clerks, RecordReview(c) PROVE \E next : Serves(c, next)
  <2>1. CASE ~Doing(c, "review")
    <3>1. PICK p \in Providers, at \in Instants :
             /\ Begins(c, [op |-> "review", of |-> p, window |-> at]) /\ UNCHANGED providersRows
      BY <1>13, <2>1 DEF RecordReview
    <3>2. PICK next : next = [op |-> "review", of |-> p, window |-> at]
      OBVIOUS
    <3>3. next.op = "review" /\ next.of = p /\ next.window = at /\ at \in 0..(today + 1)
      BY <3>2 DEF Instants
    <3>4. ProvidersRequestOK(next)
      BY <3>3 DEF ProvidersRequestOK
    <3> QED
      BY <1>6, <3>1, <3>2, <3>4 DEF providersRows
  <2>2. CASE Doing(c, "review")
    <3>1. PICK p \in Providers : p = request[c].of
      BY <1>9, <2>2 DEF OfOne
    <3>2. request[c].window \in 0..(today + 1)
      BY <1>2, <2>2, <3>1 DEF ProvidersRequestOK, Doing
    <3>3. PICK was \in FileRows : was = file[p]
      BY <1>3, <3>1
    <3>4. PICK row : row = [was EXCEPT !.reviewed = {today}, !.window = request[c].window]
      OBVIOUS
    <3>5. row \in FileRows /\ row.reviewed \subseteq 0..today /\ row.window = request[c].window
      <4>1. {today} \in SUBSET Nat /\ {today} \subseteq 0..today
        OBVIOUS
      <4>2. request[c].window \in Nat
        BY <1>4, <3>1, <3>2
      <4> QED
        BY <3>4, <4>1, <4>2 DEF FileRows
    <3>6. Decides(c, row)
      BY <1>13, <2>2, <3>1, <3>3, <3>4 DEF RecordReview, Begins, Doing
    <3> QED
      BY <1>8, <3>1, <3>2, <3>5, <3>6
  <2> QED
    BY <2>1, <2>2
<1>14. ASSUME NEW c \in Clerks, Transition(c) PROVE \E next : Serves(c, next)
  <2>1. CASE ~Doing(c, "transition")
    <3>1. PICK p \in Providers : Opens(c, "transition", p)
      BY <1>14, <2>1 DEF Transition
    <3> QED
      BY <1>7, <3>1
  <2>2. CASE Doing(c, "transition")
    <3>1. PICK p \in Providers : p = request[c].of
      BY <1>9, <2>2 DEF OfOne
    <3>2. PICK status \in Statuses : Decides(c, [file[p] EXCEPT !.status = status])
      BY <1>14, <2>2, <3>1 DEF Transition, Opens, Begins, Doing
    <3>3. PICK was \in FileRows : was = file[p]
      BY <1>3, <3>1
    <3>4. PICK row : row = [was EXCEPT !.status = status]
      OBVIOUS
    <3>5. row \in FileRows /\ row.reviewed = was.reviewed /\ row.window = was.window
      BY <3>4 DEF FileRows
    <3>6. Decides(c, row)
      BY <3>2, <3>3, <3>4
    <3> QED
      BY <1>3, <1>8, <3>1, <3>3, <3>5, <3>6 DEF SoundFile
  <2> QED
    BY <2>1, <2>2
<1>15. ASSUME NEW c \in Clerks, FlagForReview(c) PROVE \E next : Serves(c, next)
  <2>1. PICK p \in Providers : p = request[c].of
    BY <1>9, <1>15 DEF OfOne, FlagForReview
  <2>2. PICK was \in FileRows : was = file[p]
    BY <1>3, <2>1
  <2>3. PICK row : row = [was EXCEPT !.status = "under_review"]
    OBVIOUS
  <2>4. row \in FileRows /\ row.reviewed = was.reviewed /\ row.window = was.window
    BY <2>3 DEF FileRows, Statuses
  <2>5. Decides(c, row)
    BY <1>15, <2>1, <2>2, <2>3 DEF FlagForReview
  <2> QED
    BY <1>3, <1>8, <2>1, <2>2, <2>4, <2>5 DEF SoundFile
<1>16. ASSUME NEW c \in Clerks, RecordComplaint(c) PROVE \E next : Serves(c, next)
  <2>1. CASE Doing(c, "none")
    <3>1. PICK p \in Providers, w \in Weights, at \in 0..(today + 1) :
             /\ complaints' = [complaints EXCEPT
                                 ![p] = Append(complaints[p], [weight |-> w, received |-> at])]
             /\ Begins(c, [op |-> "file", of |-> p])
             /\ UNCHANGED <<offering, file, overruled, answer>>
      BY <1>16, <2>1 DEF RecordComplaint, Doing
    <3>2. PICK next : next = [op |-> "file", of |-> p]
      OBVIOUS
    <3>3. Turns(c, next) /\ next.op = "file" /\ next.of = p
      BY <3>1, <3>2, DeskTurns
    <3>4. /\ complaints' \in [Providers -> Seq(ComplaintRows)]
          /\ \A q \in Providers : q # p => complaints'[q] = complaints[q]
      <4>1. PICK was \in Seq(ComplaintRows) : was = complaints[p]
        BY <1>3
      <4>2. PICK one \in ComplaintRows : one = [weight |-> w, received |-> at]
        BY <1>4 DEF ComplaintRows
      <4>3. Append(was, one) \in Seq(ComplaintRows)
        OBVIOUS
      <4> QED
        BY <1>3, <3>1, <4>1, <4>2, <4>3
    <3>5. today' = today
      BY <3>3 DEF Turns
    <3>6. ProvidersRowsOK' /\ Governed
      BY <1>3, <3>1, <3>4 DEF ProvidersRowsOK, Governed
    <3>7. ASSUME NEW q \in Providers PROVE SoundFile(q)'
      BY <1>3, <3>1, <3>5 DEF SoundFile
    <3>8. WillFlag(c, p)'
      BY <3>3 DEF WillFlag, Turns
    <3>9. ASSUME NEW q \in Providers, NEW row, row = file[q], row.status = "approved", Over(q, row)',
                 q \notin overruled
          PROVE  \E d \in Clerks : WillFlag(d, q)'
      <4>1. CASE q = p
        BY <3>8, <4>1
      <4>2. CASE q # p
        <5>1. \A r : Over(q, r)' <=> Over(q, r)
          BY <3>4, <4>2 DEF Over
        <5>2. PICK d \in Clerks : WillFlag(d, q)
          BY <3>1, <3>9, <5>1 DEF ProvidersDeskOK
        <5>3. d # c
          BY <2>1, <5>2 DEF WillFlag, Doing
        <5> QED
          BY <3>3, <5>1, <5>2, <5>3 DEF WillFlag, Turns
      <4> QED
        BY <4>1, <4>2
    <3>10. ProvidersDeskOK'
      BY <3>1, <3>7, <3>9 DEF ProvidersDeskOK
    <3>11. ProvidersRequestOK(next)'
      BY <3>3 DEF ProvidersRequestOK
    <3> QED
      BY <3>3, <3>6, <3>10, <3>11
  <2>2. CASE Doing(c, "file")
    <3>1. PICK p \in Providers : p = request[c].of
      BY <1>9, <2>2 DEF OfOne
    <3>2. /\ UNCHANGED <<file, complaints, overruled, answer>>
          /\ IF file[p] = NoFile THEN Finishes(c)
             ELSE GoesOn(c, [op |-> "score", of |-> p, row |-> file[p]])
      BY <1>16, <2>2, <3>1 DEF RecordComplaint, Begins, Doing, providersRows
    <3>3. ASSUME NEW q, WillFlag(c, q) PROVE q = p
      BY <3>1, <3>3 DEF WillFlag
    <3>4. CASE file[p] = NoFile
      <4>1. file[p].status # "approved"
        BY <3>4 DEF NoFile
      <4>2. Turns(c, AtRest)
        BY <3>2, <3>4, DeskTurns
      <4>3. ProvidersRequestOK(AtRest)
        BY DEF ProvidersRequestOK, AtRest, OfOne
      <4> QED
        BY <1>5, <3>2, <3>3, <4>1, <4>2, <4>3
    <3>5. CASE file[p] # NoFile
      <4>1. PICK row : row = file[p]
        OBVIOUS
      <4>2. PICK next : next = [op |-> "score", of |-> p, row |-> row]
        OBVIOUS
      <4>3. Turns(c, next) /\ next.op = "score" /\ next.of = p /\ next.row = row
        BY <3>2, <3>5, <4>1, <4>2, DeskTurns
      <4>4. file[p].status = "approved" /\ Over(p, file[p]) => WillFlag(c, p)'
        BY <3>2, <4>1, <4>3 DEF WillFlag, Turns, Over
      <4>5. ProvidersRequestOK(next)
        BY <4>3 DEF ProvidersRequestOK
      <4> QED
        BY <1>5, <3>2, <3>3, <4>3, <4>4, <4>5
    <3> QED
      BY <3>4, <3>5
  <2>3. CASE Doing(c, "score")
    <3>1. PICK p \in Providers : p = request[c].of
      BY <1>9, <2>3 DEF OfOne
    <3>2. /\ UNCHANGED <<file, complaints, overruled, answer>>
          /\ IF Over(p, request[c].row) /\ request[c].row.status = "approved"
             THEN GoesOn(c, [op |-> "flag", of |-> p]) ELSE Finishes(c)
      BY <1>16, <2>3, <3>1 DEF RecordComplaint, Begins, Doing, providersRows
    <3>3. ASSUME NEW q, WillFlag(c, q)
          PROVE  q = p /\ Over(p, request[c].row) /\ request[c].row.status = "approved"
      BY <2>3, <3>1, <3>3 DEF WillFlag, Doing
    <3>4. CASE Over(p, request[c].row) /\ request[c].row.status = "approved"
      <4>1. PICK next : next = [op |-> "flag", of |-> p]
        OBVIOUS
      <4>2. Turns(c, next) /\ next.op = "flag" /\ next.of = p
        BY <3>2, <3>4, <4>1, DeskTurns
      <4>3. WillFlag(c, p)'
        BY <4>2 DEF WillFlag, Turns
      <4>4. ProvidersRequestOK(next)
        BY <4>2 DEF ProvidersRequestOK
      <4> QED
        BY <1>5, <3>2, <3>3, <4>2, <4>3, <4>4
    <3>5. CASE ~(Over(p, request[c].row) /\ request[c].row.status = "approved")
      <4>1. Turns(c, AtRest)
        BY <3>2, <3>5, DeskTurns
      <4>2. ProvidersRequestOK(AtRest)
        BY DEF ProvidersRequestOK, AtRest, OfOne
      <4> QED
        BY <1>5, <3>2, <3>3, <3>5, <4>1, <4>2
    <3> QED
      BY <3>4, <3>5
  <2> QED
    BY <1>16, <2>1, <2>2, <2>3 DEF RecordComplaint, Begins
<1>17. ASSUME NEW c \in Clerks, RankCandidates(c) PROVE \E next : Serves(c, next)
  <2>1. CASE ~Doing(c, "recommend")
    <3>1. PICK profile, limit, box :
             /\ limit \in 1..2 /\ DOMAIN box \subseteq Providers /\ UNCHANGED providersRows
             /\ Begins(c, [op |-> "recommend", profile |-> profile, limit |-> limit, box |-> box])
      <4>1. PICK profile, limit :
               /\ limit \in 1..2 /\ UNCHANGED providersRows
               /\ Begins(c, [op |-> "recommend", profile |-> profile, limit |-> limit,
                             box |-> [p \in {q \in Providers : offering[q].listed} |-> offering[p]]])
        BY <1>17, <2>1 DEF RankCandidates
      <4>2. PICK box : box = [p \in {q \in Providers : offering[q].listed} |-> offering[p]]
        OBVIOUS
      <4> QED
        BY <4>1, <4>2
    <3>2. PICK next : next = [op |-> "recommend", profile |-> profile, limit |-> limit, box |-> box]
      OBVIOUS
    <3>3. next.op = "recommend" /\ next.limit = limit /\ next.box = box
      BY <3>2
    <3>4. ProvidersRequestOK(next)
      BY <3>1, <3>3 DEF ProvidersRequestOK, OfOne
    <3> QED
      BY <1>6, <3>1, <3>2, <3>4 DEF providersRows
  <2>2. CASE Doing(c, "recommend")
    <3>1. PICK box, limit : /\ box = request[c].box /\ limit = request[c].limit
                            /\ DOMAIN box \subseteq Providers /\ limit \in Nat
      BY <1>2, <2>2 DEF ProvidersRequestOK, Doing
    <3>2. PICK fit : /\ fit = {p \in DOMAIN box : /\ Recommendable(file[p])
                                /\ EvaluateEligibility(box[p].asks, request[c].profile) = "eligible"}
                     /\ \E order \in Ranked(box, fit) : answer' = Present(box, fit, order, limit)
      BY <1>17, <2>2, <3>1 DEF RankCandidates, Begins, Doing
    <3>3. PICK order \in Ranked(box, fit) : answer' = Present(box, fit, order, limit)
      BY <3>2
    <3>4. Turns(c, AtRest) /\ UNCHANGED <<file, complaints, overruled>>
      BY <1>17, <2>2, DeskTurns DEF RankCandidates, Begins, Doing
    <3>5. fit \subseteq Providers /\ IsFiniteSet(fit) /\ fit \subseteq DOMAIN box
      BY <3>1, <3>2, ProvidersAssumption, FS_Subset
    <3>6. order \in SetToSeqs(fit)
      BY <3>3 DEF Ranked
    <3>7. NothingIsLost(answer') /\ \A i \in DOMAIN answer'.presented : answer'.presented[i] \in fit
      BY <3>1, <3>3, <3>5, <3>6, PresentedIsParted
    <3>8. ProvidersRowsOK'
      BY <1>3, <3>4, <3>7 DEF ProvidersRowsOK, NothingIsLost
    <3>9. Governed
      <4>1. ASSUME NEW p \in fit
            PROVE  /\ file[p].status = "approved"
                   /\ \E day \in file[p].reviewed :
                         day + MaximumCadence >= today /\ day + file[p].cadence >= today
        <5>1. Recommendable(file[p]) /\ file[p].reviewed \subseteq Nat /\ file[p].cadence \in Nat
          BY <1>3, <3>2, <3>5 DEF FileRows
        <5>2. PICK day \in file[p].reviewed :
                 today - day <= LesserOf(file[p].cadence, MaximumCadence)
          BY <5>1 DEF Recommendable
        <5>3. day + MaximumCadence >= today /\ day + file[p].cadence >= today
          BY <5>1, <5>2, ProvidersAssumption DEF LesserOf
        <5> QED
          BY <5>1, <5>2, <5>3 DEF Recommendable
      <4> QED
        BY <3>7, <4>1 DEF Governed
    <3>10. ProvidersDeskOK'
      <4>1. \A p : \A row : Over(p, row)' <=> Over(p, row)
        BY <3>4 DEF Over
      <4>2. ASSUME NEW p \in Providers, NEW d \in Clerks, WillFlag(d, p) PROVE WillFlag(d, p)'
        BY <2>2, <3>4, <4>1, <4>2 DEF WillFlag, Turns, Doing
      <4> QED
        BY <1>3, <3>4, <4>1, <4>2 DEF ProvidersDeskOK, SoundFile, Turns
    <3> QED
      BY <1>1, <3>4, <3>8, <3>9, <3>10
  <2> QED
    BY <2>1, <2>2
<1>18. CASE DayPasses /\ UNCHANGED providersRows
  <2>1. RequestsOK' /\ request' = request /\ today' \in Nat /\ today' >= today
    BY <1>18, DayIsCounted
  <2>2. UNCHANGED <<file, complaints, overruled, answer>>
    BY <1>18 DEF providersRows
  <2>instants. 0..(today + 1) \subseteq 0..(today' + 1)
    <3>1. \A a, b \in Nat : b >= a => 0..(a + 1) \subseteq 0..(b + 1)
      OBVIOUS
    <3> QED
      BY <2>1, <3>1
  <2>3. ProvidersRowsOK' /\ Governed
    BY <2>2 DEF ProvidersRowsOK, Governed
  <2>4. \A p : \A row : Over(p, row)' <=> Over(p, row)
    BY <2>2 DEF Over
  <2>5. ASSUME NEW p \in Providers PROVE SoundFile(p)'
    <3>1. 0..today \subseteq 0..today'
      BY <2>1
    <3> QED
      BY <1>3, <2>2, <2>instants, <3>1 DEF SoundFile
  <2>6. ProvidersDeskOK'
    BY <2>1, <2>2, <2>4, <2>5 DEF ProvidersDeskOK, WillFlag
  <2>7. ProvidersRequestsOK'
    BY <1>2, <2>1, <2>instants DEF ProvidersRequestsOK, ProvidersRequestOK
  <2> QED
    BY <2>1, <2>3, <2>6, <2>7
<1>19. CASE ~(DayPasses /\ UNCHANGED providersRows)
  <2>1. PICK c, next : c \in Clerks /\ Serves(c, next)
    BY <1>10, <1>11, <1>12, <1>13, <1>14, <1>15, <1>16, <1>17, <1>19 DEF ProvidersNext
  <2>2. ProvidersRequestsOK'
    BY <2>1, ProvidersRequestsKept
  <2> QED
    BY <2>1, <2>2 DEF Turns
<1> QED
  BY <1>18, <1>19

-----------------------------------------------------------------------------
(***************************************************************************)
(* What the firm says.  A ban that stands as it was founded has never been *)
(* lifted, so it was there at every scan; whoever writes keeps what the    *)
(* scan showed of the text, which nobody changes meanwhile.                *)
(***************************************************************************)
Claims == [disposition : Dispositions \union {"none"}, active : BOOLEAN, version : Nat]
AssetRows == [state : {"none", "draft", "in_review", "approved", "rejected"},
              body : Copies \union {NoCopy}]
ArmRows == [body : Copies, verdict : {"clean", "requires_disclosure"}]
Experiments == [started : BOOLEAN, ended : BOOLEAN, arms : [Arms -> ArmRows \union {NoArm}]]

Unsaid(body) == \A p \in Phrases \ {Proposed} : library[p] = Founding => p \notin body.says
Disclosed(body, verdict) == verdict = "requires_disclosure" => body.says \cap body.discloses # {}

LibraryOK ==
    /\ library \in [Phrases -> Claims]
    /\ \A p \in Phrases : library[p] = NoClaim \/ library[p].disposition \in Dispositions
    /\ \A p \in Phrases \ {Proposed} : library[p].version >= 1

MarketingRowsOK ==
    /\ LibraryOK /\ proposal \in {"none", "submitted", "approved", "rejected"}
    /\ asset \in AssetRows /\ experiment \in Experiments
    /\ ApprovedIsInTheLibrary
    /\ asset.state \in {"in_review", "approved"} => Unsaid(asset.body)
    /\ \A a \in Variants : /\ Unsaid(experiment.arms[a].body)
                           /\ Disclosed(experiment.arms[a].body, experiment.arms[a].verdict)
    /\ experiment.started => Cardinality(Variants) >= 2

MarketingRequestOK(r) ==
    /\ r.op = "publish" => r.phrase \in Phrases /\ (r.phrase # Proposed => r.version >= 1)
    /\ r.op \in {"publish", "enter"} => r.version \in Nat
    /\ r.op \in {"publish", "look up", "enter"} => r.disposition \in Dispositions
    /\ r.op = "decide" => library[Proposed] # NoClaim
    /\ r.op \in {"submit", "approve"} => asset.state # "none"
    /\ r.op = "submit" => (r.verdict # "blocked" => Unsaid(asset.body))
    /\ r.op = "approve" => Unsaid(asset.body)
    /\ r.op \in {"scan", "register"} => r.arm \in Arms /\ r.body \in Copies
    /\ r.op = "register" => /\ r.verdict \in {"clean", "requires_disclosure"}
                            /\ Unsaid(r.body) /\ Disclosed(r.body, r.verdict)
    /\ r.op = "start" => Cardinality(Variants) >= 2

MarketingRequestsOK == \A c \in Clerks : MarketingRequestOK(request[c])

\* What no step undoes.
MarketingSettle ==
    /\ \A p \in Phrases : library[p] # NoClaim => library'[p] # NoClaim
    /\ \A p \in Phrases \ {Proposed} : library'[p] = Founding => library[p] = Founding
    /\ asset.state # "none" => asset'.state # "none" /\ asset'.body = asset.body
    /\ Variants \subseteq Variants'

LEMMA MarketingInitOK ==
    ASSUME MarketingInit, request = [c \in Clerks |-> AtRest]
    PROVE  MarketingRowsOK /\ MarketingRequestsOK
<1>1. NoClaim \in Claims /\ Founding \in Claims /\ Founding.disposition \in Dispositions
      /\ Founding.version >= 1
  BY DEF Claims, NoClaim, Founding, Dispositions
<1>2. \A p \in Phrases : library[p] = IF p = Proposed THEN NoClaim ELSE Founding
  BY DEF MarketingInit
<1>3. LibraryOK
  BY <1>1, <1>2 DEF LibraryOK, MarketingInit
<1>4. asset \in AssetRows /\ asset.state = "none"
  BY DEF MarketingInit, AssetRows
<1>5. experiment \in Experiments /\ ~experiment.started /\ Variants = {}
  BY DEF MarketingInit, Experiments, Variants
<1>6. MarketingRowsOK
  BY <1>3, <1>4, <1>5 DEF MarketingInit, MarketingRowsOK, ApprovedIsInTheLibrary
<1>7. MarketingRequestsOK
  BY DEF MarketingRequestsOK, MarketingRequestOK, AtRest
<1> QED
  BY <1>6, <1>7

LEMMA VariantsAreArms ==
    ASSUME MarketingRowsOK
    PROVE  /\ Variants \subseteq Arms /\ IsFiniteSet(Variants) /\ Cardinality(Variants) \in Nat
           /\ \A a \in Variants : experiment.arms[a] \in ArmRows
<1>1. Variants \subseteq Arms
  BY DEF Variants
<1>2. IsFiniteSet(Variants)
  BY <1>1, MarketingAssumption, FS_Subset
<1>3. \A a \in Variants : experiment.arms[a] \in ArmRows
  BY DEF Variants, MarketingRowsOK, Experiments
<1> QED
  BY <1>1, <1>2, <1>3, FS_CardinalityType

\* What a scan that finds nothing banned shows of a text.
LEMMA ScansShow ==
    ASSUME LibraryOK, NEW body
    PROVE  /\ ScanForTenant(body) \in {"refused", "clean", "blocked", "requires_disclosure"}
           /\ ScanForTenant(body) \in {"clean", "requires_disclosure"} => Unsaid(body)
           /\ ScanForTenant(body) = "clean" => RequiredDisclosures(body) = {}
           /\ ScanForTenant(body) = "requires_disclosure" => RequiredDisclosures(body) # {}
<1>1. ScanForTenant(body) \in {"refused", "clean", "blocked", "requires_disclosure"}
  BY DEF ScanForTenant, ScanText
<1>2. ASSUME ScanForTenant(body) \in {"clean", "requires_disclosure"} PROVE Unsaid(body)
  <2>1. \A p \in Findings(body) : library[p].disposition # "banned"
    BY <1>2 DEF ScanForTenant, ScanText
  <2>2. ASSUME NEW p \in Phrases, library[p] = Founding, p \in body.says PROVE FALSE
    BY <2>1, <2>2 DEF Findings, ActiveLibrary, Founding
  <2> QED
    BY <2>2 DEF Unsaid
<1>3. ASSUME ScanForTenant(body) = "clean" PROVE RequiredDisclosures(body) = {}
  <2>1. Findings(body) = {}
    BY <1>3 DEF ScanForTenant, ScanText
  <2> QED
    BY <2>1 DEF RequiredDisclosures
<1>4. ASSUME ScanForTenant(body) = "requires_disclosure" PROVE RequiredDisclosures(body) # {}
  <2>1. Findings(body) # {} /\ \A p \in Findings(body) : library[p].disposition # "banned"
    BY <1>4 DEF ScanForTenant, ScanText
  <2>2. PICK p \in Findings(body) : TRUE
    BY <2>1
  <2>3. p \in Phrases /\ library[p].active /\ library[p].disposition \notin {"approved", "banned"}
    BY <2>1, <2>2 DEF Findings, ActiveLibrary
  <2>4. library[p].disposition \in Dispositions
    BY <2>3 DEF LibraryOK, NoClaim
  <2>5. p \in RequiredDisclosures(body)
    BY <2>2, <2>3, <2>4 DEF RequiredDisclosures, Dispositions
  <2> QED
    BY <2>5
<1> QED
  BY <1>1, <1>2, <1>3, <1>4

\* What is admitted discloses what it must.
LEMMA AdmittedIsDisclosed ==
    ASSUME LibraryOK, NEW body, Admits(body)
    PROVE  Unsaid(body) /\ Disclosed(body, ScanForTenant(body))
<1>1. Unsaid(body)
  BY ScansShow DEF Admits
<1>2. ASSUME ScanForTenant(body) = "requires_disclosure" PROVE body.says \cap body.discloses # {}
  <2>1. PICK p \in RequiredDisclosures(body) : TRUE
    BY <1>2, ScansShow
  <2>2. p \in body.says
    BY <2>1 DEF RequiredDisclosures, Findings
  <2> QED
    BY <2>1, <2>2 DEF Admits
<1> QED
  BY <1>1, <1>2 DEF Disclosed

LEMMA MarketingAnswers ==
    ASSUME MarketingRowsOK
    PROVE  /\ MarketingTypeOK /\ BannedAllAlongIsUnsaid /\ ApprovedIsInTheLibrary
           /\ ArmsAreComparable /\ StaleArmsAreSeen
<1>1. MarketingTypeOK
  BY VariantsAreArms
     DEF MarketingRowsOK, LibraryOK, Claims, AssetRows, ArmRows, MarketingTypeOK
<1>2. BannedAllAlongIsUnsaid
  BY DEF MarketingRowsOK, BannedAllAlongIsUnsaid, Unsaid
<1>3. ArmsAreComparable
  BY DEF MarketingRowsOK, ArmsAreComparable, Disclosed
<1>4. ASSUME NEW a \in Variants, NEW arm, arm = experiment.arms[a], a \notin StaleVariants,
             ~(arm.verdict = "requires_disclosure" /\ RequiredDisclosures(arm.body) # {})
      PROVE  Admits(arm.body)
  <2>1. ScanForTenant(arm.body) = arm.verdict
    BY <1>4 DEF StaleVariants
  <2>2. arm.verdict \in {"clean", "requires_disclosure"}
    BY <1>4, VariantsAreArms DEF ArmRows
  <2>3. RequiredDisclosures(arm.body) = {}
    BY <1>4, <2>1, <2>2, ScansShow DEF MarketingRowsOK
  <2> QED
    BY <2>1, <2>2, <2>3 DEF Admits
<1>5. StaleArmsAreSeen
  BY <1>4 DEF StaleArmsAreSeen
<1> QED
  BY <1>1, <1>2, <1>3, <1>5 DEF MarketingRowsOK

\* An entry is replaced by one of a later version; no founding ban comes back.
LEMMA EntriesMoveOn ==
    ASSUME LibraryOK, NEW p \in Phrases, NEW disposition \in Dispositions, NEW version \in Nat,
           p # Proposed => version >= 1, Upsert(p, disposition, version)
    PROVE  /\ LibraryOK' /\ library'[p] # NoClaim
           /\ \A q \in Phrases : library[q] # NoClaim => library'[q] # NoClaim
           /\ \A q \in Phrases \ {Proposed} : library'[q] = Founding => library[q] = Founding
<1>1. PICK number \in Nat : number = IF library[p] = NoClaim THEN 1 ELSE version + 1
  OBVIOUS
<1>2. PICK new : new = [disposition |-> disposition, active |-> TRUE, version |-> number]
  OBVIOUS
<1>3. library' = [library EXCEPT ![p] = new]
  BY <1>1, <1>2 DEF Upsert
<1>4. new \in Claims /\ new # NoClaim /\ new.disposition \in Dispositions /\ new.version >= 1
  BY <1>1, <1>2 DEF Claims, NoClaim
<1>5. library'[p] = new /\ \A q \in Phrases : q # p => library'[q] = library[q]
  BY <1>3 DEF LibraryOK
<1>6. library' \in [Phrases -> Claims]
  BY <1>3, <1>4 DEF LibraryOK
<1>7. ASSUME p # Proposed PROVE new # Founding
  <2>1. library[p] # NoClaim
    BY <1>7 DEF LibraryOK, NoClaim
  <2>2. number > 1
    BY <1>1, <1>7, <2>1
  <2> QED
    BY <1>2, <2>2 DEF Founding
<1>8. LibraryOK'
  BY <1>4, <1>5, <1>6 DEF LibraryOK
<1> QED
  BY <1>4, <1>5, <1>7, <1>8

LEMMA UnsaidStays ==
    ASSUME NEW body, Unsaid(body), MarketingSettle
    PROVE  Unsaid(body)'
BY DEF Unsaid, MarketingSettle

LEMMA MarketingRequestStands ==
    ASSUME NEW r, MarketingRequestOK(r), MarketingSettle, MarketingRowsOK, MarketingRowsOK'
    PROVE  MarketingRequestOK(r)'
<1>1. r.op = "decide" => library'[Proposed] # NoClaim
  BY MarketingAssumption DEF MarketingRequestOK, MarketingSettle
<1>2. /\ r.op \in {"submit", "approve"} => asset'.state # "none"
      /\ r.op = "submit" => (r.verdict # "blocked" => Unsaid(asset.body)')
      /\ r.op = "approve" => Unsaid(asset.body)'
  BY UnsaidStays DEF MarketingRequestOK, MarketingSettle
<1>3. r.op = "register" => Unsaid(r.body)'
  BY UnsaidStays DEF MarketingRequestOK
<1>4. r.op = "start" => Cardinality(Variants') >= 2
  <2>1. IsFiniteSet(Variants') /\ Cardinality(Variants') \in Nat
    <3>1. Variants' \subseteq Arms
      BY DEF Variants
    <3> QED
      BY <3>1, MarketingAssumption, FS_Subset, FS_CardinalityType
  <2>2. Cardinality(Variants) <= Cardinality(Variants')
    BY <2>1, FS_Subset DEF MarketingSettle
  <2> QED
    BY <2>1, <2>2, VariantsAreArms DEF MarketingRequestOK
<1> QED
  BY <1>1, <1>2, <1>3, <1>4 DEF MarketingRequestOK, Disclosed

LEMMA MarketingRequestsKept ==
    ASSUME NEW c \in Clerks, NEW next, Turns(c, next), MarketingRequestsOK, MarketingRowsOK,
           MarketingRowsOK', MarketingRequestOK(next)', MarketingSettle
    PROVE  MarketingRequestsOK'
<1>1. ASSUME NEW d \in Clerks PROVE MarketingRequestOK(request[d])'
  <2>1. CASE d = c
    <3>1. request'[d] = next
      BY <2>1 DEF Turns
    <3> QED
      BY <3>1, Zenon DEF MarketingRequestOK
  <2>2. CASE d # c
    BY <2>2, MarketingRequestStands DEF Turns, MarketingRequestsOK
  <2> QED
    BY <2>1, <2>2
<1> QED
  BY <1>1 DEF MarketingRequestsOK

LEMMA MarketingStep ==
    ASSUME RequestsOK, today \in Nat, MarketingRowsOK, MarketingRequestsOK, MarketingNext
    PROVE  RequestsOK' /\ today' \in Nat /\ MarketingRowsOK' /\ MarketingRequestsOK'
<1> DEFINE Serves(c, next) == /\ Turns(c, next) /\ MarketingRowsOK'
                              /\ MarketingRequestOK(next)' /\ MarketingSettle
<1>1. MarketingRequestOK(AtRest)'
  BY DEF MarketingRequestOK, AtRest
<1>2. ASSUME NEW c \in Clerks PROVE MarketingRequestOK(request[c])
  BY DEF MarketingRequestsOK
<1>3. LibraryOK
  BY DEF MarketingRowsOK
<1>4. UNCHANGED marketingRows => MarketingRowsOK' /\ MarketingSettle
  <2> SUFFICES ASSUME library' = library, proposal' = proposal, asset' = asset,
                      experiment' = experiment
               PROVE  MarketingRowsOK' /\ MarketingSettle
    BY DEF marketingRows
  <2>1. Variants' = Variants
    BY DEF Variants
  <2> QED
    BY <2>1 DEF MarketingRowsOK, MarketingSettle, LibraryOK, ApprovedIsInTheLibrary, Unsaid, Disclosed
\* A request that only looks.
<1>5. ASSUME NEW c \in Clerks, NEW next, Turns(c, next), UNCHANGED marketingRows,
             MarketingRequestOK(next)
      PROVE  Serves(c, next)
  BY <1>4, <1>5, MarketingRequestStands
\* An entry is written.
<1>6. ASSUME NEW p \in Phrases, NEW disposition \in Dispositions, NEW version \in Nat,
             p # Proposed => version >= 1, Upsert(p, disposition, version),
             UNCHANGED <<proposal, asset, experiment>>
      PROVE  MarketingRowsOK' /\ MarketingSettle /\ library'[p] # NoClaim
  <2>1. /\ LibraryOK' /\ library'[p] # NoClaim
        /\ \A q \in Phrases : library[q] # NoClaim => library'[q] # NoClaim
        /\ \A q \in Phrases \ {Proposed} : library'[q] = Founding => library[q] = Founding
    BY <1>3, <1>6, EntriesMoveOn
  <2>2. Variants' = Variants
    BY <1>6 DEF Variants
  <2>3. MarketingSettle
    BY <1>6, <2>1, <2>2 DEF MarketingSettle
  <2>4. ApprovedIsInTheLibrary'
    BY <1>6, <2>1, MarketingAssumption DEF MarketingRowsOK, ApprovedIsInTheLibrary
  <2>5. \A body : Unsaid(body) => Unsaid(body)'
    BY <2>3, UnsaidStays
  <2> QED
    BY <1>6, <2>1, <2>2, <2>3, <2>4, <2>5 DEF MarketingRowsOK, Disclosed
\* The asset's state moves on.
<1>7. ASSUME NEW state \in {"in_review", "approved", "rejected"}, asset.state # "none",
             asset' = [asset EXCEPT !.state = state], UNCHANGED <<library, proposal, experiment>>,
             state # "rejected" => Unsaid(asset.body)
      PROVE  MarketingRowsOK' /\ MarketingSettle
  <2>1. asset' \in AssetRows /\ asset'.state = state /\ asset'.body = asset.body
    BY <1>7 DEF MarketingRowsOK, AssetRows
  <2>2. Variants' = Variants
    BY <1>7 DEF Variants
  <2> QED
    BY <1>7, <2>1, <2>2
       DEF MarketingRowsOK, MarketingSettle, LibraryOK, ApprovedIsInTheLibrary, Unsaid, Disclosed
\* The proposal or the experiment is marked.
<1>8. ASSUME library' = library, asset' = asset, experiment' = experiment,
             proposal' \in {"none", "submitted", "approved", "rejected"},
             proposal' = "approved" => library[Proposed] # NoClaim
      PROVE  MarketingRowsOK' /\ MarketingSettle
  <2>1. Variants' = Variants
    BY <1>8 DEF Variants
  <2> QED
    BY <1>8, <2>1
       DEF MarketingRowsOK, MarketingSettle, LibraryOK, ApprovedIsInTheLibrary, Unsaid, Disclosed
<1>9. ASSUME library' = library, asset' = asset, proposal' = proposal,
             experiment' \in Experiments, experiment'.arms = experiment.arms,
             experiment'.started => Cardinality(Variants) >= 2
      PROVE  MarketingRowsOK' /\ MarketingSettle
  <2>1. Variants' = Variants
    BY <1>9 DEF Variants
  <2> QED
    BY <1>9, <2>1
       DEF MarketingRowsOK, MarketingSettle, LibraryOK, ApprovedIsInTheLibrary, Unsaid, Disclosed
<1>10. ASSUME NEW c \in Clerks, Publish(c) PROVE \E next : Serves(c, next)
  <2>1. CASE /\ UNCHANGED marketingRows
             /\ \E p \in Phrases, d \in Dispositions :
                   Begins(c, [op |-> "publish", phrase |-> p, disposition |-> d,
                              version |-> library[p].version])
    <3>1. PICK p \in Phrases, d \in Dispositions :
                   Begins(c, [op |-> "publish", phrase |-> p, disposition |-> d,
                              version |-> library[p].version])
      BY <2>1
    <3>2. PICK next : next = [op |-> "publish", phrase |-> p, disposition |-> d,
                              version |-> library[p].version]
      OBVIOUS
    <3>3. library[p].version \in Nat /\ (p # Proposed => library[p].version >= 1)
      BY <1>3 DEF LibraryOK, Claims
    <3>4. MarketingRequestOK(next)
      BY <3>2, <3>3 DEF MarketingRequestOK
    <3> QED
      BY <1>5, <2>1, <3>1, <3>2, <3>4, DeskTurns
  <2>2. CASE /\ Doing(c, "publish") /\ Finishes(c)
             /\ Upsert(request[c].phrase, request[c].disposition, request[c].version)
             /\ UNCHANGED <<proposal, asset, experiment>>
    <3>1. /\ request[c].phrase \in Phrases /\ request[c].disposition \in Dispositions
          /\ request[c].version \in Nat
          /\ request[c].phrase # Proposed => request[c].version >= 1
      BY <1>2, <2>2 DEF MarketingRequestOK, Doing
    <3>2. MarketingRowsOK' /\ MarketingSettle
      BY <1>6, <2>2, <3>1
    <3> QED
      BY <1>1, <2>2, <3>2, DeskTurns
  <2> QED
    BY <1>10, <2>1, <2>2 DEF Publish
<1>11. ASSUME NEW c \in Clerks, Deprecate(c) PROVE \E next : Serves(c, next)
  <2>1. PICK p \in Phrases : /\ library[p] # NoClaim
                             /\ library' = [library EXCEPT ![p].active = FALSE]
                             /\ UNCHANGED <<proposal, asset, experiment>> /\ Begins(c, AtRest)
    BY <1>11 DEF Deprecate
  <2>2. PICK was \in Claims : was = library[p]
    BY <1>3 DEF LibraryOK
  <2>3. PICK row : row = [was EXCEPT !.active = FALSE]
    OBVIOUS
  <2>4. /\ row \in Claims /\ row.disposition = was.disposition /\ row.version = was.version
        /\ ~row.active
    BY <2>3 DEF Claims
  <2>5. library' = [library EXCEPT ![p] = row]
    BY <1>3, <2>1, <2>2, <2>3 DEF LibraryOK
  <2>6. library'[p] = row /\ \A q \in Phrases : q # p => library'[q] = library[q]
    BY <1>3, <2>5 DEF LibraryOK
  <2>7. library' \in [Phrases -> Claims]
    BY <1>3, <2>4, <2>5 DEF LibraryOK
  <2>8. was.disposition \in Dispositions /\ row # NoClaim /\ row # Founding
    BY <1>3, <2>1, <2>2, <2>4 DEF LibraryOK, NoClaim, Founding, Dispositions
  <2>9. LibraryOK'
    BY <1>3, <2>2, <2>4, <2>6, <2>7, <2>8 DEF LibraryOK
  <2>10. Variants' = Variants
    BY <2>1 DEF Variants
  <2>11. MarketingSettle
    BY <2>1, <2>6, <2>8, <2>10 DEF MarketingSettle
  <2>12. ApprovedIsInTheLibrary'
    BY <2>1, <2>6, <2>8, MarketingAssumption DEF MarketingRowsOK, ApprovedIsInTheLibrary
  <2>13. \A body : Unsaid(body) => Unsaid(body)'
    BY <2>11, UnsaidStays
  <2>14. MarketingRowsOK'
    BY <2>1, <2>9, <2>10, <2>12, <2>13 DEF MarketingRowsOK, Disclosed
  <2> QED
    BY <1>1, <2>1, <2>11, <2>14, DeskTurns
<1>12. ASSUME NEW c \in Clerks, ProposeClaim(c) PROVE \E next : Serves(c, next)
  BY <1>1, <1>8, <1>12, DeskTurns DEF ProposeClaim
<1>13. ASSUME NEW c \in Clerks, ApproveProposal(c) PROVE \E next : Serves(c, next)
  <2>1. CASE /\ UNCHANGED marketingRows
             /\ \E d \in Dispositions : Begins(c, [op |-> "look up", disposition |-> d])
    <3>1. PICK d \in Dispositions : Begins(c, [op |-> "look up", disposition |-> d])
      BY <2>1
    <3>2. PICK next : next = [op |-> "look up", disposition |-> d]
      OBVIOUS
    <3>3. MarketingRequestOK(next)
      BY <3>2 DEF MarketingRequestOK
    <3> QED
      BY <1>5, <2>1, <3>1, <3>2, <3>3, DeskTurns
  <2>2. CASE /\ Doing(c, "look up") /\ UNCHANGED marketingRows
             /\ GoesOn(c, [op |-> "enter", disposition |-> request[c].disposition,
                           version |-> library[Proposed].version])
    <3>1. PICK next : next = [op |-> "enter", disposition |-> request[c].disposition,
                              version |-> library[Proposed].version]
      OBVIOUS
    <3>2. library[Proposed].version \in Nat
      BY <1>3, MarketingAssumption DEF LibraryOK, Claims
    <3>3. request[c].disposition \in Dispositions
      BY <1>2, <2>2 DEF MarketingRequestOK, Doing
    <3>4. MarketingRequestOK(next)
      BY <3>1, <3>2, <3>3 DEF MarketingRequestOK
    <3> QED
      BY <1>5, <2>2, <3>1, <3>4, DeskTurns
  <2>3. CASE /\ Doing(c, "enter") /\ GoesOn(c, [op |-> "decide"])
             /\ Upsert(Proposed, request[c].disposition, request[c].version)
             /\ UNCHANGED <<proposal, asset, experiment>>
    <3>1. request[c].disposition \in Dispositions /\ request[c].version \in Nat
      BY <1>2, <2>3 DEF MarketingRequestOK, Doing
    <3>2. MarketingRowsOK' /\ MarketingSettle /\ library'[Proposed] # NoClaim
      BY <1>6, <2>3, <3>1, MarketingAssumption
    <3>3. PICK next : next = [op |-> "decide"]
      OBVIOUS
    <3>4. MarketingRequestOK(next)'
      BY <3>2, <3>3 DEF MarketingRequestOK
    <3> QED
      BY <2>3, <3>2, <3>3, <3>4, DeskTurns
  <2>4. CASE /\ Doing(c, "decide") /\ Finishes(c) /\ proposal' = "approved"
             /\ UNCHANGED <<library, asset, experiment>>
    <3>1. library[Proposed] # NoClaim
      BY <1>2, <2>4 DEF MarketingRequestOK, Doing
    <3> QED
      BY <1>1, <1>8, <2>4, <3>1, DeskTurns
  <2> QED
    BY <1>13, <2>1, <2>2, <2>3, <2>4 DEF ApproveProposal
<1>14. ASSUME NEW c \in Clerks, RejectProposal(c) PROVE \E next : Serves(c, next)
  <2>1. CASE UNCHANGED marketingRows /\ Begins(c, [op |-> "reject"])
    <3>1. PICK next : next = [op |-> "reject"]
      OBVIOUS
    <3>2. MarketingRequestOK(next)
      BY <3>1 DEF MarketingRequestOK
    <3> QED
      BY <1>5, <2>1, <3>1, <3>2, DeskTurns
  <2>2. CASE /\ Doing(c, "reject") /\ Finishes(c) /\ proposal' = "rejected"
             /\ UNCHANGED <<library, asset, experiment>>
    BY <1>1, <1>8, <2>2, DeskTurns
  <2> QED
    BY <1>14, <2>1, <2>2 DEF RejectProposal
<1>15. ASSUME NEW c \in Clerks, CreateAsset(c) PROVE \E next : Serves(c, next)
  <2>1. PICK b \in Copies : asset' = [state |-> "draft", body |-> b]
    BY <1>15 DEF CreateAsset
  <2>2. asset' \in AssetRows /\ asset'.state = "draft"
    BY <2>1 DEF AssetRows
  <2>3. asset.state = "none" /\ UNCHANGED <<library, proposal, experiment>> /\ Begins(c, AtRest)
    BY <1>15 DEF CreateAsset
  <2>4. Variants' = Variants
    BY <2>3 DEF Variants
  <2>5. MarketingRowsOK' /\ MarketingSettle
    BY <2>2, <2>3, <2>4
       DEF MarketingRowsOK, MarketingSettle, LibraryOK, ApprovedIsInTheLibrary, Unsaid, Disclosed
  <2> QED
    BY <1>1, <2>3, <2>5, DeskTurns
<1>16. ASSUME NEW c \in Clerks, SubmitAssetForReview(c) PROVE \E next : Serves(c, next)
  <2>1. CASE /\ asset.state # "none" /\ ScanForTenant(asset.body) # "refused"
             /\ UNCHANGED marketingRows
             /\ Begins(c, [op |-> "submit", verdict |-> ScanForTenant(asset.body)])
    <3>1. PICK next : next = [op |-> "submit", verdict |-> ScanForTenant(asset.body)]
      OBVIOUS
    <3>2. ScanForTenant(asset.body) # "blocked" => Unsaid(asset.body)
      BY <1>3, <2>1, ScansShow
    <3>3. MarketingRequestOK(next)
      BY <2>1, <3>1, <3>2 DEF MarketingRequestOK
    <3> QED
      BY <1>5, <2>1, <3>1, <3>3, DeskTurns
  <2>2. CASE /\ Doing(c, "submit") /\ Finishes(c)
             /\ asset' = [asset EXCEPT !.state = IF request[c].verdict = "blocked" THEN "rejected"
                                                ELSE "in_review"]
             /\ UNCHANGED <<library, proposal, experiment>>
    <3>1. PICK state \in {"in_review", "rejected"} :
              state = IF request[c].verdict = "blocked" THEN "rejected" ELSE "in_review"
      OBVIOUS
    <3>2. asset.state # "none" /\ (state # "rejected" => Unsaid(asset.body))
      BY <1>2, <2>2, <3>1 DEF MarketingRequestOK, Doing
    <3>3. MarketingRowsOK' /\ MarketingSettle
      BY <1>7, <2>2, <3>1, <3>2
    <3> QED
      BY <1>1, <2>2, <3>3, DeskTurns
  <2> QED
    BY <1>16, <2>1, <2>2 DEF SubmitAssetForReview
<1>17. ASSUME NEW c \in Clerks, ApproveAsset(c) PROVE \E next : Serves(c, next)
  <2>1. CASE asset.state = "in_review" /\ UNCHANGED marketingRows /\ Begins(c, [op |-> "approve"])
    <3>1. PICK next : next = [op |-> "approve"]
      OBVIOUS
    <3>2. MarketingRequestOK(next)
      BY <2>1, <3>1 DEF MarketingRequestOK, MarketingRowsOK
    <3> QED
      BY <1>5, <2>1, <3>1, <3>2, DeskTurns
  <2>2. CASE /\ Doing(c, "approve") /\ Finishes(c)
             /\ asset' = [asset EXCEPT !.state = "approved"]
             /\ UNCHANGED <<library, proposal, experiment>>
    <3>1. asset.state # "none" /\ Unsaid(asset.body)
      BY <1>2, <2>2 DEF MarketingRequestOK, Doing
    <3>2. MarketingRowsOK' /\ MarketingSettle
      BY <1>7, <2>2, <3>1
    <3> QED
      BY <1>1, <2>2, <3>2, DeskTurns
  <2> QED
    BY <1>17, <2>1, <2>2 DEF ApproveAsset
<1>18. ASSUME NEW c \in Clerks, RegisterVariant(c) PROVE \E next : Serves(c, next)
  <2>1. CASE /\ ~experiment.started /\ UNCHANGED marketingRows
             /\ \E a \in Arms, b \in Copies : Begins(c, [op |-> "scan", arm |-> a, body |-> b])
    <3>1. PICK a \in Arms, b \in Copies : Begins(c, [op |-> "scan", arm |-> a, body |-> b])
      BY <2>1
    <3>2. PICK next : next = [op |-> "scan", arm |-> a, body |-> b]
      OBVIOUS
    <3>3. MarketingRequestOK(next)
      BY <3>2 DEF MarketingRequestOK
    <3> QED
      BY <1>5, <2>1, <3>1, <3>2, <3>3, DeskTurns
  <2>2. CASE /\ Doing(c, "scan") /\ UNCHANGED marketingRows /\ Admits(request[c].body)
             /\ GoesOn(c, [op |-> "register", arm |-> request[c].arm, body |-> request[c].body,
                           verdict |-> ScanForTenant(request[c].body)])
    <3>1. PICK next : next = [op |-> "register", arm |-> request[c].arm,
                              body |-> request[c].body,
                              verdict |-> ScanForTenant(request[c].body)]
      OBVIOUS
    <3>2. request[c].arm \in Arms /\ request[c].body \in Copies
      BY <1>2, <2>2 DEF MarketingRequestOK, Doing
    <3>3. /\ Unsaid(request[c].body) /\ Disclosed(request[c].body, ScanForTenant(request[c].body))
          /\ ScanForTenant(request[c].body) \in {"clean", "requires_disclosure"}
      BY <1>3, <2>2, AdmittedIsDisclosed DEF Admits
    <3>4. MarketingRequestOK(next)
      BY <3>1, <3>2, <3>3 DEF MarketingRequestOK
    <3> QED
      BY <1>5, <2>2, <3>1, <3>4, DeskTurns
  <2>3. CASE Doing(c, "scan") /\ ~Admits(request[c].body) /\ Finishes(c) /\ UNCHANGED marketingRows
    BY <1>1, <1>4, <2>3, DeskTurns
  <2>4. CASE /\ Doing(c, "register") /\ Finishes(c)
             /\ experiment' = [experiment EXCEPT !.arms[request[c].arm] =
                                 [body |-> request[c].body, verdict |-> request[c].verdict]]
             /\ UNCHANGED <<library, proposal, asset>>
    <3>1. PICK a, body, verdict :
             a = request[c].arm /\ body = request[c].body /\ verdict = request[c].verdict
      OBVIOUS
    <3>2. /\ a \in Arms /\ body \in Copies /\ verdict \in {"clean", "requires_disclosure"}
          /\ Unsaid(body) /\ Disclosed(body, verdict)
      BY <1>2, <2>4, <3>1 DEF MarketingRequestOK, Doing
    <3>3. PICK row : row = [body |-> body, verdict |-> verdict]
      OBVIOUS
    <3>4. row \in ArmRows /\ row # NoArm /\ row.body = body /\ row.verdict = verdict
      BY <3>2, <3>3 DEF ArmRows, NoArm
    <3>5. PICK was \in Experiments : was = experiment
      BY DEF MarketingRowsOK
    <3>6. PICK arms : arms = [was.arms EXCEPT ![a] = row]
      OBVIOUS
    <3>7. experiment' = [was EXCEPT !.arms = arms]
      BY <2>4, <3>1, <3>3, <3>5, <3>6
    <3>8. /\ arms \in [Arms -> ArmRows \union {NoArm}] /\ arms[a] = row
          /\ \A b \in Arms \ {a} : arms[b] = experiment.arms[b]
      BY <3>2, <3>4, <3>5, <3>6 DEF Experiments
    <3>9. /\ experiment' \in Experiments /\ experiment'.arms = arms
          /\ experiment'.started = experiment.started
      BY <3>5, <3>7, <3>8 DEF Experiments
    <3>10. Variants' = Variants \union {a}
      BY <3>2, <3>4, <3>8, <3>9 DEF Variants
    <3>11. MarketingSettle
      BY <2>4, <3>10 DEF MarketingSettle
    <3>12. \A b : Unsaid(b) => Unsaid(b)'
      BY <3>11, UnsaidStays
    <3>13. \A b \in Variants' : /\ Unsaid(experiment.arms[b].body)'
                                 /\ Disclosed(experiment.arms[b].body, experiment.arms[b].verdict)'
      <4> SUFFICES ASSUME NEW b \in Variants'
                   PROVE  /\ Unsaid(experiment.arms[b].body)'
                          /\ Disclosed(experiment.arms[b].body, experiment.arms[b].verdict)'
        OBVIOUS
      <4>1. CASE b = a
        BY <3>2, <3>4, <3>8, <3>9, <3>12, <4>1 DEF Disclosed
      <4>2. CASE b # a
        <5>1. b \in Variants /\ b \in Arms \ {a}
          BY <3>10, <4>2 DEF Variants
        <5> QED
          BY <3>8, <3>9, <3>12, <5>1 DEF MarketingRowsOK, Disclosed
      <4> QED
        BY <4>1, <4>2
    <3>14. experiment.started => Cardinality(Variants') >= 2
      <4>1. Variants' \subseteq Arms /\ Variants \subseteq Variants'
        BY <3>2, <3>10, VariantsAreArms
      <4>2. IsFiniteSet(Variants')
        BY <4>1, MarketingAssumption, FS_Subset
      <4>3. Cardinality(Variants) <= Cardinality(Variants') /\ Cardinality(Variants') \in Nat
        BY <4>1, <4>2, FS_Subset, FS_CardinalityType
      <4> QED
        BY <4>3, VariantsAreArms DEF MarketingRowsOK
    <3>15. LibraryOK' /\ ApprovedIsInTheLibrary' /\ asset' \in AssetRows
           /\ proposal' \in {"none", "submitted", "approved", "rejected"}
           /\ (asset'.state \in {"in_review", "approved"} => Unsaid(asset.body)')
      BY <2>4, <3>12 DEF MarketingRowsOK, LibraryOK, ApprovedIsInTheLibrary
    <3>16. MarketingRowsOK'
      BY <3>9, <3>13, <3>14, <3>15 DEF MarketingRowsOK
    <3> QED
      BY <1>1, <2>4, <3>11, <3>16, DeskTurns
  <2> QED
    BY <1>18, <2>1, <2>2, <2>3, <2>4 DEF RegisterVariant
<1>19. ASSUME NEW c \in Clerks, StartExperiment(c) PROVE \E next : Serves(c, next)
  <2>1. CASE /\ Cardinality(Variants) >= 2 /\ UNCHANGED marketingRows
             /\ Begins(c, [op |-> "start"])
    <3>1. PICK next : next = [op |-> "start"]
      OBVIOUS
    <3>2. MarketingRequestOK(next)
      BY <2>1, <3>1 DEF MarketingRequestOK
    <3> QED
      BY <1>5, <2>1, <3>1, <3>2, DeskTurns
  <2>2. CASE /\ Doing(c, "start") /\ Finishes(c)
             /\ experiment' = [experiment EXCEPT !.started = TRUE]
             /\ UNCHANGED <<library, proposal, asset>>
    <3>1. Cardinality(Variants) >= 2
      BY <1>2, <2>2 DEF MarketingRequestOK, Doing
    <3>2. experiment' \in Experiments /\ experiment'.arms = experiment.arms
      BY <2>2 DEF MarketingRowsOK, Experiments
    <3>3. MarketingRowsOK' /\ MarketingSettle
      BY <1>9, <2>2, <3>1, <3>2
    <3> QED
      BY <1>1, <2>2, <3>3, DeskTurns
  <2> QED
    BY <1>19, <2>1, <2>2 DEF StartExperiment
<1>20. ASSUME NEW c \in Clerks, DeclareWinner(c) PROVE \E next : Serves(c, next)
  <2>1. /\ experiment' \in Experiments /\ experiment'.arms = experiment.arms
        /\ experiment'.started = experiment.started
    BY <1>20 DEF DeclareWinner, MarketingRowsOK, Experiments
  <2>2. MarketingRowsOK' /\ MarketingSettle
    BY <1>9, <1>20, <2>1 DEF DeclareWinner, MarketingRowsOK
  <2> QED
    BY <1>1, <1>20, <2>2, DeskTurns DEF DeclareWinner
<1>21. ASSUME NEW c \in Clerks, MarketeerDies(c) PROVE \E next : Serves(c, next)
  BY <1>1, <1>4, <1>21, DeskTurns DEF MarketeerDies
<1>22. PICK c, next : c \in Clerks /\ Serves(c, next)
  BY <1>10, <1>11, <1>12, <1>13, <1>14, <1>15, <1>16, <1>17, <1>18, <1>19, <1>20, <1>21
     DEF MarketingNext
<1>23. MarketingRequestsOK'
  BY <1>22, MarketingRequestsKept
<1> QED
  BY <1>22, <1>23 DEF Turns

-----------------------------------------------------------------------------
(***************************************************************************)
(* The Console's routes.  What the catalogue of routes says is read off    *)
(* screen by screen; what a request has passed stays passed, because       *)
(* nobody loses a level and the ledger only grows, and a client's standing *)
(* is looked at again wherever it may have changed.                        *)
(***************************************************************************)
Ungated == {"open", "limited", "own", "module"}
Grave   == {"activateState", "withdrawState", "inviteStaff", "restoreStaffPasswordSignIn",
            "releaseHold", "releaseLegalHold", "transitionComplianceState"}
Work    == {"requestRecommendation", "ingest", "recordFindings", "recordNormalizedFeed",
            "generateDisclosure", "raiseInvoice", "recordReadiness"}

\* A route that writes has a gate; what is grave is for Level 3; work for a
\* client names him and is no determination about him.
Gated(route) ==
    /\ route.gate \in DOMAIN MinimumLevel \union Ungated \union {"staff"}
    /\ route.writes => route.gate # "staff"
    /\ route.writes /\ route.op \in Grave =>
          route.gate = "module" \/ (route.gate \in DOMAIN MinimumLevel /\ MinimumLevel[route.gate] = 3)
    /\ route.writes /\ route.op \in Work =>
          /\ route.gate \in DOMAIN MinimumLevel \ GovernanceActions /\ route.client = "path"

LEMMA CatalogueOfActions ==
    /\ \A a \in DOMAIN MinimumLevel : MinimumLevel[a] \in 1..3
    /\ \A a \in Ungated \union {"staff"} : a \notin DOMAIN MinimumLevel
BY DEF MinimumLevel, Ungated

LEMMA LevelOneActions ==
    \A a \in {"trigger_firewall", "draft_recommendation", "generate_conflict_disclosure",
              "manage_lead", "record_market_intelligence", "draft_deliverable",
              "record_lead_activity", "run_workflow", "record_partner_finding"} :
        a \in DOMAIN MinimumLevel
BY DEF MinimumLevel

LEMMA LevelTwoActions ==
    \A a \in {"record_client_consent", "create_client_record", "tag_venture",
              "record_funding_outcome", "record_entity_graph", "deliver_deliverable",
              "onboard_partner", "record_partner_completion"} :
        a \in DOMAIN MinimumLevel
BY DEF MinimumLevel

LEMMA LevelThreeActions ==
    \A a \in {"transition_compliance_state", "change_system_parameter", "publish_offer",
              "manage_engagement", "publish_contract_clause", "generate_client_contract",
              "reveal_protected_identifier", "place_legal_hold", "release_legal_hold",
              "decide_deletion_request", "remove_vault_document", "set_document_retention",
              "publish_curriculum_module", "raise_intercompany_invoice",
              "mark_attempt_funded", "convert_lead", "register_deliverable_template",
              "end_partner_relationship", "approve_partner_claim", "correct_attribution",
              "publish_playbook", "resolve_partner_finding"} :
        a \in DOMAIN MinimumLevel /\ MinimumLevel[a] = 3
BY DEF MinimumLevel

LEMMA ReadsAreGated ==
    ASSUME NEW ops, NEW route \in Gets(ops)
    PROVE  Gated(route)
<1>1. route.gate = "staff" /\ route.writes = ("staff" # "staff")
  BY DEF Gets, Routes, Route
<1> QED
  BY <1>1 DEF Gated

LEMMA RoutesAreGated ==
    ASSUME NEW ops, NEW gate \in DOMAIN MinimumLevel \union Ungated, ops \cap Work = {},
           ops \cap Grave = {} \/ gate = "module"
             \/ (gate \in DOMAIN MinimumLevel /\ MinimumLevel[gate] = 3)
    PROVE  \A route \in Routes(gate, ops) : Gated(route)
<1> SUFFICES ASSUME NEW route \in Routes(gate, ops) PROVE Gated(route)
  OBVIOUS
<1>1. route.gate = gate /\ route.op \in ops
  BY DEF Routes, Route
<1>2. route.gate # "staff"
  BY <1>1, CatalogueOfActions DEF Ungated
<1> QED
  BY <1>1, <1>2 DEF Gated

LEMMA NamedAreGated ==
    ASSUME NEW ops, NEW action \in DOMAIN MinimumLevel,
           ops \cap Grave = {} \/ MinimumLevel[action] = 3,
           ops \cap Work = {} \/ action \notin GovernanceActions
    PROVE  \A route \in Named(action, ops) : Gated(route)
BY CatalogueOfActions DEF Named, Route, Gated

LEMMA PerhapsNamedAreGated ==
    ASSUME NEW ops, NEW action \in DOMAIN MinimumLevel, ops \cap Work = {},
           ops \cap Grave = {} \/ MinimumLevel[action] = 3
    PROVE  \A route \in PerhapsNamed(action, ops) : Gated(route)
BY CatalogueOfActions DEF PerhapsNamed, Route, Gated

LEMMA LooksAreGated ==
    \A route \in UNION {
        OverviewRoutes, AdminReads, BillingReads, StackReads, ModelRoute, EvidenceRoutes,
        ContractReads, DashboardRoutes, DeliverableReads, GovernanceRoutes, GraphReads,
        IntegrationRoutes, IntelligenceReads, InterventureReads, MarketingRoutes,
        OutcomeReads, PartnerRiskReads, PartnerReads, RegulatoryReads, RetentionReads,
        SalesReads, VaultReads, WarehouseRoutes, WorkbenchRoutes, WorkflowReads} : Gated(route)
BY ReadsAreGated
   DEF OverviewRoutes, AdminReads, BillingReads, StackReads, ModelRoute, EvidenceRoutes,
       ContractReads, DashboardRoutes, DeliverableReads, GovernanceRoutes, GraphReads,
       IntegrationRoutes, IntelligenceReads, InterventureReads, MarketingRoutes,
       OutcomeReads, PartnerRiskReads, PartnerReads, RegulatoryReads, RetentionReads,
       SalesReads, VaultReads, WarehouseRoutes, WorkbenchRoutes, WorkflowReads

LEMMA GatedSignInRoutes == \A route \in SignInRoutes : Gated(route)
<1>1. \A route \in Routes("limited", {"authenticateStaff", "enrolStaffFromInvitation",
                                      "confirmStaffEnrolment"}) :
         Gated(route)
  BY RoutesAreGated DEF Grave, Work, Ungated
<1>2. \A route \in Routes("open", {"health", "revokeStaffSession"}) : Gated(route)
  BY RoutesAreGated DEF Grave, Work, Ungated
<1>3. \A route \in Routes("module", {"inviteStaff"}) : Gated(route)
  BY RoutesAreGated DEF Grave, Work, Ungated
<1>4. \A route \in Gets({"integrationHealth", "me"}) : Gated(route)
  BY ReadsAreGated
<1> QED
  BY <1>1, <1>2, <1>3, <1>4 DEF SignInRoutes

LEMMA GatedClientRoutes == \A route \in ClientRoutes : Gated(route)
<1>1. \A route \in Routes("create_client_record", {"createClient"}) : Gated(route)
  BY RoutesAreGated, LevelTwoActions DEF Grave, Work
<1>2. \A route \in Named("transition_compliance_state", {"transitionComplianceState"}) :
         Gated(route)
  BY NamedAreGated, LevelThreeActions DEF Grave, Work, GovernanceActions
<1>3. \A route \in Named("record_client_consent", {"grantConsent"}) : Gated(route)
  BY NamedAreGated, LevelTwoActions DEF Grave, Work, GovernanceActions
<1>4. \A route \in Named("trigger_firewall", {"triggerFirewall"}) : Gated(route)
  BY NamedAreGated, LevelOneActions DEF Grave, Work, GovernanceActions
<1>5. \A route \in Gets({"firewallStatus"}) : Gated(route)
  BY ReadsAreGated
<1> QED
  BY <1>1, <1>2, <1>3, <1>4, <1>5 DEF ClientRoutes

LEMMA GatedPlacementRoutes == \A route \in PlacementRoutes : Gated(route)
<1>1. \A route \in Named("draft_recommendation", {"requestRecommendation"}) : Gated(route)
  BY NamedAreGated, LevelOneActions DEF Grave, Work, GovernanceActions
<1>2. \A route \in Gets({"readLedger", "verifyIntegrity"}) : Gated(route)
  BY ReadsAreGated
<1> QED
  BY <1>1, <1>2 DEF PlacementRoutes

LEMMA GatedStaffKeySignIn == \A route \in StaffKeySignIn : Gated(route)
<1>1. \A route \in Routes("limited", {"beginStaffPasskeySignIn", "completeStaffPasskeySignIn"}) :
         Gated(route)
  BY RoutesAreGated DEF Grave, Work, Ungated
<1>2. \A route \in Gets({"staffSecurityPosture"}) : Gated(route)
  BY ReadsAreGated
<1> QED
  BY <1>1, <1>2 DEF StaffKeySignIn

LEMMA GatedStaffKeyRoutes == \A route \in StaffKeyRoutes : Gated(route)
<1>1. \A route \in Routes("own", {"beginStaffKeyRegistration", "completeStaffKeyRegistration",
                                  "beginStaffReauthentication", "removeStaffKey",
                                  "disableStaffPasswordSignIn"}) :
         Gated(route)
  BY RoutesAreGated DEF Grave, Work, Ungated
<1>2. \A route \in Routes("module", {"restoreStaffPasswordSignIn"}) : Gated(route)
  BY RoutesAreGated DEF Grave, Work, Ungated
<1> QED
  BY <1>1, <1>2 DEF StaffKeyRoutes

LEMMA GatedAdminRoutes == \A route \in AdminRoutes : Gated(route)
<1>1. \A route \in Routes("change_system_parameter", {"setParameter", "promoteStagedChange",
                                                      "rollback"}) :
         Gated(route)
  BY RoutesAreGated, LevelThreeActions DEF Grave, Work
<1> QED
  BY <1>1 DEF AdminRoutes

LEMMA GatedBillingRoutes == \A route \in BillingRoutes : Gated(route)
<1>1. \A route \in Routes("publish_offer", {"publishOffer"}) : Gated(route)
  BY RoutesAreGated, LevelThreeActions DEF Grave, Work
<1>2. \A route \in PerhapsNamed("manage_engagement", {"startEngagement"}) : Gated(route)
  BY PerhapsNamedAreGated, LevelThreeActions DEF Grave, Work
<1>3. \A route \in Routes("manage_engagement", {"cancelEngagement", "applyCredit"}) :
         Gated(route)
  BY RoutesAreGated, LevelThreeActions DEF Grave, Work
<1> QED
  BY <1>1, <1>2, <1>3 DEF BillingRoutes

LEMMA GatedContractRoutes == \A route \in ContractRoutes : Gated(route)
<1>1. \A route \in Routes("publish_contract_clause", {"publishClause"}) : Gated(route)
  BY RoutesAreGated, LevelThreeActions DEF Grave, Work
<1>2. \A route \in PerhapsNamed("generate_client_contract", {"generateContract"}) : Gated(route)
  BY PerhapsNamedAreGated, LevelThreeActions DEF Grave, Work
<1> QED
  BY <1>1, <1>2 DEF ContractRoutes

LEMMA GatedDeliverableRoutes == \A route \in DeliverableRoutes : Gated(route)
<1>1. \A route \in PerhapsNamed("draft_deliverable", {"draft"}) : Gated(route)
  BY PerhapsNamedAreGated, LevelOneActions DEF Grave, Work
<1>2. \A route \in Routes("deliver_deliverable", {"approve", "reject", "deliver"}) :
         Gated(route)
  BY RoutesAreGated, LevelTwoActions DEF Grave, Work
<1>3. \A route \in Routes("register_deliverable_template", {"registerTemplate"}) : Gated(route)
  BY RoutesAreGated, LevelThreeActions DEF Grave, Work
<1> QED
  BY <1>1, <1>2, <1>3 DEF DeliverableRoutes

LEMMA GatedRevealRoutes == \A route \in RevealRoutes : Gated(route)
<1>1. \A route \in Routes("reveal_protected_identifier", {"revealSsn", "revealEin"}) :
         Gated(route)
  BY RoutesAreGated, LevelThreeActions DEF Grave, Work
<1> QED
  BY <1>1 DEF RevealRoutes

LEMMA GatedGraphRoutes == \A route \in GraphRoutes : Gated(route)
<1>1. \A route \in Named("record_entity_graph", {"upsertEntity", "upsertOwner", "addEdge",
                                                 "endEdge", "recordStatedRevenue",
                                                 "setPrimaryEntity"}) :
         Gated(route)
  BY NamedAreGated, LevelTwoActions DEF Grave, Work, GovernanceActions
<1> QED
  BY <1>1 DEF GraphRoutes

LEMMA GatedIntelligenceRoutes == \A route \in IntelligenceRoutes : Gated(route)
<1>1. \A route \in Named("record_market_intelligence", {"ingest", "recordNormalizedFeed",
                                                        "recordFindings"}) :
         Gated(route)
  BY NamedAreGated, LevelOneActions DEF Grave, Work, GovernanceActions
<1> QED
  BY <1>1 DEF IntelligenceRoutes

LEMMA GatedInterventureRoutes == \A route \in InterventureRoutes : Gated(route)
<1>1. \A route \in Named("tag_venture", {"tagIfVenture"}) : Gated(route)
  BY NamedAreGated, LevelTwoActions DEF Grave, Work, GovernanceActions
<1>2. \A route \in Named("generate_conflict_disclosure", {"generateDisclosure"}) : Gated(route)
  BY NamedAreGated, LevelOneActions DEF Grave, Work, GovernanceActions
<1>3. \A route \in Named("raise_intercompany_invoice", {"raiseInvoice"}) : Gated(route)
  BY NamedAreGated, LevelThreeActions DEF Grave, Work, GovernanceActions
<1> QED
  BY <1>1, <1>2, <1>3 DEF InterventureRoutes

LEMMA GatedOutcomeRoutes == \A route \in OutcomeRoutes : Gated(route)
<1>1. \A route \in PerhapsNamed("record_funding_outcome", {"submitAttempt"}) : Gated(route)
  BY PerhapsNamedAreGated, LevelTwoActions DEF Grave, Work
<1>2. \A route \in Routes("record_funding_outcome", {"approveAttempt", "declineAttempt",
                                                     "withdrawAttempt", "recordSatisfaction"}) :
         Gated(route)
  BY RoutesAreGated, LevelTwoActions DEF Grave, Work
<1>3. \A route \in Routes("mark_attempt_funded", {"markAttemptFunded"}) : Gated(route)
  BY RoutesAreGated, LevelThreeActions DEF Grave, Work
<1> QED
  BY <1>1, <1>2, <1>3 DEF OutcomeRoutes

LEMMA GatedPartnerRiskRoutes == \A route \in PartnerRiskRoutes : Gated(route)
<1>1. \A route \in Routes("record_partner_finding", {"recordFinding"}) : Gated(route)
  BY RoutesAreGated, LevelOneActions DEF Grave, Work
<1>2. \A route \in Routes("resolve_partner_finding", {"resolveFinding"}) : Gated(route)
  BY RoutesAreGated, LevelThreeActions DEF Grave, Work
<1> QED
  BY <1>1, <1>2 DEF PartnerRiskRoutes

LEMMA GatedPartnerRoutes == \A route \in PartnerRoutes : Gated(route)
<1>1. \A route \in Routes("publish_curriculum_module", {"publishModule"}) : Gated(route)
  BY RoutesAreGated, LevelThreeActions DEF Grave, Work
<1>2. \A route \in Routes("onboard_partner", {"registerPartner", "recordQualification",
                                              "completeOnboarding"}) :
         Gated(route)
  BY RoutesAreGated, LevelTwoActions DEF Grave, Work
<1> QED
  BY <1>1, <1>2 DEF PartnerRoutes

LEMMA GatedPartnerEndings == \A route \in PartnerEndings : Gated(route)
<1>1. \A route \in Routes("end_partner_relationship", {"suspendPartner", "terminatePartner"}) :
         Gated(route)
  BY RoutesAreGated, LevelThreeActions DEF Grave, Work
<1>2. \A route \in Routes("record_partner_completion", {"recordCompletion"}) : Gated(route)
  BY RoutesAreGated, LevelTwoActions DEF Grave, Work
<1>3. \A route \in Routes("approve_partner_claim", {"approveClaim", "withdrawClaim"}) :
         Gated(route)
  BY RoutesAreGated, LevelThreeActions DEF Grave, Work
<1> QED
  BY <1>1, <1>2, <1>3 DEF PartnerEndings

LEMMA GatedActivationRoutes == \A route \in ActivationRoutes : Gated(route)
<1>1. \A route \in Routes("module", {"activateState", "withdrawState"}) : Gated(route)
  BY RoutesAreGated DEF Grave, Work, Ungated
<1> QED
  BY <1>1 DEF ActivationRoutes

LEMMA GatedRetentionRoutes == \A route \in RetentionRoutes : Gated(route)
<1>1. \A route \in PerhapsNamed("place_legal_hold", {"placeHold"}) : Gated(route)
  BY PerhapsNamedAreGated, LevelThreeActions DEF Grave, Work
<1>2. \A route \in Routes("place_legal_hold", {"recordReview"}) : Gated(route)
  BY RoutesAreGated, LevelThreeActions DEF Grave, Work
<1>3. \A route \in Routes("release_legal_hold", {"releaseHold"}) : Gated(route)
  BY RoutesAreGated, LevelThreeActions DEF Grave, Work
<1>4. \A route \in Routes("decide_deletion_request", {"decideRequest", "recordDeletion"}) :
         Gated(route)
  BY RoutesAreGated, LevelThreeActions DEF Grave, Work
<1> QED
  BY <1>1, <1>2, <1>3, <1>4 DEF RetentionRoutes

LEMMA GatedSalesRoutes == \A route \in SalesRoutes : Gated(route)
<1>1. \A route \in Routes("manage_lead", {"createLead", "qualifyLead", "closeLead"}) :
         Gated(route)
  BY RoutesAreGated, LevelOneActions DEF Grave, Work
<1>2. \A route \in Routes("convert_lead", {"convertLead"}) : Gated(route)
  BY RoutesAreGated, LevelThreeActions DEF Grave, Work
<1>3. \A route \in Routes("record_lead_activity", {"recordActivity"}) : Gated(route)
  BY RoutesAreGated, LevelOneActions DEF Grave, Work
<1>4. \A route \in Named("record_lead_activity", {"recordReadiness"}) : Gated(route)
  BY NamedAreGated, LevelOneActions DEF Grave, Work, GovernanceActions
<1>5. \A route \in Routes("correct_attribution", {"correctAttribution"}) : Gated(route)
  BY RoutesAreGated, LevelThreeActions DEF Grave, Work
<1> QED
  BY <1>1, <1>2, <1>3, <1>4, <1>5 DEF SalesRoutes

LEMMA GatedVaultRoutes == \A route \in VaultRoutes : Gated(route)
<1>1. \A route \in Routes("place_legal_hold", {"setLegalHold"}) : Gated(route)
  BY RoutesAreGated, LevelThreeActions DEF Grave, Work
<1>2. \A route \in Routes("release_legal_hold", {"releaseLegalHold"}) : Gated(route)
  BY RoutesAreGated, LevelThreeActions DEF Grave, Work
<1>3. \A route \in Routes("set_document_retention", {"setRetention"}) : Gated(route)
  BY RoutesAreGated, LevelThreeActions DEF Grave, Work
<1>4. \A route \in Routes("remove_vault_document", {"removeDocument"}) : Gated(route)
  BY RoutesAreGated, LevelThreeActions DEF Grave, Work
<1> QED
  BY <1>1, <1>2, <1>3, <1>4 DEF VaultRoutes

LEMMA GatedWorkflowRoutes == \A route \in WorkflowRoutes : Gated(route)
<1>1. \A route \in Routes("publish_playbook", {"publishPlaybook"}) : Gated(route)
  BY RoutesAreGated, LevelThreeActions DEF Grave, Work
<1>2. \A route \in PerhapsNamed("run_workflow", {"start"}) : Gated(route)
  BY PerhapsNamedAreGated, LevelOneActions DEF Grave, Work
<1>3. \A route \in Routes("run_workflow", {"completeExternalTask"}) : Gated(route)
  BY RoutesAreGated, LevelOneActions DEF Grave, Work
<1> QED
  BY <1>1, <1>2, <1>3 DEF WorkflowRoutes

LEMMA EveryRouteIsGated == \A route \in ConsoleRoutes : Gated(route)
BY LooksAreGated,
   GatedSignInRoutes, GatedClientRoutes, GatedPlacementRoutes, GatedStaffKeySignIn,
   GatedStaffKeyRoutes, GatedAdminRoutes, GatedBillingRoutes, GatedContractRoutes,
   GatedDeliverableRoutes, GatedRevealRoutes, GatedGraphRoutes, GatedIntelligenceRoutes,
   GatedInterventureRoutes, GatedOutcomeRoutes, GatedPartnerRiskRoutes, GatedPartnerRoutes,
   GatedPartnerEndings, GatedActivationRoutes, GatedRetentionRoutes, GatedSalesRoutes,
   GatedVaultRoutes, GatedWorkflowRoutes
   DEF ConsoleRoutes

ConsoleRowsOK ==
    /\ level \in 0..3 /\ standing \in {"eligible", "ineligible"}
    /\ onLedger \subseteq DOMAIN MinimumLevel

Journeys == [op : {"chain", "proof", "runs"}, route : ConsoleRoutes, barred : BOOLEAN]

ConsoleRequestOK(r) ==
    /\ r = AtRest \/ r \in Journeys
    /\ r \in Journeys /\ r.barred => standing = "ineligible"
    /\ r.op = "chain" => r.route.gate \in DOMAIN MinimumLevel
    /\ r.op = "proof" => r.route.gate \in {"own", "module"}
    /\ r.op = "runs" =>
          /\ r.route.gate = "module" => level >= 3
          /\ r.route.gate \in DOMAIN MinimumLevel =>
                /\ level >= MinimumLevel[r.route.gate] /\ r.route.gate \in onLedger
                /\ r.route.client = "path" /\ r.route.gate \notin GovernanceActions => ~r.barred

ConsoleRequestsOK == \A c \in Clerks : ConsoleRequestOK(request[c])

LEMMA ConsoleInitOK ==
    ASSUME ConsoleInit, request = [c \in Clerks |-> AtRest]
    PROVE  ConsoleRowsOK /\ ConsoleRequestsOK
<1>1. ConsoleRowsOK
  BY DEF ConsoleInit, ConsoleRowsOK
<1>2. ConsoleRequestOK(AtRest)
  BY DEF ConsoleRequestOK, AtRest, Journeys
<1> QED
  BY <1>1, <1>2 DEF ConsoleRequestsOK

\* What a write that runs has passed.
LEMMA RunningIsGated ==
    ASSUME ConsoleRequestsOK, NEW c \in Clerks, Running(c)
    PROVE  request[c] \in Journeys /\ request[c].op = "runs" /\ Gated(request[c].route)
<1>1. request[c] \in Journeys
  BY DEF ConsoleRequestsOK, ConsoleRequestOK, Running, Doing, AtRest
<1> QED
  BY <1>1, EveryRouteIsGated DEF Journeys, Running, Doing

LEMMA ConsoleAnswers ==
    ASSUME ConsoleRowsOK, ConsoleRequestsOK
    PROVE  /\ ConsoleTypeOK /\ ObserverChangesNothing /\ GraveNeedsLevel3
           /\ IneligibleIsNotWorkedFor /\ AuthorisedIsOnTheLedger
<1>1. ConsoleTypeOK
  BY EveryRouteIsGated DEF ConsoleTypeOK, ConsoleRowsOK, Gated, Ungated
<1>2. ASSUME NEW c \in Clerks, NEW r, r = request[c], Running(c)
      PROVE  /\ Gated(r.route) /\ r.route.writes /\ r.op = "runs" /\ ConsoleRequestOK(r)
             /\ level \in 0..3
  BY <1>2, RunningIsGated DEF ConsoleRequestsOK, ConsoleRowsOK, Running
<1>3. ASSUME NEW c \in Clerks, Running(c), level = 0
      PROVE  request[c].route.gate \in {"open", "limited", "own"}
  <2>1. PICK r : r = request[c]
    OBVIOUS
  <2>2. r.route.gate \notin DOMAIN MinimumLevel
    BY <1>2, <1>3, <2>1, CatalogueOfActions DEF ConsoleRequestOK
  <2> QED
    BY <1>2, <1>3, <2>1, <2>2 DEF ConsoleRequestOK, Gated, Ungated
<1>4. ASSUME NEW c \in Clerks, Running(c), request[c].route.op \in Grave
      PROVE  level = 3
  BY <1>2, <1>4 DEF ConsoleRequestOK, Gated
<1>5. ASSUME NEW c \in Clerks, Running(c), request[c].barred
      PROVE  request[c].route.op \notin Work
  BY <1>2, <1>5 DEF ConsoleRequestOK, Gated
<1>6. ASSUME NEW c \in Clerks, Running(c), request[c].route.gate \in DOMAIN MinimumLevel
      PROVE  request[c].route.gate \in onLedger
  BY <1>2, <1>6 DEF ConsoleRequestOK
<1>7. ObserverChangesNothing
  BY <1>3 DEF ObserverChangesNothing
<1>8. GraveNeedsLevel3
  BY <1>4 DEF GraveNeedsLevel3, Grave
<1>9. IneligibleIsNotWorkedFor
  BY <1>5 DEF IneligibleIsNotWorkedFor, Work
<1>10. AuthorisedIsOnTheLedger
  BY <1>6 DEF AuthorisedIsOnTheLedger
<1> QED
  BY <1>1, <1>7, <1>8, <1>9, <1>10

LEMMA ConsoleStep ==
    ASSUME RequestsOK, today \in Nat, ConsoleRowsOK, ConsoleRequestsOK, ConsoleNext
    PROVE  RequestsOK' /\ today' \in Nat /\ ConsoleRowsOK' /\ ConsoleRequestsOK'
\* Nobody's level changes, the ledger grows, the client's standing is as it was.
<1> DEFINE Serves(c, next) == /\ Turns(c, next) /\ ConsoleRowsOK' /\ ConsoleRequestOK(next)'
                              /\ level' = level /\ standing' = standing
                              /\ onLedger \subseteq onLedger'
<1>1. ConsoleRequestOK(AtRest)'
  BY DEF ConsoleRequestOK, AtRest, Journeys
<1>2. ASSUME NEW c \in Clerks PROVE ConsoleRequestOK(request[c])
  BY DEF ConsoleRequestsOK
<1>3. UNCHANGED consoleRows => ConsoleRowsOK'
  BY DEF consoleRows, ConsoleRowsOK
<1>4. ASSUME NEW c \in Clerks, RequireStaff(c) PROVE \E next : Serves(c, next)
  <2>1. PICK route \in ConsoleRoutes :
              Begins(c, Asks(IF route.gate \in DOMAIN MinimumLevel THEN "chain"
                             ELSE IF route.gate \in {"own", "module"} THEN "proof"
                             ELSE "runs", route))
    BY <1>4 DEF RequireStaff
  <2>2. PICK next : next = Asks(IF route.gate \in DOMAIN MinimumLevel THEN "chain"
                                ELSE IF route.gate \in {"own", "module"} THEN "proof"
                                ELSE "runs", route)
    OBVIOUS
  <2>3. next \in Journeys /\ next.route = route /\ next.barred = (standing = "ineligible")
    BY <2>2 DEF Asks, Journeys
  <2>4. next.op = IF route.gate \in DOMAIN MinimumLevel THEN "chain"
                  ELSE IF route.gate \in {"own", "module"} THEN "proof" ELSE "runs"
    BY <2>2 DEF Asks
  <2>5. UNCHANGED consoleRows
    BY <1>4 DEF RequireStaff
  <2>6. ConsoleRequestOK(next)'
    BY <2>3, <2>4, <2>5 DEF ConsoleRequestOK, consoleRows
  <2> QED
    BY <1>3, <2>1, <2>2, <2>5, <2>6, DeskTurns DEF consoleRows
<1>5. ASSUME NEW c \in Clerks, Authorised(c) PROVE \E next : Serves(c, next)
  <2>1. PICK was : was = request[c]
    OBVIOUS
  <2>2. /\ was \in Journeys /\ was.route.gate \in DOMAIN MinimumLevel
        /\ was.barred => standing = "ineligible"
    BY <1>2, <1>5, <2>1 DEF Authorised, Doing, ConsoleRequestOK, AtRest
  <2>3. PICK next : next = [was EXCEPT !.op = "runs"]
    OBVIOUS
  <2>4. /\ next \in Journeys /\ next.op = "runs" /\ next.route = was.route
        /\ next.barred = was.barred
    BY <2>2, <2>3 DEF Journeys
  <2>5. GoesOn(c, next)
    BY <1>5, <2>1, <2>3 DEF Authorised, Onward
  <2>6. /\ level >= MinimumLevel[was.route.gate] /\ level' = level /\ standing' = standing
        /\ onLedger' = onLedger \union {was.route.gate}
        /\ was.route.client = "path" /\ was.route.gate \notin GovernanceActions
              => standing = "eligible"
    BY <1>5, <2>1 DEF Authorised, GatePasses
  <2>7. ConsoleRowsOK'
    BY <2>2, <2>6 DEF ConsoleRowsOK
  <2>8. ConsoleRequestOK(next)'
    <3>1. was.route.gate # "module"
      BY <2>2, CatalogueOfActions DEF Ungated
    <3> QED
      BY <2>2, <2>4, <2>6, <3>1 DEF ConsoleRequestOK
  <2> QED
    BY <2>5, <2>6, <2>7, <2>8, DeskTurns
<1>6. ASSUME NEW c \in Clerks, ModuleGate(c) PROVE \E next : Serves(c, next)
  <2>1. PICK was : was = request[c]
    OBVIOUS
  <2>2. /\ was \in Journeys /\ was.route.gate \in {"own", "module"}
        /\ was.barred => standing = "ineligible"
    BY <1>2, <1>6, <2>1 DEF ModuleGate, Doing, ConsoleRequestOK, AtRest
  <2>3. PICK next : next = [was EXCEPT !.op = "runs"]
    OBVIOUS
  <2>4. /\ next \in Journeys /\ next.op = "runs" /\ next.route = was.route
        /\ next.barred = was.barred
    BY <2>2, <2>3 DEF Journeys
  <2>5. GoesOn(c, next) /\ UNCHANGED consoleRows /\ (was.route.gate = "module" => level >= 3)
    BY <1>6, <2>1, <2>3 DEF ModuleGate, Onward
  <2>6. ConsoleRequestOK(next)'
    <3>1. was.route.gate \notin DOMAIN MinimumLevel
      BY <2>2, CatalogueOfActions DEF Ungated
    <3> QED
      BY <2>2, <2>4, <2>5, <3>1 DEF ConsoleRequestOK, consoleRows
  <2> QED
    BY <1>3, <2>5, <2>6, DeskTurns DEF consoleRows
<1>7. ASSUME NEW c \in Clerks, IsRefused(c) PROVE \E next : Serves(c, next)
  BY <1>1, <1>3, <1>7, DeskTurns DEF IsRefused, consoleRows
<1>8. ASSUME NEW c \in Clerks, Runs(c) PROVE (\E next : Serves(c, next))
                                    \/ (RequestsOK' /\ today' = today /\ ConsoleRowsOK'
                                        /\ ConsoleRequestsOK')
  <2>1. CASE request[c].route.op \in {"transitionComplianceState", "triggerFirewall"}
    <3> DEFINE after == [d \in Clerks |->
                  IF d = c \/ request[d] = AtRest THEN AtRest
                  ELSE [request[d] EXCEPT !.barred = @ /\ standing' = "ineligible"]]
    <3>1. /\ standing' \in {"eligible", "ineligible"} /\ request' = after
          /\ today' = today /\ level' = level /\ onLedger' = onLedger
      BY <1>8, <2>1 DEF Runs
    <3>2. after = [d \in Clerks |-> after[d]]
      OBVIOUS
    <3>3. RequestsOK'
      BY <3>1, <3>2 DEF RequestsOK
    <3>4. ConsoleRowsOK'
      BY <3>1 DEF ConsoleRowsOK
    <3>5. ASSUME NEW d \in Clerks PROVE ConsoleRequestOK(request[d])'
      <4>1. CASE d = c \/ request[d] = AtRest
        <5>1. request'[d] = AtRest
          BY <3>1, <4>1
        <5> QED
          BY <1>1, <5>1, Zenon DEF ConsoleRequestOK
      <4>2. CASE ~(d = c \/ request[d] = AtRest)
        <5>1. PICK was \in Journeys : was = request[d]
          BY <1>2, <4>2 DEF ConsoleRequestOK
        <5>2. PICK barred \in BOOLEAN : barred = (was.barred /\ standing' = "ineligible")
          OBVIOUS
        <5>3. PICK next : next = [was EXCEPT !.barred = barred]
          OBVIOUS
        <5>4. next \in Journeys /\ next.op = was.op /\ next.route = was.route
              /\ next.barred = barred
          BY <5>3 DEF Journeys
        <5>5. request'[d] = next
          BY <3>1, <4>2, <5>1, <5>2, <5>3
        <5>6. ConsoleRequestOK(was)
          BY <1>2, <5>1
        <5>7. ConsoleRequestOK(next)'
          BY <3>1, <5>1, <5>2, <5>4, <5>6 DEF ConsoleRequestOK
        <5> QED
          BY <5>5, <5>7, Zenon DEF ConsoleRequestOK
      <4> QED
        BY <4>1, <4>2
    <3> QED
      BY <3>1, <3>3, <3>4, <3>5 DEF ConsoleRequestsOK
  <2>2. CASE request[c].route.op \notin {"transitionComplianceState", "triggerFirewall"}
    <3>1. /\ Finishes(c) /\ level' = level /\ standing' = standing /\ onLedger' = onLedger
      BY <1>8, <2>2 DEF Runs
    <3> QED
      BY <1>1, <3>1, DeskTurns DEF ConsoleRowsOK
  <2> QED
    BY <2>1, <2>2
<1>9. ASSUME NEW c \in Clerks, NEW next, Serves(c, next) PROVE ConsoleRequestsOK'
  <2>1. ASSUME NEW d \in Clerks PROVE ConsoleRequestOK(request[d])'
    <3>1. CASE d = c
      <4>1. request'[d] = next
        BY <1>9, <3>1 DEF Turns
      <4> QED
        BY <1>9, <4>1, Zenon DEF ConsoleRequestOK
    <3>2. CASE d # c
      <4>1. request'[d] = request[d]
        BY <1>9, <3>2 DEF Turns
      <4> QED
        BY <1>2, <1>9, <4>1 DEF ConsoleRequestOK
    <3> QED
      BY <3>1, <3>2
  <2> QED
    BY <2>1 DEF ConsoleRequestsOK
<1>10. PICK c \in Clerks : RequireStaff(c) \/ Authorised(c) \/ ModuleGate(c) \/ IsRefused(c) \/ Runs(c)
  BY DEF ConsoleNext
<1> QED
  BY <1>4, <1>5, <1>6, <1>7, <1>8, <1>9, <1>10 DEF Turns

-----------------------------------------------------------------------------
(***************************************************************************)
(* Playbooks.  Between a review and what it was for, no node drafts again, *)
(* and there is no other way in: said of one node, kept when graphs are    *)
(* joined, and so true of the graphs that are served.                      *)
(***************************************************************************)
ReadNodes == {"deliver_blueprint", "request_client_authorization", "await_client_authorization",
              "compliance_officer_approval", "submit_application", "deliver_brief"}

ReadNode(n, node) ==
    /\ \A m \in Outgoing(node) : m \in ReadNodes => n \in ReadNodes \union Reviews
    /\ n \in Reviews => node.kind = "human_checkpoint"
    /\ node.kind = "terminal" => node.outcome \in {"completed", "cancelled"}
    /\ node.kind = "decision" => DOMAIN node.branches \subseteq {1, 2}

ReadGraph(nodes) == \A n \in DOMAIN nodes : ReadNode(n, nodes[n])

LEMMA GraphsJoin ==
    ASSUME NEW f, NEW g, ReadGraph(f), ReadGraph(g)
    PROVE  ReadGraph(Joined(f, g))
BY DEF ReadGraph, Joined

\* A node with one way on, an end, and a decision.
LEMMA StepIsRead ==
    ASSUME NEW n, NEW next, n \notin Reviews, next \in ReadNodes => n \in ReadNodes
    PROVE  /\ ReadNode(n, AgentTask(next)) /\ ReadNode(n, Event(next))
           /\ ReadNode(n, Duration(next)) /\ \A field : ReadNode(n, MomentIn(field, next))
<1>1. ReadNode(n, AgentTask(next))
  BY DEF ReadNode, AgentTask, Outgoing
<1>2. ReadNode(n, Event(next))
  BY DEF ReadNode, Event, Outgoing
<1>3. ReadNode(n, Duration(next))
  BY DEF ReadNode, Duration, Outgoing
<1>4. ASSUME NEW field PROVE ReadNode(n, MomentIn(field, next))
  BY DEF ReadNode, MomentIn, Outgoing
<1> QED
  BY <1>1, <1>2, <1>3, <1>4

LEMMA CheckpointIsRead ==
    ASSUME NEW n, NEW next, next \in ReadNodes => n \in ReadNodes \union Reviews
    PROVE  ReadNode(n, Checkpoint(next))
BY DEF ReadNode, Checkpoint, Outgoing

LEMMA TerminalIsRead ==
    ASSUME NEW n, n \notin Reviews, NEW outcome \in {"completed", "cancelled"}
    PROVE  ReadNode(n, Terminal(outcome))
BY DEF ReadNode, Terminal, Outgoing

LEMMA DecisionIsRead ==
    ASSUME NEW n, n \notin Reviews, NEW otherwise, otherwise \notin ReadNodes, NEW branches,
           DOMAIN branches \subseteq {1, 2},
           \A i \in DOMAIN branches : branches[i].next \notin ReadNodes
    PROVE  ReadNode(n, Decision(branches, otherwise))
BY DEF ReadNode, Decision, Outgoing

LEMMA IntakeIsRead == ReadGraph(Phase0Intake)
BY StepIsRead, CheckpointIsRead DEF ReadGraph, Phase0Intake, Reviews, ReadNodes

LEMMA GateIsRead == ReadGraph(Phase0Gate)
<1>1. PICK branches : branches = <<Branch(Permits, "draft_readiness_blueprint"),
                                   Branch(Compare("client.complianceState", "eq", "fail"),
                                          "do_not_fund_routing")>>
  OBVIOUS
<1>2. DOMAIN branches \subseteq {1, 2} /\ \A i \in DOMAIN branches : branches[i].next \notin ReadNodes
  BY <1>1 DEF Branch, ReadNodes
<1>3. ReadNode("compliance_gate", Decision(branches, "hold_for_findings"))
  BY <1>2, DecisionIsRead DEF Reviews, ReadNodes
<1>4. ReadNode("hold_for_findings", Checkpoint("compliance_gate"))
  BY CheckpointIsRead DEF ReadNodes
<1>5. ReadNode("do_not_fund_routing", Checkpoint("ended_without_blueprint"))
  BY CheckpointIsRead DEF ReadNodes
<1> QED
  BY <1>1, <1>3, <1>4, <1>5 DEF ReadGraph, Phase0Gate

LEMMA BlueprintIsRead == ReadGraph(Phase0Blueprint)
<1>1. ReadNode("await_review_call", MomentIn("reviewCallAt", "remind_review_call"))
  BY StepIsRead DEF Reviews, ReadNodes
<1>2. /\ ReadNode("draft_readiness_blueprint", AgentTask("blueprint_review"))
      /\ ReadNode("blueprint_review", Checkpoint("deliver_blueprint"))
      /\ ReadNode("deliver_blueprint", AgentTask("book_review_call"))
      /\ ReadNode("book_review_call", AgentTask("await_review_call"))
      /\ ReadNode("remind_review_call", AgentTask("phase_0_complete"))
      /\ ReadNode("phase_0_complete", Terminal("completed"))
      /\ ReadNode("ended_without_blueprint", Terminal("cancelled"))
  BY StepIsRead, CheckpointIsRead, TerminalIsRead DEF Reviews, ReadNodes
<1> QED
  BY <1>1, <1>2 DEF ReadGraph, Phase0Blueprint

LEMMA PlacementIsRead == ReadGraph(Phase1Placement)
<1>1. PICK branches : branches = <<Branch(Permits, "request_recommendation")>>
  OBVIOUS
<1>2. DOMAIN branches \subseteq {1, 2} /\ \A i \in DOMAIN branches : branches[i].next \notin ReadNodes
  BY <1>1 DEF Branch, ReadNodes
<1>3. ReadNode("placement_gate", Decision(branches, "placement_frozen"))
  BY <1>2, DecisionIsRead DEF Reviews, ReadNodes
<1>4. /\ ReadNode("confirm_placement_scope", AgentTask("placement_gate"))
      /\ ReadNode("placement_frozen", Checkpoint("ended_not_placed"))
      /\ ReadNode("request_recommendation", AgentTask("draft_suitability_memo"))
      /\ ReadNode("draft_suitability_memo", AgentTask("memo_review"))
      /\ ReadNode("memo_review", Checkpoint("request_client_authorization"))
      /\ ReadNode("request_client_authorization", AgentTask("await_client_authorization"))
      /\ ReadNode("await_client_authorization", Event("compliance_officer_approval"))
      /\ ReadNode("compliance_officer_approval", Checkpoint("submit_application"))
      /\ ReadNode("submit_application", AgentTask("notify_submission"))
  BY StepIsRead, CheckpointIsRead DEF Reviews, ReadNodes
<1> QED
  BY <1>1, <1>3, <1>4 DEF ReadGraph, Phase1Placement

LEMMA OutcomeIsRead == ReadGraph(Phase1Outcome)
<1>1. PICK branches : branches = <<Branch(Compare("context.fundingOutcome", "eq", "approved"),
                                          "notify_offer"),
                                   Branch(Compare("context.fundingOutcome", "eq", "declined"),
                                          "notify_decline")>>
  OBVIOUS
<1>2. DOMAIN branches \subseteq {1, 2} /\ \A i \in DOMAIN branches : branches[i].next \notin ReadNodes
  BY <1>1 DEF Branch, ReadNodes
<1>3. ReadNode("outcome_gate", Decision(branches, "phase_1_complete"))
  BY <1>2, DecisionIsRead DEF Reviews, ReadNodes
<1>4. /\ ReadNode("notify_submission", AgentTask("await_provider_decision"))
      /\ ReadNode("await_provider_decision", Event("record_outcome"))
      /\ ReadNode("record_outcome", AgentTask("outcome_gate"))
      /\ ReadNode("notify_offer", AgentTask("phase_1_complete"))
      /\ ReadNode("notify_decline", AgentTask("phase_1_complete"))
      /\ ReadNode("phase_1_complete", Terminal("completed"))
      /\ ReadNode("ended_not_placed", Terminal("cancelled"))
  BY StepIsRead, TerminalIsRead DEF Reviews, ReadNodes
<1> QED
  BY <1>1, <1>3, <1>4 DEF ReadGraph, Phase1Outcome, OutcomeGate

LEMMA BriefIsRead == ReadGraph(Phase2Brief)
<1>1. PICK branches : branches = <<Branch(Compare("context.stackHealth", "eq", "deteriorating"),
                                          "escalate_to_advisory")>>
  OBVIOUS
<1>2. DOMAIN branches \subseteq {1, 2} /\ \A i \in DOMAIN branches : branches[i].next \notin ReadNodes
  BY <1>1 DEF Branch, ReadNodes
<1>3. ReadNode("health_gate", Decision(branches, "draft_capital_command_brief"))
  BY <1>2, DecisionIsRead DEF Reviews, ReadNodes
<1>4. /\ ReadNode("refresh_bank_feed", AgentTask("compute_stack_position"))
      /\ ReadNode("compute_stack_position", AgentTask("update_cost_of_capital"))
      /\ ReadNode("update_cost_of_capital", AgentTask("health_gate"))
      /\ ReadNode("escalate_to_advisory", Checkpoint("draft_capital_command_brief"))
      /\ ReadNode("draft_capital_command_brief", AgentTask("brief_review"))
      /\ ReadNode("brief_review", Checkpoint("deliver_brief"))
      /\ ReadNode("deliver_brief", AgentTask("phase_2_complete"))
      /\ ReadNode("phase_2_complete", Terminal("completed"))
  BY StepIsRead, CheckpointIsRead, TerminalIsRead DEF Reviews, ReadNodes
<1> QED
  BY <1>1, <1>3, <1>4 DEF ReadGraph, Phase2Brief

LEMMA FollowUpIsRead == ReadGraph(PostFunding)
BY StepIsRead, TerminalIsRead DEF ReadGraph, PostFunding, Reviews, ReadNodes

LEMMA OwnIsRead ==
    ASSUME NEW condition
    PROVE  ReadGraph(Own(condition))
<1>1. PICK branches : branches = <<Branch(condition, "taken")>>
  OBVIOUS
<1>2. DOMAIN branches \subseteq {1, 2} /\ \A i \in DOMAIN branches : branches[i].next \notin ReadNodes
  BY <1>1 DEF Branch, ReadNodes
<1>3. ReadNode("decide", Decision(branches, "not_taken"))
  BY <1>2, DecisionIsRead DEF Reviews, ReadNodes
<1>4. ReadNode("taken", Terminal("completed")) /\ ReadNode("not_taken", Terminal("cancelled"))
  BY TerminalIsRead DEF Reviews
<1> QED
  BY <1>1, <1>3, <1>4 DEF ReadGraph, Own

LEMMA EveryBookIsRead ==
    \A book \in Playbooks : ReadGraph(book.nodes) /\ book.startNode \notin ReadNodes
<1>1. ReadGraph(Joined(Phase0Intake, Joined(Phase0Gate, Phase0Blueprint)))
  BY IntakeIsRead, GateIsRead, BlueprintIsRead, GraphsJoin
<1>2. ReadGraph(Joined(Phase1Placement, Phase1Outcome))
  BY PlacementIsRead, OutcomeIsRead, GraphsJoin
<1> QED
  BY <1>1, <1>2, BriefIsRead, FollowUpIsRead, OwnIsRead DEF Playbooks, Playbook, ReadNodes

Walks == [book : {book \in Playbooks : Valid(book)}, node : UNION {DOMAIN b.nodes : b \in Playbooks},
          status : {"running", "failed", "completed", "cancelled"}]

PlaybooksRowsOK ==
    /\ walk \in Walks /\ walk.node \in DOMAIN walk.book.nodes
    /\ walk.node \in ReadNodes => reviewed
    /\ compliance \in States /\ looked \in States \union {"nothing"} /\ reviewed \in BOOLEAN

LEMMA PlaybooksInitOK ==
    ASSUME PlaybooksInit
    PROVE  PlaybooksRowsOK
<1>1. PICK book \in Playbooks : /\ Valid(book)
                               /\ walk = [book |-> book, node |-> book.startNode, status |-> "running"]
  BY DEF PlaybooksInit
<1>2. book.startNode \in DOMAIN book.nodes
  BY <1>1 DEF Valid
<1>3. walk \in Walks /\ walk.book = book /\ walk.node = book.startNode
  BY <1>1, <1>2 DEF Walks
<1> QED
  BY <1>2, <1>3, EveryBookIsRead DEF PlaybooksInit, PlaybooksRowsOK, States

LEMMA PlaybooksAnswer ==
    ASSUME PlaybooksRowsOK
    PROVE  PlaybooksTypeOK /\ NothingGoesOutUnread
BY DEF PlaybooksRowsOK, Walks, PlaybooksTypeOK, NothingGoesOutUnread, ReadNodes

\* Where a walk stands, and where the node it stands at leads.
LEMMA NodeLeads ==
    ASSUME PlaybooksRowsOK
    PROVE  /\ ReadNode(walk.node, Node) /\ Node = walk.book.nodes[walk.node]
           /\ Outgoing(Node) \subseteq DOMAIN walk.book.nodes
<1>1. walk.book \in Playbooks /\ Valid(walk.book) /\ walk.node \in DOMAIN walk.book.nodes
  BY DEF PlaybooksRowsOK, Walks
<1> QED
  BY <1>1, EveryBookIsRead DEF ReadGraph, Valid, Node

\* The walk goes on to a node that the one it stands at leads to.
LEMMA WalkGoesOn ==
    ASSUME PlaybooksRowsOK, NEW next \in Outgoing(Node), AdvanceTo(next)
    PROVE  /\ walk' \in Walks /\ walk'.node = next /\ walk'.book = walk.book
           /\ walk'.node \in DOMAIN walk'.book.nodes
<1>1. next \in DOMAIN walk.book.nodes
  BY NodeLeads
<1>2. PICK was \in Walks : was = walk
  BY DEF PlaybooksRowsOK
<1>3. walk' = [was EXCEPT !.node = next]
  BY <1>2 DEF AdvanceTo
<1>4. next \in UNION {DOMAIN b.nodes : b \in Playbooks}
  BY <1>1, <1>2 DEF Walks
<1> QED
  BY <1>1, <1>2, <1>3, <1>4 DEF Walks

LEMMA WalkStops ==
    ASSUME PlaybooksRowsOK, NEW status \in {"failed", "completed", "cancelled"},
           walk' = [walk EXCEPT !.status = status]
    PROVE  walk' \in Walks /\ walk'.node = walk.node /\ walk'.book = walk.book
<1>1. PICK was \in Walks : was = walk
  BY DEF PlaybooksRowsOK
<1> QED
  BY <1>1 DEF Walks

LEMMA PlaybooksStep ==
    ASSUME PlaybooksRowsOK, PlaybooksNext
    PROVE  PlaybooksRowsOK'
<1>1. CASE CompleteExternalTask
  <2>1. Node.kind \in {"agent_task", "human_checkpoint"} /\ Node.next \in Outgoing(Node)
    BY <1>1 DEF CompleteExternalTask, At, Node, Outgoing
  <2>2. AdvanceTo(Node.next) /\ UNCHANGED <<compliance, looked>>
    BY <1>1 DEF CompleteExternalTask
  <2>3. /\ walk' \in Walks /\ walk'.node = Node.next /\ walk'.book = walk.book
        /\ walk'.node \in DOMAIN walk'.book.nodes
    BY <2>1, <2>2, WalkGoesOn
  <2>4. reviewed' = IF walk.node \in Drafts THEN FALSE
                    ELSE IF walk.node \in Reviews THEN TRUE ELSE reviewed
    BY <1>1 DEF CompleteExternalTask
  <2>5. Node.next \in ReadNodes => walk.node \in ReadNodes \union Reviews
    BY <2>1, NodeLeads DEF ReadNode
  <2>6. \A n \in ReadNodes \union Reviews : n \notin Drafts
    BY DEF ReadNodes, Reviews, Drafts
  <2>7. walk'.node \in ReadNodes => reviewed'
    BY <2>3, <2>4, <2>5, <2>6 DEF PlaybooksRowsOK
  <2>8. reviewed' \in BOOLEAN
    BY <2>4 DEF PlaybooksRowsOK
  <2> QED
    BY <2>2, <2>3, <2>7, <2>8 DEF PlaybooksRowsOK
\* No other step passes a review.
<1>2. ASSUME NEW next \in Outgoing(Node), AdvanceTo(next), Node.kind # "human_checkpoint",
             reviewed' = reviewed
      PROVE  /\ walk' \in Walks /\ walk'.node \in DOMAIN walk'.book.nodes
             /\ walk'.node \in ReadNodes => reviewed'
  BY <1>2, NodeLeads, WalkGoesOn DEF ReadNode, PlaybooksRowsOK
<1>3. ASSUME NEW status \in {"failed", "completed", "cancelled"}, reviewed' = reviewed,
             walk' = [walk EXCEPT !.status = status]
      PROVE  /\ walk' \in Walks /\ walk'.node \in DOMAIN walk'.book.nodes
             /\ walk'.node \in ReadNodes => reviewed'
  BY <1>3, WalkStops DEF PlaybooksRowsOK
<1>4. CASE ResolveWait
  <2>1. Node.kind = "wait" /\ Node.next \in Outgoing(Node)
    BY <1>4 DEF ResolveWait, At, Node, Outgoing
  <2>2. /\ walk' = [walk EXCEPT !.status = "failed"] \/ AdvanceTo(Node.next)
        /\ UNCHANGED <<compliance, looked, reviewed>>
    BY <1>4, Zenon DEF ResolveWait
  <2> QED
    BY <1>2, <1>3, <2>1, <2>2 DEF PlaybooksRowsOK
<1>5. CASE Decide
  <2> DEFINE verdict  == [i \in DOMAIN Node.branches |-> Evaluate(Node.branches[i].when, Scope)]
             deciding == {i \in DOMAIN Node.branches : verdict[i] # "false"}
             earliest == CHOOSE i \in deciding : \A j \in deciding : i <= j
  <2>1. Node.kind = "decision" /\ DOMAIN Node.branches \subseteq {1, 2}
    BY <1>5, NodeLeads DEF Decide, At, Node, ReadNode
  <2>2. /\ \/ deciding = {} /\ AdvanceTo(Node.otherwise)
           \/ deciding # {} /\ walk' = walk
           \/ deciding # {} /\ walk' = [walk EXCEPT !.status = "failed"]
           \/ deciding # {} /\ AdvanceTo(Node.branches[earliest].next)
        /\ looked' = compliance /\ UNCHANGED <<compliance, reviewed>>
    BY <1>5, Zenon DEF Decide
  <2>3. deciding \subseteq DOMAIN Node.branches
    OBVIOUS
  <2>4. deciding # {} => earliest \in deciding
    <3> HIDE DEF deciding
    <3>1. ASSUME deciding # {} PROVE \E i \in deciding : \A j \in deciding : i <= j
      <4>1. deciding \subseteq {1, 2}
        BY <2>1, <2>3
      <4>2. CASE 1 \in deciding
        BY <4>1, <4>2
      <4>3. CASE 1 \notin deciding
        <5>1. deciding = {2}
          BY <3>1, <4>1, <4>3
        <5>2. 2 <= 2
          OBVIOUS
        <5> QED
          BY <5>1, <5>2
      <4> QED
        BY <4>2, <4>3
    <3> QED
      BY <3>1
  <2> HIDE DEF deciding, earliest, verdict
  <2>5. /\ Node.otherwise \in Outgoing(Node)
        /\ \A i \in DOMAIN Node.branches : Node.branches[i].next \in Outgoing(Node)
    BY <2>1 DEF Outgoing
  <2>6. CASE walk' = walk
    BY <2>2, <2>6 DEF PlaybooksRowsOK
  <2>7. CASE walk' # walk
    <3>1. /\ walk' \in Walks /\ walk'.node \in DOMAIN walk'.book.nodes
          /\ walk'.node \in ReadNodes => reviewed'
      BY <1>2, <1>3, <2>1, <2>2, <2>3, <2>4, <2>5, <2>7
    <3> QED
      BY <2>2, <3>1 DEF PlaybooksRowsOK
  <2> QED
    BY <2>6, <2>7
<1>6. CASE End
  <2>1. Node.kind = "terminal" /\ walk' = [walk EXCEPT !.status = Node.outcome]
        /\ UNCHANGED <<compliance, looked, reviewed>>
    BY <1>6 DEF End, At, Node
  <2>2. Node.outcome \in {"completed", "cancelled"}
    BY <2>1, NodeLeads DEF ReadNode
  <2> QED
    BY <1>3, <2>1, <2>2 DEF PlaybooksRowsOK
<1>7. CASE OfficerDetermines
  BY <1>7 DEF OfficerDetermines, PlaybooksRowsOK
<1> QED
  BY <1>1, <1>4, <1>5, <1>6, <1>7 DEF PlaybooksNext

-----------------------------------------------------------------------------
(***************************************************************************)
(* The office.  Its desks touch disjoint rows: those of a desk that is not *)
(* followed stay sound because nobody writes them, and what a desk has     *)
(* read is kept for the desk that is followed.                             *)
(***************************************************************************)
OfficeRowsOK ==
    /\ RecordsRowsOK /\ ProvidersRowsOK /\ DeliverablesRowsOK /\ OutcomesRowsOK /\ ConsoleRowsOK
    /\ PlaybooksRowsOK /\ PortalRowsOK /\ CallsRowsOK /\ MarketingRowsOK

AtWorkOK ==
    /\ desk = "records"      => RecordsDeskOK /\ RecordsRequestsOK
    /\ desk = "providers"    => ProvidersDeskOK /\ ProvidersRequestsOK
    /\ desk = "deliverables" => DeliverablesRequestsOK
    /\ desk = "outcomes"     => OutcomesDeskOK /\ OutcomesRequestsOK
    /\ desk = "console"      => ConsoleRequestsOK
    /\ desk = "calls"        => CallsDeskOK /\ CallsRequestsOK
    /\ desk = "marketing"    => MarketingRequestsOK

\* Of what is not followed, nothing has begun.
AsideOK ==
    /\ desk # "providers" => \A p \in Providers : file[p].status # "approved"
    /\ desk # "outcomes"  => attempt.decided = {}
    /\ desk # "calls"     => owed = <<>>

OfficeInv == RequestsOK /\ today \in Nat /\ OfficeRowsOK /\ AtWorkOK /\ AsideOK

LEMMA OfficeRowsStay ==
    /\ RecordsRowsOK /\ UNCHANGED recordsRows => RecordsRowsOK'
    /\ ProvidersRowsOK /\ UNCHANGED providersRows => ProvidersRowsOK'
    /\ DeliverablesRowsOK /\ UNCHANGED deliverableRows => DeliverablesRowsOK'
    /\ OutcomesRowsOK /\ UNCHANGED outcomesRows => OutcomesRowsOK'
    /\ ConsoleRowsOK /\ UNCHANGED consoleRows => ConsoleRowsOK'
    /\ PlaybooksRowsOK /\ UNCHANGED playbookRows => PlaybooksRowsOK'
    /\ PortalRowsOK /\ UNCHANGED portalRows => PortalRowsOK'
    /\ CallsRowsOK /\ UNCHANGED callsRows => CallsRowsOK'
    /\ MarketingRowsOK /\ UNCHANGED marketingRows => MarketingRowsOK'
<1>1. RecordsRowsOK /\ UNCHANGED recordsRows => RecordsRowsOK'
  BY DEF recordsRows, RecordsRowsOK, StoredIsReadable
<1>2. ProvidersRowsOK /\ UNCHANGED providersRows => ProvidersRowsOK'
  BY DEF providersRows, ProvidersRowsOK, NothingIsLost
<1>3. DeliverablesRowsOK /\ UNCHANGED deliverableRows => DeliverablesRowsOK'
  BY DEF deliverableRows, DeliverablesRowsOK, Rows, SoundEdition, Unbanned, Numbered
<1>4. OutcomesRowsOK /\ UNCHANGED outcomesRows => OutcomesRowsOK'
  BY DEF outcomesRows, OutcomesRowsOK, BillingIsToldFirst
<1>5. ConsoleRowsOK /\ UNCHANGED consoleRows => ConsoleRowsOK'
  BY DEF consoleRows, ConsoleRowsOK
<1>6. PlaybooksRowsOK /\ UNCHANGED playbookRows => PlaybooksRowsOK'
  BY DEF playbookRows, PlaybooksRowsOK
<1>7. PortalRowsOK /\ UNCHANGED portalRows => PortalRowsOK'
  BY DEF portalRows, PortalRowsOK, BeforeReset, AfterReset
<1>8. CallsRowsOK /\ UNCHANGED callsRows => CallsRowsOK'
  BY DEF callsRows, CallsRowsOK, RefusedLeavesNoTrace, Owed, DueAsItsWorst
<1>9. MarketingRowsOK /\ UNCHANGED marketingRows => MarketingRowsOK'
  <2> SUFFICES ASSUME MarketingRowsOK, library' = library, proposal' = proposal, asset' = asset,
                      experiment' = experiment
               PROVE  MarketingRowsOK'
    BY DEF marketingRows
  <2>1. Variants' = Variants
    BY DEF Variants
  <2> QED
    BY <2>1 DEF MarketingRowsOK, LibraryOK, ApprovedIsInTheLibrary, Unsaid, Disclosed
<1> QED
  BY <1>1, <1>2, <1>3, <1>4, <1>5, <1>6, <1>7, <1>8, <1>9

\* What a desk has read stands while nobody does anything.
LEMMA AtWorkStays ==
    ASSUME AtWorkOK, UNCHANGED officeRows, UNCHANGED <<request, today, desk>>
    PROVE  AtWorkOK'
<1>1. /\ UNCHANGED recordsRows /\ UNCHANGED providersRows /\ UNCHANGED deliverableRows
      /\ UNCHANGED outcomesRows /\ UNCHANGED consoleRows /\ UNCHANGED callsRows
      /\ UNCHANGED marketingRows
  BY DEF officeRows
<1>2. RecordsDeskOK /\ RecordsRequestsOK => (RecordsDeskOK /\ RecordsRequestsOK)'
  BY <1>1 DEF recordsRows, RecordsDeskOK, Scheduling, Doing, RecordsRequestsOK, RecordsRequestOK
<1>3. ProvidersDeskOK /\ ProvidersRequestsOK => (ProvidersDeskOK /\ ProvidersRequestsOK)'
  <2>1. file' = file /\ complaints' = complaints /\ overruled' = overruled
    BY <1>1 DEF providersRows
  <2>2. \A p, row : Over(p, row)' <=> Over(p, row)
    BY <2>1 DEF Over
  <2>3. \A c, p : WillFlag(c, p)' <=> WillFlag(c, p)
    BY <2>2 DEF WillFlag
  <2>4. ProvidersDeskOK => ProvidersDeskOK'
    BY <2>1, <2>2, <2>3 DEF ProvidersDeskOK, SoundFile
  <2>5. ProvidersRequestsOK => ProvidersRequestsOK'
    BY <2>1 DEF ProvidersRequestsOK, ProvidersRequestOK
  <2> QED
    BY <2>4, <2>5
<1>4. DeliverablesRequestsOK => DeliverablesRequestsOK'
  BY <1>1 DEF deliverableRows, DeliverablesRequestsOK, DeliverablesRequestOK, SoundEdition,
              Unbanned, Rows
<1>5. OutcomesDeskOK /\ OutcomesRequestsOK => (OutcomesDeskOK /\ OutcomesRequestsOK)'
  BY <1>1 DEF outcomesRows, OutcomesDeskOK, InTheFeed, Doing, SomeFunded, OutcomesRequestsOK,
              OutcomesRequestOK
<1>6. ConsoleRequestsOK => ConsoleRequestsOK'
  BY <1>1 DEF consoleRows, ConsoleRequestsOK, ConsoleRequestOK
<1>7. CallsDeskOK /\ CallsRequestsOK => (CallsDeskOK /\ CallsRequestsOK)'
  BY <1>1 DEF callsRows, CallsDeskOK, OneOpens, TasksFollow, OwedByTheirOwn, RowsOf, WaitingFor,
              IsAssigned, Doing, CallsRequestsOK, CallsRequestOK, Owed
<1>8. MarketingRequestsOK => MarketingRequestsOK'
  BY <1>1 DEF marketingRows, MarketingRequestsOK, MarketingRequestOK, Unsaid, Disclosed, Variants
<1> QED
  BY <1>2, <1>3, <1>4, <1>5, <1>6, <1>7, <1>8 DEF AtWorkOK

LEMMA OfficeInitInv ==
    ASSUME OfficeInit
    PROVE  OfficeInv
<1>1. /\ request = [c \in Clerks |-> AtRest] /\ today = 0
      /\ RecordsInit /\ ProvidersInit /\ DeliverablesInit /\ OutcomesInit /\ ConsoleInit
      /\ PlaybooksInit /\ PortalInit /\ CallsInit /\ MarketingInit
      /\ desk # "providers" => \A p \in Providers : file[p] = NoFile
  BY DEF OfficeInit
<1>2. RequestsOK
  BY <1>1 DEF RequestsOK
<1>3. AsideOK
  BY <1>1 DEF AsideOK, NoFile, OutcomesInit, CallsInit
<1> QED
  BY <1>1, <1>2, <1>3, RecordsInitOK, ProvidersInitOK, DeliverablesInitOK, OutcomesInitOK,
     ConsoleInitOK, PlaybooksInitOK, PortalInitOK, CallsInitOK, MarketingInitOK
     DEF OfficeInv, OfficeRowsOK, AtWorkOK

LEMMA OfficeNextInv ==
    ASSUME OfficeInv, [OfficeNext]_officeVars
    PROVE  OfficeInv'
<1>1. CASE UNCHANGED officeVars
  <2>1. UNCHANGED officeRows /\ UNCHANGED <<request, today, desk>>
    BY <1>1 DEF officeVars, deskVars
  <2>2. OfficeRowsOK'
    BY <2>1, OfficeRowsStay DEF officeRows, OfficeRowsOK, OfficeInv
  <2>3. AtWorkOK'
    BY <2>1, AtWorkStays DEF OfficeInv
  <2>4. AsideOK'
    BY <2>1 DEF OfficeInv, AsideOK, officeRows, providersRows, outcomesRows, callsRows
  <2> QED
    BY <2>1, <2>2, <2>3, <2>4, RequestsStay DEF OfficeInv
<1>2. CASE OfficeNext
  <2>1. CASE AtRecords(RecordsNext)
    <3>1. RequestsOK' /\ today' \in Nat /\ OfficeRowsOK' /\ AtWorkOK'
      BY <2>1, RecordsStep, OfficeRowsStay DEF AtRecords, OfficeInv, OfficeRowsOK, AtWorkOK
    <3>2. AsideOK'
      BY <2>1 DEF AtRecords, OfficeInv, AsideOK, providersRows, outcomesRows, callsRows
    <3> QED
      BY <3>1, <3>2 DEF OfficeInv
  <2>2. CASE AtProviders(ProvidersNext)
    <3>1. RequestsOK' /\ today' \in Nat /\ OfficeRowsOK' /\ AtWorkOK'
      BY <2>2, ProvidersStep, OfficeRowsStay DEF AtProviders, OfficeInv, OfficeRowsOK, AtWorkOK
    <3>2. AsideOK'
      BY <2>2 DEF AtProviders, OfficeInv, AsideOK, outcomesRows, callsRows
    <3> QED
      BY <3>1, <3>2 DEF OfficeInv
  <2>3. CASE AtDeliverables(DeliverablesNext)
    <3>1. RequestsOK' /\ today' \in Nat /\ OfficeRowsOK' /\ AtWorkOK'
      BY <2>3, DeliverablesStep, OfficeRowsStay
         DEF AtDeliverables, OfficeInv, OfficeRowsOK, AtWorkOK
    <3>2. AsideOK'
      BY <2>3 DEF AtDeliverables, OfficeInv, AsideOK, providersRows, outcomesRows, callsRows
    <3> QED
      BY <3>1, <3>2 DEF OfficeInv
  <2>4. CASE AtOutcomes(OutcomesNext)
    <3>1. RequestsOK' /\ today' \in Nat /\ OfficeRowsOK' /\ AtWorkOK'
      BY <2>4, OutcomesStep, OfficeRowsStay DEF AtOutcomes, OfficeInv, OfficeRowsOK, AtWorkOK
    <3>2. AsideOK'
      BY <2>4 DEF AtOutcomes, OfficeInv, AsideOK, providersRows, callsRows
    <3> QED
      BY <3>1, <3>2 DEF OfficeInv
  <2>5. CASE AtConsole(ConsoleNext)
    <3>1. RequestsOK' /\ today' \in Nat /\ OfficeRowsOK' /\ AtWorkOK'
      BY <2>5, ConsoleStep, OfficeRowsStay DEF AtConsole, OfficeInv, OfficeRowsOK, AtWorkOK
    <3>2. AsideOK'
      BY <2>5 DEF AtConsole, OfficeInv, AsideOK, providersRows, outcomesRows, callsRows
    <3> QED
      BY <3>1, <3>2 DEF OfficeInv
  <2>6. CASE AtPlaybooks(PlaybooksNext)
    <3>1. RequestsOK' /\ today' \in Nat
      BY <2>6, RequestsStay DEF AtPlaybooks, OfficeInv, deskVars
    <3>2. OfficeRowsOK' /\ AtWorkOK'
      BY <2>6, PlaybooksStep, OfficeRowsStay DEF AtPlaybooks, OfficeInv, OfficeRowsOK, AtWorkOK
    <3>3. AsideOK'
      BY <2>6 DEF AtPlaybooks, OfficeInv, AsideOK, providersRows, outcomesRows, callsRows
    <3> QED
      BY <3>1, <3>2, <3>3 DEF OfficeInv
  <2>7. CASE AtPortal(PortalNext)
    <3>1. RequestsOK' /\ today' \in Nat
      BY <2>7, RequestsStay DEF AtPortal, OfficeInv, deskVars
    <3>2. OfficeRowsOK' /\ AtWorkOK'
      BY <2>7, PortalStep, OfficeRowsStay DEF AtPortal, OfficeInv, OfficeRowsOK, AtWorkOK
    <3>3. AsideOK'
      BY <2>7 DEF AtPortal, OfficeInv, AsideOK, providersRows, outcomesRows, callsRows
    <3> QED
      BY <3>1, <3>2, <3>3 DEF OfficeInv
  <2>8. CASE AtCalls(CallsNext)
    <3>1. RequestsOK' /\ today' \in Nat /\ OfficeRowsOK' /\ AtWorkOK'
      BY <2>8, CallsStep, OfficeRowsStay DEF AtCalls, OfficeInv, OfficeRowsOK, AtWorkOK
    <3>2. AsideOK'
      BY <2>8 DEF AtCalls, OfficeInv, AsideOK, providersRows, outcomesRows
    <3> QED
      BY <3>1, <3>2 DEF OfficeInv
  <2>9. CASE AtMarketing(MarketingNext)
    <3>1. RequestsOK' /\ today' \in Nat /\ OfficeRowsOK' /\ AtWorkOK'
      BY <2>9, MarketingStep, OfficeRowsStay DEF AtMarketing, OfficeInv, OfficeRowsOK, AtWorkOK
    <3>2. AsideOK'
      BY <2>9 DEF AtMarketing, OfficeInv, AsideOK, providersRows, outcomesRows, callsRows
    <3> QED
      BY <3>1, <3>2 DEF OfficeInv
  <2> QED
    BY <1>2, <2>1, <2>2, <2>3, <2>4, <2>5, <2>6, <2>7, <2>8, <2>9 DEF OfficeNext
<1> QED
  BY <1>1, <1>2

LEMMA OfficeInvariant == OfficeSpec => []OfficeInv
<1>1. OfficeInit => OfficeInv
  BY OfficeInitInv
<1>2. OfficeInv /\ [OfficeNext]_officeVars => OfficeInv'
  BY OfficeNextInv
<1> QED
  BY <1>1, <1>2, PTL DEF OfficeSpec

\* For any documents, providers, editions and calls, whatever the clerks of a
\* desk do at once and whoever dies: the rows stay well formed, a document on
\* file can always be opened (store writes the blob before the row), and a
\* recommendation presents or rejects every offering it considered, never both
\* (requestRecommendation, rankCandidates).
THEOREM RowsAlwaysAgree == OfficeSpec => []RowsAgree
<1>1. OfficeInv => RowsAgree
  <2> SUFFICES ASSUME OfficeInv PROVE RowsAgree
    OBVIOUS
  <2>1. /\ desk = "records" => RecordsTypeOK
        /\ desk = "providers" => ProvidersTypeOK
        /\ desk = "outcomes" => OutcomesTypeOK
        /\ desk = "console" => ConsoleTypeOK
        /\ desk = "calls" => CallsTypeOK
    BY RecordsAgree, ProvidersAnswer, OutcomesTypes, ConsoleAnswers, CallsAnswer
       DEF OfficeInv, OfficeRowsOK, AtWorkOK
  <2>2. DeliverablesTypeOK /\ PlaybooksTypeOK /\ PortalTypeOK /\ MarketingTypeOK
    BY DeliveredIsSound, PlaybooksAnswer, ProofsStayApart, MarketingAnswers
       DEF OfficeInv, OfficeRowsOK
  <2>3. StoredIsReadable
    BY DEF OfficeInv, OfficeRowsOK, RecordsRowsOK
  <2>4. NothingIsDropped
    BY DEF OfficeInv, OfficeRowsOK, ProvidersRowsOK, NothingIsLost, NothingIsDropped
  <2> QED
    BY <2>1, <2>2, <2>3, <2>4 DEF RowsAgree, OfficeTypeOK
<1> QED
  BY <1>1, OfficeInvariant, PTL

\* What goes out, for any documents, phrases, copy, arms and conditions.  A
\* delivered edition passed the check, the scan and a person, and says nothing
\* that its scan knew as banned but in the client's name, which is printed and
\* never scanned (approve, deliver); neither an asset past
\* submission nor an arm says what has been banned all along
\* (submitAssetForReview, registerVariant); and no way through a graph that is
\* served reaches a sending unread (V1_PLAYBOOK_SEEDS).
THEOREM OnlyReviewedEverGoesOut == OfficeSpec => []OnlyReviewedGoesOut
<1>1. OfficeInv => OnlyReviewedGoesOut
  BY DeliveredIsSound, PlaybooksAnswer, MarketingAnswers
     DEF OfficeInv, OfficeRowsOK, OnlyReviewedGoesOut
<1> QED
  BY <1>1, OfficeInvariant, PTL

\* A funding decision, whoever makes it and whoever dies, is dated in billing
\* before the attempt says so and has reached the lender database, or is on its
\* way there, or the process died between; and an approval that is reported as
\* unfunded can be refunded if its success fee was charged (approveAttempt,
\* markAttemptFunded, feedBackToLenderIntelligence, refundsDueOn).
THEOREM DecisionsAreAlwaysHeard == OfficeSpec => []DecisionsAreHeard
<1>1. OfficeInv => DecisionsAreHeard
  <2> SUFFICES ASSUME OfficeInv PROVE DecisionsAreHeard
    OBVIOUS
  <2>1. BillingIsToldFirst /\ UnfundedIsRefundable
    BY DecisionsAreKnown DEF OfficeInv, OfficeRowsOK
  <2>2. DecisionIsLearned
    BY DEF OfficeInv, AtWorkOK, AsideOK, OutcomesDeskOK, InTheFeed, DecisionIsLearned
  <2> QED
    BY <2>1, <2>2 DEF DecisionsAreHeard
<1> QED
  BY <1>1, OfficeInvariant, PTL

\* No write of the Console runs past its gate: not for an observer, not below
\* Level 3 what is grave, not for a client who has been ineligible all along,
\* not before the ledger has it, for every route of every screen and whatever
\* sessions and standings do meanwhile (requireStaff, authorised, the chain).
THEOREM RoutesAlwaysMeetTheirGates == OfficeSpec => []RoutesMeetTheirGates
<1>1. OfficeInv => RoutesMeetTheirGates
  BY ConsoleAnswers DEF OfficeInv, OfficeRowsOK, AtWorkOK, RoutesMeetTheirGates
<1> QED
  BY <1>1, OfficeInvariant, PTL

\* In no number of calls of the portal does what a browser holds become a proof
\* it could not have made: a session no credential, one factor of two no
\* session, a session and the mailbox no second factor (/portal/sign-in/mfa,
\* /portal/password-reset/complete, /portal/password-sign-in/remove-password).
THEOREM ProofsNeverAddUp == OfficeSpec => []ProofsDoNotAddUp
<1>1. OfficeInv => ProofsDoNotAddUp
  BY ProofsStayApart DEF OfficeInv, OfficeRowsOK
<1> QED
  BY <1>1, OfficeInvariant, PTL

\* Every promise heard on a call is owed its correction by somebody, by the
\* deadline of the worst it could be taken for, and no more often than there
\* were analyses at once; and a call that may not be recorded leaves nothing
\* (analyseCall, raiseObligations, detectPromises), for any sentences,
\* detectors and transcripts.
THEOREM PromisesAreAlwaysAnswered == OfficeSpec => []PromisesAreAnswered
<1>1. OfficeInv => PromisesAreAnswered
  <2> SUFFICES ASSUME OfficeInv PROVE PromisesAreAnswered
    OBVIOUS
  <2>1. CASE desk = "calls"
    BY <2>1, CallsAnswer DEF OfficeInv, OfficeRowsOK, AtWorkOK
  <2>2. CASE desk # "calls"
    <3>1. owed = <<>> /\ DOMAIN owed = {}
      BY <2>2 DEF OfficeInv, AsideOK
    <3>2. \A s : {i \in DOMAIN owed : owed[i].excerpt = s} = {}
      BY <3>1
    <3>3. OwedOncePerAnalysis
      BY <3>2, FS_EmptySet, ClerksCounted DEF OwedOncePerAnalysis
    <3>4. RefusedLeavesNoTrace /\ \A t \in heard : DetectPromises(t) \subseteq Owed
      BY DEF OfficeInv, OfficeRowsOK, CallsRowsOK
    <3> QED
      BY <3>1, <3>3, <3>4 DEF PromisesAreAnswered, PromisesAreOwed, WorstSetsTheDate
  <2> QED
    BY <2>1, <2>2
<1> QED
  BY <1>1, OfficeInvariant, PTL

\* What was preserved before somebody asked to destroy, export or approve the
\* deletion of a document, and still is, stops them, for any holds and whoever
\* places and releases them meanwhile (remove, read, decideRequest).
THEOREM HoldsAlwaysPreserve == OfficeSpec => HoldsPreserve
<1>1. OfficeInv /\ [OfficeNext]_officeVars => [HoldsPreserved]_recordsVars
  <2> SUFFICES ASSUME OfficeInv, OfficeNext, ~UNCHANGED recordsVars PROVE HoldsPreserved
    BY DEF officeVars, officeRows, recordsVars
  <2>1. CASE AtRecords(RecordsNext)
    BY <2>1, RecordsStep DEF AtRecords, OfficeInv, OfficeRowsOK, AtWorkOK
  <2>2. CASE UNCHANGED recordsRows
    BY <2>2 DEF recordsRows, HoldsPreserved, Preserves
  <2> QED
    BY <2>1, <2>2
       DEF OfficeNext, AtProviders, AtDeliverables, AtOutcomes, AtConsole, AtPlaybooks, AtPortal,
           AtCalls, AtMarketing
<1>2. OfficeSpec => [][HoldsPreserved]_recordsVars
  BY <1>1, OfficeInvariant, PTL DEF OfficeSpec
<1> QED
  BY <1>2 DEF HoldsPreserve, HoldsPreserved, Preserves

\* Complaints take a provider off in whatever order they are filed and counted,
\* as long as nobody dies over one, and no client is shown one who is off or was
\* overdue by his own cadence or the board's when the answer is given, for any
\* providers, weights, thresholds and cadences (recordComplaint, standingOf,
\* requestRecommendation).
THEOREM ProvidersStayGoverned == OfficeSpec => ProvidersAreGoverned
<1>1. OfficeInv => ComplaintsAddUp
  <2> SUFFICES ASSUME OfficeInv PROVE ComplaintsAddUp
    OBVIOUS
  <2>1. CASE desk = "providers"
    BY <2>1, ProvidersAnswer DEF OfficeInv, OfficeRowsOK, AtWorkOK
  <2>2. CASE desk # "providers"
    BY <2>2 DEF OfficeInv, AsideOK, ComplaintsAddUp
  <2> QED
    BY <2>1, <2>2
<1>2. OfficeInv /\ [OfficeNext]_officeVars => [Governed]_providersVars
  <2> SUFFICES ASSUME OfficeInv, OfficeNext, ~UNCHANGED providersVars PROVE Governed
    BY DEF officeVars, officeRows, providersVars
  <2>1. CASE AtProviders(ProvidersNext)
    BY <2>1, ProvidersStep DEF AtProviders, OfficeInv, OfficeRowsOK, AtWorkOK
  <2>2. CASE UNCHANGED providersRows
    BY <2>2 DEF providersRows, Governed
  <2> QED
    BY <2>1, <2>2
       DEF OfficeNext, AtRecords, AtDeliverables, AtOutcomes, AtConsole, AtPlaybooks, AtPortal,
           AtCalls, AtMarketing
<1>3. OfficeSpec => [][Governed]_providersVars
  BY <1>2, OfficeInvariant, PTL DEF OfficeSpec
<1>4. OfficeSpec => []ComplaintsAddUp
  BY <1>1, OfficeInvariant, PTL
<1> QED
  BY <1>3, <1>4 DEF ProvidersAreGoverned, RecommendedIsGoverned, Governed

=============================================================================
