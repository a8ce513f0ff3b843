---------------------------- MODULE StaffAccess ----------------------------
(***************************************************************************)
(* One staff member's access to the Console: credential, invitations,      *)
(* security keys and sessions, packages/identity (staff, staffWebauthn).   *)
(*                                                                         *)
(* A handler reads and checks, then writes; where it writes two rows       *)
(* outside a transaction those are two steps, and a process may die        *)
(* between them.  Codes are right or wrong here: replays are left out.     *)
(***************************************************************************)
EXTENDS Naturals, FiniteSets

CONSTANTS Staffers,         \* requests under way at once
          StaffKeys,        \* security keys
          StaffInvitations, StaffChallenges, StaffSessions,   \* 1..n, model bounds
          StaffMaxFailed,   \* STAFF_MAX_FAILED_ATTEMPTS
          MaxStaffCalls, MaxStaffDeaths     \* model bounds

STAFF_KEYS_REQUIRED == 2

ASSUME StaffAssumption ==
    /\ \A set \in {StaffInvitations, StaffChallenges, StaffSessions} :
          IsFiniteSet(set) /\ set = 1..Cardinality(set)
    /\ 1 \in StaffInvitations   \* the enrolment of an account that starts enrolled
    /\ {StaffMaxFailed, MaxStaffCalls, MaxStaffDeaths} \subseteq Nat

VARIABLES credential,    \* the actorCredential row; a hash or a secret is named
                         \* by the enrolment it comes from, 0 for none
          staffInvite, staffKey, staffChallenge, staffSession,   \* by status
          staffCall,     \* staffCall[p]: the handler p is in
          staffCalls, staffDeaths,
          admitted       \* history: sessions issued per sign-in challenge

staffRows == <<credential, staffInvite, staffKey, staffChallenge, staffSession>>
staffVars == <<staffRows, staffCall, staffCalls, staffDeaths, admitted>>

AtRest == [op |-> "free", on |-> 0, key |-> {}, failed |-> 0]

\* From nothing, or from an account that has two keys.
StaffInit ==
    /\ \E enrolled \in BOOLEAN :
         /\ credential = [hash |-> IF enrolled THEN 1 ELSE 0,
                          secret |-> IF enrolled THEN 1 ELSE 0,
                          enrolled |-> enrolled, disabled |-> FALSE,
                          passwordOff |-> FALSE, failed |-> 0, locked |-> FALSE]
         /\ staffKey = [k \in StaffKeys |-> IF enrolled THEN "live" ELSE "none"]
    /\ staffInvite = [i \in StaffInvitations |-> "none"]
    /\ staffChallenge = [w \in StaffChallenges |-> "none"]
    /\ staffSession = [s \in StaffSessions |-> "none"]
    /\ staffCall = [p \in Staffers |-> AtRest]
    /\ staffCalls = 0 /\ staffDeaths = 0
    /\ admitted = [w \in StaffChallenges |-> 0]

Unused(table) == {n \in DOMAIN table : table[n] = "none"
                                       /\ \A k \in 1..(n - 1) : table[k] # "none"}
LiveKeys   == {k \in StaffKeys : staffKey[k] = "live"}
InGoodStanding == credential.enrolled /\ ~credential.disabled

StaffIn(p, op)     == staffCall[p].op = op
StaffGoes(p, next) == staffCall' = [staffCall EXCEPT ![p] = next]
StaffEnds(p)       == StaffGoes(p, AtRest)
StaffQuiet         == UNCHANGED <<staffCalls, staffDeaths>>
StaffRead(op, on, ks) == [AtRest EXCEPT !.op = op, !.on = on, !.key = ks]
StaffReads(p, next) ==
    /\ StaffIn(p, "free") /\ staffCalls < MaxStaffCalls /\ staffCalls' = staffCalls + 1
    /\ StaffGoes(p, next) /\ UNCHANGED <<staffRows, staffDeaths, admitted>>
WritesCredential(row) ==
    /\ credential' = row
    /\ StaffQuiet /\ UNCHANGED <<staffInvite, staffKey, staffChallenge, staffSession, admitted>>

-----------------------------------------------------------------------------
(***************************************************************************)
(* Invitation and enrolment.                                               *)
(***************************************************************************)
\* Mutant: the authenticator of the enrolment that was begun is kept.
InviteKeepingSecret(p) ==
    \/ ~credential.enrolled /\ StaffReads(p, StaffRead("invite", 0, {}))
    \/ /\ StaffIn(p, "invite")
       /\ \E i \in Unused(staffInvite) :
            staffInvite' = [j \in StaffInvitations |->
                IF j = i THEN "sent"
                ELSE IF staffInvite[j] = "sent" THEN "expired" ELSE staffInvite[j]]
       /\ credential' = [credential EXCEPT !.hash = 0, !.failed = 0, !.locked = FALSE]
       /\ StaffEnds(p) /\ StaffQuiet
       /\ UNCHANGED <<staffKey, staffChallenge, staffSession, admitted>>

\* By a Level 3 human: a pending enrolment starts over.
InviteStaff(p) ==
    \/ ~credential.enrolled /\ StaffReads(p, StaffRead("invite", 0, {}))
    \/ /\ StaffIn(p, "invite")
       /\ \E i \in Unused(staffInvite) :
            staffInvite' = [j \in StaffInvitations |->
                IF j = i THEN "sent"
                ELSE IF staffInvite[j] = "sent" THEN "expired" ELSE staffInvite[j]]
       /\ credential' = [credential EXCEPT !.hash = 0, !.secret = 0,
                                           !.failed = 0, !.locked = FALSE]
       /\ StaffEnds(p) /\ StaffQuiet
       /\ UNCHANGED <<staffKey, staffChallenge, staffSession, admitted>>

\* The enrolment is named by its invitation.
EnrolStaffFromInvitation(p) ==
    \/ \E i \in StaffInvitations :
          /\ staffInvite[i] = "sent" /\ ~credential.enrolled /\ ~credential.disabled
          /\ StaffReads(p, StaffRead("enrol", i, {}))
    \/ /\ StaffIn(p, "enrol")
       /\ staffInvite' = [staffInvite EXCEPT ![staffCall[p].on] = "accepted"]
       /\ credential' = [credential EXCEPT !.hash = staffCall[p].on,
                             !.secret = staffCall[p].on, !.failed = 0, !.locked = FALSE]
       /\ StaffEnds(p) /\ StaffQuiet
       /\ UNCHANGED <<staffKey, staffChallenge, staffSession, admitted>>

\* The password of the enrolment, and a code of its authenticator.
ConfirmStaffEnrolment(p) ==
    \/ /\ ~credential.enrolled /\ credential.secret # 0 /\ credential.hash # 0
       /\ StaffReads(p, StaffRead("confirm", 0, {}))
    \/ /\ StaffIn(p, "confirm")
       /\ WritesCredential([credential EXCEPT !.enrolled = TRUE]) /\ StaffEnds(p)

-----------------------------------------------------------------------------
(***************************************************************************)
(* Signing in, by password and code or by key, and sessions.               *)
(***************************************************************************)
\* The route asks assertPasswordSignInPermitted first, in a read of its own.
AssertPasswordSignInPermitted(p) ==
    ~credential.passwordOff /\ StaffReads(p, StaffRead("permitted", 0, {}))

AuthenticateStaff(p) ==
    \/ /\ StaffIn(p, "permitted")
       /\ IF InGoodStanding /\ ~credential.locked
          THEN \/ /\ credential.hash # 0 /\ credential.secret # 0
                  /\ StaffGoes(p, StaffRead("session", 0, {}))
               \/ StaffGoes(p, [StaffRead("fail", 0, {}) EXCEPT !.failed = credential.failed])
          ELSE StaffEnds(p)
       /\ StaffQuiet /\ UNCHANGED <<staffRows, admitted>>
    \/ /\ StaffIn(p, "fail")
       /\ LET attempts == staffCall[p].failed + 1
              locks    == attempts >= StaffMaxFailed
          IN  WritesCredential([credential EXCEPT !.failed = IF locks THEN 0 ELSE attempts,
                                                  !.locked = @ \/ locks])
       /\ StaffEnds(p)

\* The session first, then the credential: for both ways of signing in.
IssueStaffSession(p) ==
    /\ StaffIn(p, "session")
    /\ \E s \in Unused(staffSession) : staffSession' = [staffSession EXCEPT ![s] = "live"]
    /\ admitted' = [w \in StaffChallenges |->
                      IF w = staffCall[p].on THEN admitted[w] + 1 ELSE admitted[w]]
    /\ StaffGoes(p, StaffRead("signed_in", 0, {}))
    /\ StaffQuiet /\ UNCHANGED <<credential, staffInvite, staffKey, staffChallenge>>

RecordSignIn(p) ==
    /\ StaffIn(p, "signed_in")
    /\ WritesCredential([credential EXCEPT !.failed = 0, !.locked = FALSE]) /\ StaffEnds(p)

BeginStaffPasskeySignIn(p) ==
    \/ StaffReads(p, StaffRead("options", 0, {}))
    \/ /\ StaffIn(p, "options")
       /\ \E w \in Unused(staffChallenge) :
            staffChallenge' = [v \in StaffChallenges |->
                IF v = w THEN "open"
                ELSE IF staffChallenge[v] = "open" THEN "spent" ELSE staffChallenge[v]]
       /\ StaffEnds(p) /\ StaffQuiet
       /\ UNCHANGED <<credential, staffInvite, staffKey, staffSession, admitted>>

CompleteStaffPasskeySignIn(p) ==
    \E w \in StaffChallenges :
       /\ LiveKeys # {} /\ InGoodStanding /\ staffChallenge[w] = "open"
       /\ StaffReads(p, StaffRead("spend", w, {}))

SpendStaffChallenge(p) ==
    /\ StaffIn(p, "spend")
    /\ IF staffChallenge[staffCall[p].on] = "open"
       THEN /\ staffChallenge' = [staffChallenge EXCEPT ![staffCall[p].on] = "spent"]
            /\ StaffGoes(p, StaffRead("session", staffCall[p].on, {}))
       ELSE StaffEnds(p) /\ UNCHANGED staffChallenge
    /\ StaffQuiet /\ UNCHANGED <<credential, staffInvite, staffKey, staffSession, admitted>>

\* lastSeenAt, written last, is left out: the session's lapse is an action.
ResolveStaffSession(p) ==
    \/ \E s \in StaffSessions :
          /\ staffSession[s] = "live" /\ InGoodStanding
          /\ StaffReads(p, StaffRead("resolve", s, {}))
    \/ StaffIn(p, "resolve") /\ StaffEnds(p) /\ StaffQuiet /\ UNCHANGED <<staffRows, admitted>>

RevokeStaffSession(p) ==
    \/ \E s \in StaffSessions :
          staffSession[s] # "none" /\ StaffReads(p, StaffRead("revoke", s, {}))
    \/ /\ StaffIn(p, "revoke")
       /\ staffSession' = [staffSession EXCEPT ![staffCall[p].on] = "revoked"]
       /\ StaffEnds(p) /\ StaffQuiet
       /\ UNCHANGED <<credential, staffInvite, staffKey, staffChallenge, admitted>>

\* The credential, and then the sessions.
DisableStaffCredential(p) ==
    \/ StaffReads(p, StaffRead("disable", 0, {}))
    \/ /\ StaffIn(p, "disable")
       /\ WritesCredential([credential EXCEPT !.disabled = TRUE])
       /\ StaffGoes(p, StaffRead("revoke_all", 0, {}))
    \/ /\ StaffIn(p, "revoke_all")
       /\ staffSession' = [s \in StaffSessions |->
             IF staffSession[s] \in {"live", "lapsed"} THEN "revoked" ELSE staffSession[s]]
       /\ StaffEnds(p) /\ StaffQuiet
       /\ UNCHANGED <<credential, staffInvite, staffKey, staffChallenge, admitted>>

-----------------------------------------------------------------------------
(***************************************************************************)
(* Keys and the password switch.                                           *)
(***************************************************************************)
TurnKeys(p, ks, status) ==
    /\ staffKey' = [k \in StaffKeys |-> IF k \in ks THEN status ELSE staffKey[k]]
    /\ StaffEnds(p) /\ StaffQuiet
    /\ UNCHANGED <<credential, staffInvite, staffChallenge, staffSession, admitted>>

CompleteStaffKeyRegistration(p) ==
    \/ \E k \in StaffKeys :
          /\ InGoodStanding /\ staffKey[k] # "live"
          /\ StaffReads(p, StaffRead("register", 0, {k}))
    \/ StaffIn(p, "register") /\ TurnKeys(p, staffCall[p].key, "live")

\* The keys are counted, and the key that confirms is read, before the write.
DisableStaffPasswordSignIn(p) ==
    \/ /\ ~credential.passwordOff /\ Cardinality(LiveKeys) >= STAFF_KEYS_REQUIRED
       /\ StaffReads(p, StaffRead("password_off", 0, {}))
    \/ /\ StaffIn(p, "password_off")
       /\ WritesCredential([credential EXCEPT !.passwordOff = TRUE]) /\ StaffEnds(p)

\* By another Level 3 human, on a recorded basis.
RestoreStaffPasswordSignIn(p) ==
    \/ credential.passwordOff /\ StaffReads(p, StaffRead("password_on", 0, {}))
    \/ /\ StaffIn(p, "password_on")
       /\ WritesCredential([credential EXCEPT !.passwordOff = FALSE]) /\ StaffEnds(p)

RemoveStaffKey(p) ==
    \/ \E k \in LiveKeys :
          /\ ~(credential.passwordOff /\ Cardinality(LiveKeys) <= 1)
          /\ StaffReads(p, StaffRead("remove_key", 0, {k}))
    \/ StaffIn(p, "remove_key") /\ TurnKeys(p, staffCall[p].key, "removed")

StaffTime ==
    /\ \/ \E i \in StaffInvitations : staffInvite[i] = "sent"
             /\ staffInvite' = [staffInvite EXCEPT ![i] = "expired"]
             /\ UNCHANGED <<credential, staffSession>>
       \/ \E s \in StaffSessions : staffSession[s] = "live"
             /\ staffSession' = [staffSession EXCEPT ![s] = "lapsed"]
             /\ UNCHANGED <<credential, staffInvite>>
       \/ credential.locked /\ credential' = [credential EXCEPT !.locked = FALSE]
             /\ UNCHANGED <<staffInvite, staffSession>>
    /\ UNCHANGED <<staffKey, staffChallenge, staffCall, staffCalls, staffDeaths, admitted>>

StaffCallDies(p) ==
    /\ ~StaffIn(p, "free") /\ staffDeaths < MaxStaffDeaths /\ staffDeaths' = staffDeaths + 1
    /\ StaffEnds(p) /\ UNCHANGED <<staffRows, staffCalls, admitted>>

StaffNext ==
    \/ StaffTime
    \/ \E p \in Staffers :
         \/ InviteStaff(p)         \/ EnrolStaffFromInvitation(p) \/ ConfirmStaffEnrolment(p)
         \/ AssertPasswordSignInPermitted(p) \/ AuthenticateStaff(p)
         \/ IssueStaffSession(p)   \/ RecordSignIn(p)
         \/ BeginStaffPasskeySignIn(p) \/ CompleteStaffPasskeySignIn(p)
         \/ SpendStaffChallenge(p) \/ ResolveStaffSession(p)
         \/ RevokeStaffSession(p)  \/ DisableStaffCredential(p)
         \/ CompleteStaffKeyRegistration(p) \/ DisableStaffPasswordSignIn(p)
         \/ RestoreStaffPasswordSignIn(p)   \/ RemoveStaffKey(p)
         \/ StaffCallDies(p)

StaffSpec == StaffInit /\ [][StaffNext]_staffVars

-----------------------------------------------------------------------------
(***************************************************************************)
(* Properties.                                                             *)
(***************************************************************************)
StaffTypeOK ==
    /\ credential \in [hash : StaffInvitations \union {0}, secret : StaffInvitations \union {0},
                       enrolled : BOOLEAN, disabled : BOOLEAN, passwordOff : BOOLEAN,
                       failed : Nat, locked : BOOLEAN]
    /\ staffInvite \in [StaffInvitations -> {"none", "sent", "accepted", "expired"}]
    /\ staffKey \in [StaffKeys -> {"none", "live", "removed"}]
    /\ staffChallenge \in [StaffChallenges -> {"none", "open", "spent"}]
    /\ staffSession \in [StaffSessions -> {"none", "live", "lapsed", "revoked"}]

\* A staff member whose access was withdrawn is out: no request that begins
\* afterwards is let in, though a death between the two statements, or a
\* sign-in under way, left a session live (disableStaffCredential,
\* resolveStaffSession).
WithdrawnMeansOut ==
    [][\A p \in Staffers :
          (staffCall[p].op = "free" /\ staffCall'[p].op = "resolve")
              => ~credential.disabled]_staffVars

\* A sign-in challenge admits once, whatever is presented together
\* (completeStaffPasskeySignIn, spendChallenge).
StaffChallengeOnce == \A w \in StaffChallenges : admitted[w] <= 1

\* The password and the authenticator of a credential come from one and the
\* same enrolment, whichever invitations and enrolments crossed: nobody signs
\* in with one person's password and another's code (inviteStaff,
\* enrolStaffFromInvitation).
FactorsFromOneEnrolment == credential.hash = credential.secret

=============================================================================
