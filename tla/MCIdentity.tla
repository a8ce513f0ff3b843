----------------------------- MODULE MCIdentity -----------------------------
(***************************************************************************)
(* Who gets in: a client user's account, its second factor, a staff        *)
(* member's access and the limiter in front of them.  They touch disjoint  *)
(* rows, so each behaviour follows one of them, `door`, and every          *)
(* interleaving of the requests at that door.                              *)
(***************************************************************************)
EXTENDS ClientAccount, SecondFactor, StaffAccess, RateLimiter, TLC

VARIABLE door

identityVars == <<accountVars, factorVars, staffVars, limiterVars, door>>

\* The requests at every door are drawn from one set of model values.
MCAlike == Permutations(Calls) \union Permutations(StaffKeys)

AtAccount(A) == door = "account" /\ A /\ UNCHANGED <<factorVars, staffVars, limiterVars, door>>
AtFactor(A)  == door = "factor"  /\ A /\ UNCHANGED <<accountVars, staffVars, limiterVars, door>>
AtStaff(A)   == door = "staff"   /\ A /\ UNCHANGED <<accountVars, factorVars, limiterVars, door>>
AtLimiter(A) == door = "limiter" /\ A /\ UNCHANGED <<accountVars, factorVars, staffVars, door>>

IdentityInit ==
    /\ door \in {"account", "factor", "staff", "limiter"}
    /\ AccountInit /\ FactorInit /\ StaffInit /\ LimiterInit
    \* of the parts not followed, one initial state
    /\ door # "account" => user.enrolled
    /\ door # "factor"  => keys = {}
    /\ door # "staff"   => credential.enrolled

IdentityNext ==
    \/ AtAccount(AccountNext)
    \/ AtFactor(FactorNext)
    \/ AtStaff(StaffNext)
    \/ AtLimiter(LimiterNext)

IdentitySpec == IdentityInit /\ [][IdentityNext]_identityVars

\* The type invariant of whichever part is followed.
IdentityTypeOK ==
    /\ door = "account" => AccountTypeOK
    /\ door = "factor"  => FactorTypeOK
    /\ door = "staff"   => StaffTypeOK
    /\ door = "limiter" => LimiterTypeOK

\* What a credential is made of agrees: well-formed rows, and both factors of
\* a staff member from one enrolment.
CredentialsAgree == IdentityTypeOK /\ FactorsFromOneEnrolment

\* What is good for one sign-in lets in once, however many requests present it
\* together: a recovery code, a client's key challenge, a sign-in challenge
\* answered by key, a staff member's key challenge.
SingleUse == RecoveryCodeOnce /\ KeyChallengeOnce /\ SignsInByKeyOnce /\ StaffChallengeOnce

\* Out means out: of a disabled account, of a withdrawn access, by a password
\* that was removed, by a move asked for before a reset - although a sign-in or a
\* link was already on its way when the door was shut - and, once the desk took
\* an authenticator away, on a challenge it abandoned, whoever had presented a
\* recovery code or verified a key.  Only a code that was accepted before the
\* desk wrote lets its one request in.
OutMeansOut ==
    /\ DisabledMeansOut /\ WithdrawnMeansOut
    /\ PasswordlessStaysOut /\ ResetStopsOlderMoves
    /\ RemovalEndsSignIns
=============================================================================
