---------------------------- MODULE SecondFactor ----------------------------
(***************************************************************************)
(* The second factor of one client user: authenticator apps, recovery      *)
(* codes, security keys and the challenges that ask for one of them,       *)
(* packages/identity (mfa, totp, webauthn, confirmation) as                *)
(* packages/portal/src/session.ts completes a sign-in with them.           *)
(*                                                                         *)
(* The statements of an answer are steps of their own: other answers, the  *)
(* settings page and the desk come in between.  A code is the time step it *)
(* is for.  Signatures verify when they sign the challenge that was spent; *)
(* signature counters are left out.                                        *)
(***************************************************************************)
EXTENDS Naturals, FiniteSets, FiniteSetsExt

CONSTANTS Answers,             \* requests under way at once
          Factors, Challenges, KeyChallenges, Codes,   \* 1..n each, model bounds
          Keys,                \* security keys that can be registered
          MaxChallengeAttempts,   \* MFA_MAX_CHALLENGE_ATTEMPTS
          LastStep,            \* model bound on time, in TOTP steps
          MaxAnswers           \* model bound on the requests that are let in

TOTP_DRIFT_STEPS == 1

ASSUME FactorAssumption ==
    /\ \A set \in {Factors, Challenges, KeyChallenges, Codes} :
          IsFiniteSet(set) /\ set = 1..Cardinality(set)
    /\ {MaxChallengeAttempts, LastStep, MaxAnswers} \subseteq Nat

VARIABLES factor,      \* factor[f]: an authenticator's status and lastUsedStep
          keys,        \* registered security keys
          recovery,    \* recovery[n]: a recovery code; a set has one code here
          challenge,   \* challenge[h]: status and failedAttempts
          keyChallenge, \* what a key is asked to sign
          answer,      \* answer[a]: the request a is in, and what it has read
          clock, answered,
          spent, signed, byKey,   \* history: uses of a code, of a key challenge,
                                  \* and sign-ins by key per challenge
          ended        \* history: challenges open when the desk removed a factor

factorRows    == <<factor, keys, recovery, challenge, keyChallenge>>
factorHistory == <<spent, signed, byKey, ended>>
factorVars    == <<factorRows, answer, clock, answered, factorHistory>>

Waiting == [op |-> "free", on |-> 0, uses |-> 0, step |-> 0, failed |-> 0]

FactorInit ==
    /\ factor = [f \in Factors |-> [status |-> IF f = 1 THEN "active" ELSE "none", last |-> 0]]
    /\ keys \in {{}, Keys}
    /\ recovery = [n \in Codes |-> IF n = 1 THEN "fresh" ELSE "none"]
    /\ challenge = [h \in Challenges |-> [status |-> "none", failed |-> 0]]
    /\ keyChallenge = [w \in KeyChallenges |-> "none"]
    /\ answer = [a \in Answers |-> Waiting]
    /\ clock = 1 /\ answered = 0
    /\ spent = [n \in Codes |-> 0] /\ signed = [w \in KeyChallenges |-> 0]
    /\ byKey = [h \in Challenges |-> 0] /\ ended = {}

ActiveFactors   == {f \in Factors : factor[f].status = "active"}
TheFactor       == Max(ActiveFactors)      \* activeTotpFactor: the newest
HasActiveFactor == ActiveFactors # {} \/ keys # {}
NextOf(table, isNone(_)) ==
    {n \in DOMAIN table : isNone(table[n]) /\ \A k \in 1..(n - 1) : ~isNone(table[k])}
IsNone(row) == row = "none"

\* verifyTotp: within the drift, and after the step that was used last.
VerifyTotp(step, last) ==
    step \in (clock - TOTP_DRIFT_STEPS)..(clock + TOTP_DRIFT_STEPS) /\ step > last

Answering(a, op) == answer[a].op = op
Turns(a, next)   == answer' = [answer EXCEPT ![a] = next]
Next_op(a, op)   == Turns(a, [answer[a] EXCEPT !.op = op])
Done(a)          == Turns(a, Waiting)
Takes(a, next) ==
    /\ Answering(a, "free") /\ answered < MaxAnswers /\ answered' = answered + 1
    /\ Turns(a, next) /\ UNCHANGED <<factorRows, clock, factorHistory>>
Mark(h, status) == challenge' = [challenge EXCEPT ![h].status = status]
TurnAll(from, to, table) == [n \in DOMAIN table |-> IF table[n] = from THEN to ELSE table[n]]
AbandonOpen == [h \in Challenges |-> IF challenge[h].status = "open"
                                     THEN [challenge[h] EXCEPT !.status = "abandoned"]
                                     ELSE challenge[h]]
Supersedes  == TurnAll("fresh", "superseded", recovery)

-----------------------------------------------------------------------------
(***************************************************************************)
(* Signing in: signIn asks for a second factor, and one of them answers.   *)
(***************************************************************************)
BeginMfaChallenge(a) ==
    \/ HasActiveFactor /\ Takes(a, [Waiting EXCEPT !.op = "challenge"])
    \/ /\ Answering(a, "challenge")
       /\ \E h \in NextOf(challenge, LAMBDA row : row.status = "none") :
            challenge' = [AbandonOpen EXCEPT ![h].status = "open"]
       /\ Done(a)
       /\ UNCHANGED <<factor, keys, recovery, keyChallenge, clock, answered, factorHistory>>

Answerable(h) == /\ challenge[h].status = "open"
                 /\ challenge[h].failed < MaxChallengeAttempts

\* answerMfaChallenge reads the challenge and the authenticator ...
AnswerMfaChallenge(a) ==
    \E h \in Challenges :
        /\ Answerable(h) /\ ActiveFactors # {}
        /\ \/ \E s \in 1..LastStep :     \* a code that verifies
                /\ VerifyTotp(s, factor[TheFactor].last)
                /\ Takes(a, [op |-> "verified", on |-> h, uses |-> TheFactor,
                             step |-> s, failed |-> 0])
           \/ \E n \in Codes :           \* a recovery code that was ever handed out
                /\ recovery[n] # "none"
                /\ Takes(a, [op |-> "recovering", on |-> h, uses |-> n, step |-> 0,
                             failed |-> challenge[h].failed])
           \/ Takes(a, [op |-> "failed", on |-> h, uses |-> 0, step |-> 0,
                        failed |-> challenge[h].failed])

\* ... and, when the code was the authenticator's, spends both at once.
AnswerByTotp(a) ==
    /\ Answering(a, "verified")
    /\ factor' = [factor EXCEPT ![answer[a].uses].last = answer[a].step]
    /\ Mark(answer[a].on, "satisfied") /\ Done(a)
    /\ UNCHANGED <<keys, recovery, keyChallenge, clock, answered, factorHistory>>

\* Mutant: the code is looked up and then spent.
SpendRecoveryCodeLater(a) ==
    \/ /\ Answering(a, "recovering")
       /\ Next_op(a, IF recovery[answer[a].uses] = "fresh" THEN "spending" ELSE "failed")
       /\ UNCHANGED <<factorRows, clock, answered, factorHistory>>
    \/ /\ Answering(a, "spending")
       /\ recovery' = [recovery EXCEPT ![answer[a].uses] = "used"]
       /\ spent' = [spent EXCEPT ![answer[a].uses] = @ + 1]
       /\ Next_op(a, "recovered")
       /\ UNCHANGED <<factor, keys, challenge, keyChallenge, clock, answered,
                      signed, byKey, ended>>

\* One guarded statement, whose count says whether the code was spent.
SpendRecoveryCode(a) ==
    /\ Answering(a, "recovering")
    /\ IF recovery[answer[a].uses] = "fresh"
       THEN /\ recovery' = [recovery EXCEPT ![answer[a].uses] = "used"]
            /\ spent' = [spent EXCEPT ![answer[a].uses] = @ + 1]
            /\ Next_op(a, "recovered")
       ELSE Next_op(a, "failed") /\ UNCHANGED <<recovery, spent>>
    /\ UNCHANGED <<factor, keys, challenge, keyChallenge, clock, answered,
                   signed, byKey, ended>>

AnswerByRecoveryCode(a) ==
    /\ Answering(a, "recovered")
    /\ Mark(answer[a].on, "satisfied") /\ Done(a)
    /\ UNCHANGED <<factor, keys, recovery, keyChallenge, clock, answered, factorHistory>>

\* The attempts are counted from the challenge as it was read.
AnswerFails(a) ==
    /\ Answering(a, "failed")
    /\ LET attempts == answer[a].failed + 1
       IN  challenge' = [challenge EXCEPT ![answer[a].on] =
               [status |-> IF attempts >= MaxChallengeAttempts THEN "abandoned" ELSE @.status,
                failed |-> attempts]]
    /\ Done(a)
    /\ UNCHANGED <<factor, keys, recovery, keyChallenge, clock, answered, factorHistory>>

\* signInKeyOptions: a new key challenge spends the one before.
SignInKeyOptions(a) ==
    \/ /\ \E h \in Challenges : Answerable(h)
       /\ keys # {} /\ Takes(a, [Waiting EXCEPT !.op = "options"])
    \/ /\ Answering(a, "options")
       /\ \E w \in NextOf(keyChallenge, IsNone) :
            keyChallenge' = [v \in KeyChallenges |->
                IF v = w THEN "open"
                ELSE IF keyChallenge[v] = "none" THEN "none" ELSE "spent"]
       /\ Done(a)
       /\ UNCHANGED <<factor, keys, recovery, challenge, clock, answered, factorHistory>>

\* completeSignInWithKey: whose challenge it is, the key, the open challenge.
CompleteSignInWithKey(a) ==
    \/ \E h \in Challenges, w \in KeyChallenges :
          /\ Answerable(h) /\ keyChallenge[w] # "none"
          /\ Takes(a, [Waiting EXCEPT !.op = "key", !.on = h, !.uses = w])
    \/ /\ Answering(a, "key") /\ keys # {}
       /\ \E w \in KeyChallenges : keyChallenge[w] = "open"
             /\ Turns(a, [answer[a] EXCEPT !.op = "spend", !.step = w])
       /\ UNCHANGED <<factorRows, clock, answered, factorHistory>>
    \/ /\ Answering(a, "key") /\ \A w \in KeyChallenges : keyChallenge[w] # "open"
       /\ Done(a) /\ UNCHANGED <<factorRows, clock, answered, factorHistory>>

\* spendChallenge: found open, then spent only if nobody did; a signature of
\* any other challenge does not verify.
SpendChallenge(a) ==
    /\ Answering(a, "spend")
    /\ LET w == answer[a].step
           fresh == keyChallenge[w] \in {"open", "lapsed"}
       IN  /\ keyChallenge' = [keyChallenge EXCEPT ![w] = "spent"]
           /\ IF fresh /\ w = answer[a].uses
              THEN Next_op(a, "satisfy") /\ signed' = [signed EXCEPT ![w] = @ + 1]
              ELSE Done(a) /\ UNCHANGED signed
    /\ UNCHANGED <<factor, keys, recovery, challenge, clock, answered, spent, byKey, ended>>

\* satisfyMfaChallenge: one guarded statement; the session is issued on it.
SatisfyMfaChallenge(a) ==
    /\ Answering(a, "satisfy")
    /\ IF challenge[answer[a].on].status = "open"
       THEN /\ Mark(answer[a].on, "satisfied")
            /\ byKey' = [byKey EXCEPT ![answer[a].on] = @ + 1]
       ELSE UNCHANGED <<challenge, byKey>>
    /\ Done(a)
    /\ UNCHANGED <<factor, keys, recovery, keyChallenge, clock, answered, spent, signed, ended>>

-----------------------------------------------------------------------------
(***************************************************************************)
(* The settings page, each act confirmed by whoever asks, and the desk.    *)
(***************************************************************************)
BeginMfaEnrolment(a) ==
    \/ ActiveFactors = {} /\ Takes(a, [Waiting EXCEPT !.op = "enrol"])
    \/ /\ Answering(a, "enrol")
       /\ \E f \in NextOf(factor, LAMBDA row : row.status = "none") :
            factor' = [g \in Factors |->
                IF g = f THEN [status |-> "pending", last |-> 0]
                ELSE IF factor[g].status = "pending"
                     THEN [factor[g] EXCEPT !.status = "removed"] ELSE factor[g]]
       /\ Done(a)
       /\ UNCHANGED <<keys, recovery, challenge, keyChallenge, clock, answered, factorHistory>>

\* A confirmed authenticator, or a request for new codes, replaces the codes.
NewCodes(a) ==
    /\ \E n \in NextOf(recovery, IsNone) :
          recovery' = [Supersedes EXCEPT ![n] = "fresh"]
    /\ Done(a)
    /\ UNCHANGED <<keys, challenge, keyChallenge, clock, answered, factorHistory>>

ConfirmMfaEnrolment(a) ==
    \/ \E f \in Factors, s \in 1..LastStep :
          /\ factor[f].status = "pending" /\ VerifyTotp(s, 0)
          /\ Takes(a, [Waiting EXCEPT !.op = "confirm", !.uses = f, !.step = s])
    \/ /\ Answering(a, "confirm")
       /\ factor' = [factor EXCEPT ![answer[a].uses] = [status |-> "active",
                                                       last |-> answer[a].step]]
       /\ NewCodes(a)

RegenerateRecoveryCodes(a) ==
    \/ HasActiveFactor /\ Takes(a, [Waiting EXCEPT !.op = "codes"])
    \/ Answering(a, "codes") /\ NewCodes(a) /\ UNCHANGED factor

CompleteWebauthnRegistration(a) ==
    \/ Keys \ keys # {} /\ Takes(a, [Waiting EXCEPT !.op = "register"])
    \/ /\ Answering(a, "register")
       /\ \E k \in Keys \ keys : keys' = keys \union {k}
       /\ Done(a)
       /\ UNCHANGED <<factor, recovery, challenge, keyChallenge, clock, answered, factorHistory>>

Removes(a) ==
    /\ factor' = [factor EXCEPT ![answer[a].uses].status = "removed"]
    /\ recovery' = Supersedes
    /\ Done(a) /\ UNCHANGED <<keys, keyChallenge, clock, answered, spent, signed, byKey>>

DisableMfa(a) ==
    \/ ActiveFactors # {} /\ Takes(a, [Waiting EXCEPT !.op = "disable", !.uses = TheFactor])
    \/ Answering(a, "disable") /\ Removes(a) /\ UNCHANGED <<challenge, ended>>

OpenChallenges == {h \in Challenges : challenge[h].status = "open"}

\* A Level 3 human, on a recorded basis.
RemoveMfaForClient(a) ==
    \/ ActiveFactors # {} /\ Takes(a, [Waiting EXCEPT !.op = "desk", !.uses = TheFactor])
    \/ /\ Answering(a, "desk") /\ Removes(a)
       /\ challenge' = AbandonOpen /\ ended' = ended \union OpenChallenges

\* Time: steps go by, and a challenge is over after five minutes.
FactorTime ==
    /\ \/ clock < LastStep /\ clock' = clock + 1 /\ UNCHANGED <<challenge, keyChallenge>>
       \/ /\ \E h \in OpenChallenges : Mark(h, "lapsed")
          /\ UNCHANGED <<clock, keyChallenge>>
       \/ /\ \E w \in KeyChallenges : keyChallenge[w] = "open"
               /\ keyChallenge' = [keyChallenge EXCEPT ![w] = "lapsed"]
          /\ UNCHANGED <<clock, challenge>>
    /\ UNCHANGED <<factor, keys, recovery, answer, answered, factorHistory>>

FactorNext ==
    \/ FactorTime
    \/ \E a \in Answers :
         \/ BeginMfaChallenge(a)     \/ AnswerMfaChallenge(a) \/ AnswerByTotp(a)
         \/ SpendRecoveryCode(a)     \/ AnswerByRecoveryCode(a) \/ AnswerFails(a)
         \/ SignInKeyOptions(a)      \/ CompleteSignInWithKey(a)
         \/ SpendChallenge(a)        \/ SatisfyMfaChallenge(a)
         \/ BeginMfaEnrolment(a)     \/ ConfirmMfaEnrolment(a)
         \/ RegenerateRecoveryCodes(a) \/ CompleteWebauthnRegistration(a)
         \/ DisableMfa(a)            \/ RemoveMfaForClient(a)

FactorSpec == FactorInit /\ [][FactorNext]_factorVars

-----------------------------------------------------------------------------
(***************************************************************************)
(* Properties.                                                             *)
(***************************************************************************)
FactorTypeOK ==
    /\ factor \in [Factors -> [status : {"none", "pending", "active", "removed"}, last : Nat]]
    /\ keys \subseteq Keys
    /\ recovery \in [Codes -> {"none", "fresh", "used", "superseded"}]
    /\ challenge \in [Challenges -> [status : {"none", "open", "satisfied", "abandoned", "lapsed"},
                                     failed : Nat]]
    /\ keyChallenge \in [KeyChallenges -> {"none", "open", "spent", "lapsed"}]
    /\ ended \subseteq Challenges

\* A recovery code gets past the second factor once, however many answers
\* present it together (spendRecoveryCode).
RecoveryCodeOnce == \A n \in Codes : spent[n] <= 1

\* A signature gets past the second factor once: whatever is spent together,
\* one assertion per key challenge is accepted (spendChallenge).
KeyChallengeOnce == \A w \in KeyChallenges : signed[w] <= 1

\* A challenge signs in by key once, though two assertions over two key
\* challenges verify at the same time (satisfyMfaChallenge).
SignsInByKeyOnce == \A h \in Challenges : byKey[h] <= 1

\* When the desk takes an authenticator away, sign-ins that were half done end
\* with it (removeMfaForClient): on a challenge it abandoned no code is accepted
\* any more, not even a recovery code presented before, and no key completes it,
\* not even one that had verified already (satisfyMfaChallenge).  A code that
\* was accepted before the desk wrote still lets its request in: the answer is
\* written whatever became of the challenge (answerMfaChallenge).
CodeAccepted(row) == row.op \in {"verified", "recovered"}
RemovalEndsSignIns ==
    [][\A h \in ended :
          /\ byKey'[h] = byKey[h]
          /\ \A a \in Answers : (answer'[a].on = h /\ CodeAccepted(answer'[a]))
                                  => answer'[a] = answer[a]]_factorVars
=============================================================================
