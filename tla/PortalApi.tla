------------------------------ MODULE PortalApi ------------------------------
(***************************************************************************)
(* The Client Portal's HTTP server, apps/portal-api/src/app.ts over        *)
(* packages/portal: which proofs each route takes, and what a browser that *)
(* sends them holds afterwards.  One account, one browser; the cookies,    *)
(* what its user knows and what the account's mailbox receives are one set.*)
(* The accounts' rows, requests that overlap, expiry and the limiters are  *)
(* in ClientAccount, SecondFactor and RateLimiter.                         *)
(***************************************************************************)
EXTENDS Naturals, FiniteSets

VARIABLES holds,     \* the proofs and cookies of the browser and its user
          account,   \* what the account signs in with
          first      \* history: what was held, and of what account, at first

portalRows == <<holds, account, first>>

Cookies == {"session", "challenge"}
Proofs  == {"password", "code", "passkey", "mailbox", "secret", "link", "moveLink"}

PASSKEYS_REQUIRED == 2

PortalInit ==
    /\ holds \in {h \in SUBSET {"session", "password", "code", "mailbox", "passkey"} :
                     Cardinality(h) \in 1..2}
    /\ \E authenticator \in BOOLEAN, keys \in {0, PASSKEYS_REQUIRED} :
          /\ account = [authenticator |-> authenticator, keys |-> keys,
                        passwordOff |-> FALSE, passwordRemoved |-> FALSE]
          /\ "passkey" \in holds => keys > 0
          /\ "code" \in holds => authenticator
    /\ first = [holds |-> holds, authenticator |-> account.authenticator]

Gains(new)         == holds' = holds \union new
SwapFor(old, new)  == holds' = (holds \ old) \union new
AccountStays       == UNCHANGED account
HasActiveFactor    == account.authenticator \/ account.keys > 0
\* Of the authenticator, or a recovery code; without one neither is taken.
CodeIsTaken        == "code" \in holds /\ account.authenticator

-----------------------------------------------------------------------------
(***************************************************************************)
(* Signing in: limited routes, without a session.                          *)
(***************************************************************************)
SignIn ==
    /\ "password" \in holds /\ ~account.passwordOff /\ ~account.passwordRemoved
    /\ Gains(IF HasActiveFactor THEN {"challenge"} ELSE {"session"}) /\ AccountStays

SignInMfa ==
    /\ "challenge" \in holds /\ CodeIsTaken
    /\ SwapFor({"challenge"}, {"session"}) /\ AccountStays

SignInKey ==
    /\ {"challenge", "passkey"} \subseteq holds
    /\ SwapFor({"challenge"}, {"session"}) /\ AccountStays

SignInPasskey == "passkey" \in holds /\ Gains({"session"}) /\ AccountStays

\* The link goes to the account's own mailbox.
PasswordReset ==
    /\ "mailbox" \in holds /\ ~account.passwordRemoved
    /\ Gains({"link"}) /\ AccountStays

\* Mutant: whoever reset the password goes on where he was.
ResetAndStay ==
    /\ "link" \in holds
    /\ SwapFor({"link", "moveLink"}, {"password"}) /\ AccountStays

\* Every session ends, pending moves are cancelled, and a new sign-in is due.
PasswordResetComplete ==
    /\ "link" \in holds
    /\ SwapFor({"link", "moveLink", "session"}, {"password"}) /\ AccountStays

SignOut == "session" \in holds /\ SwapFor(Cookies, {}) /\ AccountStays

-----------------------------------------------------------------------------
(***************************************************************************)
(* The account, behind a session (withPrincipal).  A change takes a        *)
(* confirmation as well, confirmIdentity: the password, or a passkey.      *)
(***************************************************************************)
ByPassword   == "password" \in holds /\ ~account.passwordRemoved
Confirmed    == "session" \in holds /\ (ByPassword \/ "passkey" \in holds)
\* A passkey stands for the code; a password does not.
ConfirmedTwice(factor) ==
    "session" \in holds /\ ("passkey" \in holds \/ (ByPassword /\ (factor => CodeIsTaken)))

MfaEnrol ==
    /\ "session" \in holds /\ ~account.authenticator
    /\ Gains({"secret"}) /\ AccountStays

MfaEnrolConfirm ==
    /\ Confirmed /\ "secret" \in holds
    /\ account' = [account EXCEPT !.authenticator = TRUE]
    /\ SwapFor({"secret"}, {"code"})

MfaRemove ==
    /\ account.authenticator /\ ConfirmedTwice(TRUE)
    /\ account' = [account EXCEPT !.authenticator = FALSE]
    /\ SwapFor({"code"}, {})

Password ==
    /\ "session" \in holds /\ ByPassword /\ (HasActiveFactor => CodeIsTaken)
    /\ SwapFor({"moveLink"}, {"password"}) /\ AccountStays

\* The verification goes to the new mailbox, which is the user's own.
Email == ConfirmedTwice(HasActiveFactor) /\ Gains({"moveLink"}) /\ AccountStays

EmailConfirm ==
    /\ "moveLink" \in holds
    /\ SwapFor({"moveLink"}, {"mailbox"}) /\ AccountStays

\* /portal/mfa/keys, after a challenge from /portal/mfa/keys/register.
Keys ==
    /\ Confirmed /\ account.keys <= PASSKEYS_REQUIRED
    /\ account' = [account EXCEPT !.keys = @ + 1] /\ Gains({"passkey"})

\* For a key as well.
RecoveryCodes ==
    /\ Confirmed /\ HasActiveFactor
    /\ Gains({"code"}) /\ AccountStays

PasswordSignInDisable ==
    /\ "session" \in holds /\ ByPassword /\ "passkey" \in holds
    /\ ~account.passwordOff /\ account.keys >= PASSKEYS_REQUIRED
    /\ account' = [account EXCEPT !.passwordOff = TRUE] /\ UNCHANGED holds

RemovePassword ==
    /\ {"session", "passkey"} \subseteq holds
    /\ account.passwordOff /\ ~account.passwordRemoved /\ account.keys >= PASSKEYS_REQUIRED
    /\ account' = [account EXCEPT !.passwordRemoved = TRUE] /\ SwapFor({"password"}, {})

PortalNext ==
    /\ \/ SignIn \/ SignInMfa \/ SignInKey \/ SignInPasskey \/ PasswordReset
       \/ PasswordResetComplete \/ SignOut \/ MfaEnrol \/ MfaEnrolConfirm \/ MfaRemove
       \/ Password \/ Email \/ EmailConfirm \/ Keys \/ RecoveryCodes
       \/ PasswordSignInDisable \/ RemovePassword
    /\ UNCHANGED first

-----------------------------------------------------------------------------
PortalTypeOK ==
    /\ holds \subseteq Cookies \union Proofs
    /\ account.keys \in 0..(PASSKEYS_REQUIRED + 1)
    /\ {account.authenticator, account.passwordOff, account.passwordRemoved} \subseteq BOOLEAN

\* A session is not a credential: in no number of calls does a browser that
\* holds one and nothing else come to hold anything that signs in ("every one
\* that changes a credential takes the password as well", app.ts).
SessionIsNoCredential ==
    first.holds = {"session"} =>
        holds \intersect {"password", "code", "passkey", "mailbox", "moveLink"} = {}

\* On an account with an authenticator, the password alone opens nothing, nor
\* does the mailbox, though it can set a new password.
OneFactorOpensNothing ==
    first.authenticator /\ first.holds \in {{"password"}, {"mailbox"}, {"password", "mailbox"},
                                            {"code"}}
        => "session" \notin holds

\* A session and the mailbox do not add up: the reset that sets the password
\* ends the session that would have used it, so the account with an
\* authenticator gains no key and no recovery codes.
ResetDoesNotAddUp ==
    first.authenticator /\ first.holds = {"session", "mailbox"}
        => holds \intersect {"passkey", "code"} = {} /\ account.authenticator
=============================================================================
