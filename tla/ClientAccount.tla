--------------------------- MODULE ClientAccount ---------------------------
(***************************************************************************)
(* One client user's account, packages/identity (clientUsers, sessions,    *)
(* passwordReset, passwordChange, emailChange, passwordless) as            *)
(* packages/portal calls it.                                               *)
(*                                                                         *)
(* Every handler reads and checks, and then writes without looking again:  *)
(* each is an operator of two disjuncts, the reading and the writing, and  *)
(* other requests come in between.  What a $transaction writes is one      *)
(* step.  Expiry is an action: time passes whenever it may.                *)
(***************************************************************************)
EXTENDS Naturals, FiniteSets

CONSTANTS Calls,              \* requests under way at once
          Invitations, Resets, Moves, Sessions,   \* 1..n each, model bounds
          Passwords,          \* 1..n
          Passkeys,           \* passkeys on the account: none is ever removed
          MaxFailedAttempts,  \* MAX_FAILED_ATTEMPTS
          MaxBegun,           \* model bound on the requests that are let in
          MaxCrashes          \* model bound on deaths

PASSKEYS_REQUIRED == 2

ASSUME AccountAssumption ==
    /\ \A set \in {Invitations, Resets, Moves, Sessions, Passwords} :
          IsFiniteSet(set) /\ set = 1..Cardinality(set)
    /\ 1 \in Passwords          \* the password of an account that starts enrolled
    /\ {Passkeys, MaxFailedAttempts, MaxBegun, MaxCrashes} \subseteq Nat

VARIABLES user,        \* the clientUser row
          invitation, reset, move, session,   \* the other tables, by status
          call,        \* call[c]: the handler c is in, and what it has read
          begun, crashes,
          barred       \* history: address changes asked for before a finished
                       \* password reset or change

rows == <<user, invitation, reset, move, session>>
accountVars == <<rows, call, begun, crashes, barred>>

Free == [op |-> "free", on |-> 0, password |-> 0, attempts |-> 0, good |-> FALSE]

AccountInit ==
    /\ \E enrolled \in BOOLEAN :
         user = [password |-> IF enrolled THEN 1 ELSE 0, enrolled |-> enrolled,
                 disabled |-> FALSE, passwordOff |-> FALSE, removed |-> FALSE,
                 failed |-> 0, locked |-> FALSE, address |-> 0]
    /\ invitation = [i \in Invitations |-> "none"]
    /\ reset = [r \in Resets |-> "none"]
    /\ move = [m \in Moves |-> "none"]
    /\ session = [s \in Sessions |-> "none"]
    /\ call = [c \in Calls |-> Free]
    /\ begun = 0 /\ crashes = 0 /\ barred = {}

\* A row of a table: created, and what updateMany does to the live ones.
Fresh(table)          == {n \in DOMAIN table : table[n] = "none"
                              /\ \A k \in 1..(n - 1) : table[k] # "none"}
Add(table, n, status) == [table EXCEPT ![n] = status]
Turn(table, from, to) == [n \in DOMAIN table |-> IF table[n] = from THEN to ELSE table[n]]
Supersede             == Turn(reset, "outstanding", "superseded")
CancelPending         == Turn(move, "pending", "cancelled")

Usable == user.enrolled /\ ~user.disabled

\* A request that passed its checks; what it refuses changes no row.
Reads(c, next) ==
    /\ call[c].op = "free" /\ begun < MaxBegun /\ begun' = begun + 1
    /\ call' = [call EXCEPT ![c] = next]
    /\ UNCHANGED <<rows, crashes, barred>>
Read(op, on, p) == [Free EXCEPT !.op = op, !.on = on, !.password = p]
In(c, op)       == call[c].op = op
Goes(c, next)   == call' = [call EXCEPT ![c] = next]
Ends(c)         == Goes(c, Free)
Quiet           == UNCHANGED <<begun, crashes>>

-----------------------------------------------------------------------------
(***************************************************************************)
(* Enrolment and sign-in.                                                  *)
(***************************************************************************)
InviteClientUser(c) ==
    \/ ~user.enrolled /\ Reads(c, Read("invite", 0, 0))
    \/ /\ In(c, "invite")
       /\ \E i \in Fresh(invitation) :
             invitation' = Add(Turn(invitation, "sent", "expired"), i, "sent")
       /\ Ends(c) /\ Quiet /\ UNCHANGED <<user, reset, move, session, barred>>

EnrolClientUser(c) ==
    \/ \E i \in Invitations, p \in Passwords :
          invitation[i] = "sent" /\ Reads(c, Read("enrol", i, p))
    \/ /\ In(c, "enrol")
       /\ invitation' = Add(invitation, call[c].on, "accepted")
       /\ user' = [user EXCEPT !.password = call[c].password, !.enrolled = TRUE,
                               !.failed = 0, !.locked = FALSE]
       /\ Ends(c) /\ Quiet /\ UNCHANGED <<reset, move, session, barred>>

SignsInWith(p) ==
    p = user.password /\ Usable /\ ~user.passwordOff /\ ~user.removed

\* The failed attempts are counted from the row as it was read.
AuthenticateClientUser(c) ==
    \/ \E p \in Passwords :
          /\ ~user.locked
          /\ Reads(c, [Read("authenticate", 0, p) EXCEPT
                          !.attempts = user.failed, !.good = SignsInWith(p)])
    \/ /\ In(c, "authenticate")
       /\ IF call[c].good
          THEN /\ user' = [user EXCEPT !.failed = 0, !.locked = FALSE]
               /\ Goes(c, Read("issue", 0, 0))
          ELSE /\ user' = [user EXCEPT
                             !.failed = call[c].attempts + 1,
                             !.locked = @ \/ call[c].attempts + 1 >= MaxFailedAttempts]
               /\ Ends(c)
       /\ Quiet /\ UNCHANGED <<invitation, reset, move, session, barred>>

\* signIn goes on to issue a session; a passkey sign-in begins here.
IssueSession(c) ==
    \/ Passkeys > 0 /\ Usable /\ Reads(c, Read("issue", 0, 0))
    \/ /\ In(c, "issue")
       /\ Goes(c, IF Usable THEN Read("create", 0, 0) ELSE Free)
       /\ Quiet /\ UNCHANGED <<rows, barred>>
    \/ /\ In(c, "create")
       /\ \E s \in Fresh(session) : session' = Add(session, s, "live")
       /\ Ends(c) /\ Quiet /\ UNCHANGED <<user, invitation, reset, move, barred>>

\* Mutant: disabling revoked the sessions, so the user need not be read.
ResolveBySessionAlone(c) ==
    \/ \E s \in Sessions : session[s] = "live" /\ Reads(c, Read("resolve", s, 0))
    \/ In(c, "resolve") /\ Ends(c) /\ Quiet /\ UNCHANGED <<rows, barred>>

\* lastSeenAt, written last, is left out: the session's lapse is an action.
ResolveSession(c) ==
    \/ \E s \in Sessions :
          session[s] = "live" /\ ~user.disabled /\ Reads(c, Read("resolve", s, 0))
    \/ In(c, "resolve") /\ Ends(c) /\ Quiet /\ UNCHANGED <<rows, barred>>

RevokeSession(c) ==
    \/ \E s \in Sessions : session[s] # "none" /\ Reads(c, Read("revoke", s, 0))
    \/ /\ In(c, "revoke")
       /\ session' = Add(session, call[c].on, "revoked")
       /\ Ends(c) /\ Quiet /\ UNCHANGED <<user, invitation, reset, move, barred>>

DisableClientUser(c) ==
    \/ Reads(c, Read("disable", 0, 0))
    \/ /\ In(c, "disable")
       /\ session' = Turn(Turn(session, "live", "revoked"), "lapsed", "revoked")
       /\ user' = [user EXCEPT !.disabled = TRUE]
       /\ Ends(c) /\ Quiet /\ UNCHANGED <<invitation, reset, move, barred>>

-----------------------------------------------------------------------------
(***************************************************************************)
(* Passwords.                                                              *)
(***************************************************************************)
AddReset(c, next) ==
    /\ \E r \in Fresh(reset) : reset' = Add(Supersede, r, "outstanding")
    /\ Goes(c, next) /\ Quiet /\ UNCHANGED <<user, invitation, move, session, barred>>

RequestPasswordReset(c) ==
    \/ Usable /\ ~user.removed /\ Reads(c, Read("ask", 0, 0))
    \/ In(c, "ask") /\ AddReset(c, Free)

\* By a Level 3 human; restorePassword comes here too.
IssuePasswordReset(c) ==
    \/ Usable /\ ~user.removed /\ Reads(c, Read("give", 0, 0))
    \/ In(c, "reissue") /\ Quiet /\ UNCHANGED <<rows, barred>>
          /\ Goes(c, IF Usable /\ ~user.removed THEN Read("give", 0, 0) ELSE Free)
    \/ In(c, "give") /\ AddReset(c, Free)

SetPassword(p) ==
    user' = [user EXCEPT !.password = p, !.failed = 0, !.locked = FALSE]

CompletePasswordReset(c) ==
    \/ \E r \in Resets, p \in Passwords :
          /\ reset[r] = "outstanding" /\ Usable /\ p # user.password
          /\ Reads(c, Read("redeem", r, p))
    \/ /\ In(c, "redeem")
       /\ reset' = Add(Supersede, call[c].on, "consumed")
       /\ session' = Turn(Turn(session, "live", "revoked"), "lapsed", "revoked")
       /\ SetPassword(call[c].password)
       /\ Goes(c, Read("cancel", 0, 0))
       /\ Quiet /\ UNCHANGED <<invitation, move, barred>>

\* From a session that resolved, with the current password.
ChangeClientPassword(c) ==
    \/ \E s \in Sessions, p \in Passwords :
          /\ session[s] = "live" /\ Usable /\ ~user.removed
          /\ user.password # 0 /\ p # user.password
          /\ Reads(c, Read("change", s, p))
    \/ /\ In(c, "change")
       /\ reset' = Supersede
       /\ session' = [s \in Sessions |->
                        IF s # call[c].on /\ session[s] \in {"live", "lapsed"}
                        THEN "revoked" ELSE session[s]]
       /\ SetPassword(call[c].password)
       /\ Goes(c, Read("cancel", 0, 0))
       /\ Quiet /\ UNCHANGED <<invitation, move, barred>>

\* cancelPendingEmailChanges, a statement of its own after either of them.
CancelPendingEmailChanges(c) ==
    /\ In(c, "cancel")
    /\ move' = CancelPending
    /\ barred' = barred \union {m \in Moves : move[m] # "none"}
    /\ Ends(c) /\ Quiet /\ UNCHANGED <<user, invitation, reset, session>>

\* The switches: each confirmed by a passkey, or made by a Level 3 human.
Switch(c, op, row) ==
    /\ In(c, op) /\ user' = row
    /\ Quiet /\ UNCHANGED <<invitation, reset, move, session, barred>>

DisablePasswordSignIn(c) ==
    \/ /\ Usable /\ ~user.passwordOff /\ user.password # 0
       /\ Passkeys >= PASSKEYS_REQUIRED
       /\ Reads(c, Read("switch_off", 0, 0))
    \/ Switch(c, "switch_off", [user EXCEPT !.passwordOff = TRUE]) /\ Ends(c)

EnablePasswordSignIn(c) ==
    \/ user.passwordOff /\ Reads(c, Read("switch_on", 0, 0))
    \/ Switch(c, "switch_on", [user EXCEPT !.passwordOff = FALSE]) /\ Ends(c)

RemovePassword(c) ==
    \/ /\ Usable /\ ~user.removed /\ user.passwordOff
       /\ Passkeys >= PASSKEYS_REQUIRED
       /\ Reads(c, Read("remove", 0, 0))
    \/ Switch(c, "remove", [user EXCEPT !.removed = TRUE, !.password = 0]) /\ Ends(c)

\* The flags first, then the reset that gives the account a password.
RestorePassword(c) ==
    \/ user.removed /\ Reads(c, Read("restore", 0, 0))
    \/ /\ Switch(c, "restore", [user EXCEPT !.removed = FALSE, !.passwordOff = FALSE])
       /\ Goes(c, Read("reissue", 0, 0))

-----------------------------------------------------------------------------
(***************************************************************************)
(* The address.  Confirmed by the password or a passkey, and a second      *)
(* factor if there is one: whoever asks can.                               *)
(***************************************************************************)
RequestEmailChange(c) ==
    \/ Usable /\ Reads(c, Read("ask_move", 0, 0))
    \/ /\ In(c, "ask_move")
       /\ \E m \in Fresh(move) : move' = Add(CancelPending, m, "pending")
       /\ Ends(c) /\ Quiet /\ UNCHANGED <<user, invitation, reset, session, barred>>

\* The desk writes a row that is consumed already; the address is not one
\* of those that were asked for.
ChangeEmailForClient(c) ==
    \/ Reads(c, Read("desk_move", 0, 0))
    \/ /\ In(c, "desk_move")
       /\ move' = CancelPending
       /\ user' = [user EXCEPT !.address = 0]
       /\ Ends(c) /\ Quiet /\ UNCHANGED <<invitation, reset, session, barred>>

CompleteEmailChange(c) ==
    \/ \E m \in Moves :
          move[m] = "pending" /\ Usable /\ Reads(c, Read("move", m, 0))
    \/ /\ In(c, "move")
       /\ move' = Add(move, call[c].on, "consumed")
       /\ user' = [user EXCEPT !.address = call[c].on]
       /\ Ends(c) /\ Quiet /\ UNCHANGED <<invitation, reset, session, barred>>

-----------------------------------------------------------------------------
\* Time: what expires, idle sessions, and a lock that is over.
Lapses ==
    /\ \/ \E i \in Invitations : invitation[i] = "sent"
             /\ invitation' = Add(invitation, i, "expired")
             /\ UNCHANGED <<user, reset, move, session>>
       \/ \E r \in Resets : reset[r] = "outstanding" /\ reset' = Add(reset, r, "expired")
             /\ UNCHANGED <<user, invitation, move, session>>
       \/ \E m \in Moves : move[m] = "pending" /\ move' = Add(move, m, "expired")
             /\ UNCHANGED <<user, invitation, reset, session>>
       \/ \E s \in Sessions : session[s] = "live" /\ session' = Add(session, s, "lapsed")
             /\ UNCHANGED <<user, invitation, reset, move>>
       \/ user.locked /\ user' = [user EXCEPT !.locked = FALSE]
             /\ UNCHANGED <<invitation, reset, move, session>>
    /\ UNCHANGED <<call, begun, crashes, barred>>

CallDies(c) ==
    /\ call[c].op # "free" /\ crashes < MaxCrashes /\ crashes' = crashes + 1
    /\ Ends(c) /\ UNCHANGED <<rows, begun, barred>>

AccountNext ==
    \/ Lapses
    \/ \E c \in Calls :
         \/ InviteClientUser(c)     \/ EnrolClientUser(c)       \/ AuthenticateClientUser(c)
         \/ IssueSession(c)         \/ ResolveSession(c)        \/ RevokeSession(c)
         \/ DisableClientUser(c)    \/ RequestPasswordReset(c)  \/ IssuePasswordReset(c)
         \/ CompletePasswordReset(c) \/ ChangeClientPassword(c)
         \/ CancelPendingEmailChanges(c)
         \/ DisablePasswordSignIn(c) \/ EnablePasswordSignIn(c)
         \/ RemovePassword(c)       \/ RestorePassword(c)
         \/ RequestEmailChange(c)   \/ ChangeEmailForClient(c)  \/ CompleteEmailChange(c)
         \/ CallDies(c)

AccountSpec == AccountInit /\ [][AccountNext]_accountVars

-----------------------------------------------------------------------------
(***************************************************************************)
(* Properties.                                                             *)
(***************************************************************************)
AccountTypeOK ==
    /\ user \in [password : Passwords \union {0}, enrolled : BOOLEAN, disabled : BOOLEAN,
                 passwordOff : BOOLEAN, removed : BOOLEAN, failed : Nat,
                 locked : BOOLEAN, address : Moves \union {0}]
    /\ invitation \in [Invitations -> {"none", "sent", "accepted", "expired"}]
    /\ reset \in [Resets -> {"none", "outstanding", "superseded", "consumed", "expired"}]
    /\ move \in [Moves -> {"none", "pending", "cancelled", "consumed", "expired"}]
    /\ session \in [Sessions -> {"none", "live", "lapsed", "revoked"}]
    /\ barred \subseteq Moves

Enters(c, op) == call[c].op # op /\ call'[c].op = op

\* A disabled account is out: no request that begins once it is disabled is
\* let in, not even on a session that a sign-in under way at the time issued
\* after the others had been revoked (disableClientUser, resolveSession).
DisabledMeansOut ==
    [][\A c \in Calls : Enters(c, "resolve") => ~user.disabled]_accountVars

\* A password that was removed stays removed until the desk restores it: not a
\* reset link that was outstanding, nor turning password sign-in back on, nor
\* both, lets a password sign in (removePassword, completePasswordReset,
\* enablePasswordSignIn, authenticateClientUser).
PasswordlessStaysOut ==
    [][\A c \in Calls :
          (Enters(c, "authenticate") /\ call'[c].good) => ~user.removed]_accountVars

\* Once a password reset or change is through, the address changes asked for
\* before it are dead: no link of theirs moves the address, unless it was
\* being followed at the time (cancelPendingEmailChanges).
ResetStopsOlderMoves ==
    [][\A c \in Calls : Enters(c, "move") => call'[c].on \notin barred]_accountVars
=============================================================================
