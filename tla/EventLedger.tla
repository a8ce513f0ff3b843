----------------------------- MODULE EventLedger -----------------------------
(***************************************************************************)
(* The Event Ledger, packages/ledger/src/index.ts: the one write path      *)
(* (append), run by any number of processes at once against one Postgres   *)
(* database, and the verifier of a tenant's chain (verifyIntegrity).       *)
(*                                                                         *)
(* Each append call is a process of the model.  Its transaction is the     *)
(* code's three statements - take the tenant's advisory lock, read the     *)
(* tail, insert the successor - and other calls' statements interleave     *)
(* between any two of them.                                                *)
(***************************************************************************)
EXTENDS Naturals, FiniteSets

CONSTANTS Tenants,
          Calls,          \* append calls; a call is made at most once
          TenantOf,       \* TenantOf[c]: input.tenantId of the call
          Contents,       \* what type, actor id, client and payload can be
          ContentOf,      \* ContentOf[c]: what the call gives them
          Stored,         \* Stored[x]: what the row's columns give back of x
          Canonical,      \* Canonical[x]: the form of x that is signed
          LockKeys,       \* the advisory-lock keys
          LockKey,        \* LockKey[t]: hashtext(t); two tenants may collide
          NoCall,         \* the owner of a free lock
          Genesis,        \* GENESIS_HASH
          MaxAttempts     \* MAX_APPEND_ATTEMPTS

ASSUME LedgerAssumption ==
    /\ TenantOf \in [Calls -> Tenants]
    /\ ContentOf \in [Calls -> Contents]
    /\ Stored \in [Contents -> Contents]
    /\ LockKey \in [Tenants -> LockKeys]
    /\ NoCall \notin Calls
    /\ MaxAttempts \in Nat \ {0}

VARIABLES rows,     \* rows[t]: the committed ledger_events rows of tenant t
          lock,     \* lock[k]: the call whose transaction holds lock k
          stage,    \* stage[c]: where the call is
          tries,    \* tries[c]: transactions begun by the call
          tail      \* tail[c]: seq and signature the call's transaction read

ledgerVars == <<rows, lock, stage, tries, tail>>

(***************************************************************************)
(* The HMAC over the canonical entry, whose parts are kept apart.  It      *)
(* covers the content, but neither the actor's kind nor correlation id     *)
(* nor createdAt, which `call` stands for in a row.                        *)
(* What append signs is the payload it was given; what the row holds is    *)
(* what a JSON column makes of it, without the keys that were undefined    *)
(* (signed as null) and with a Date (signed as {}) spelt out.              *)
(***************************************************************************)
\* Mutant: the content is left out of the HMAC.
SignWithoutContent(t, seq, x, prevHash) == <<t, seq, prevHash>>

Sign(t, seq, x, prevHash) == <<t, seq, Canonical[x], prevHash>>

Row(t, seq, c, prevHash) ==
    [seq |-> seq, call |-> c, content |-> Stored[ContentOf[c]],
     prevHash |-> prevHash, signature |-> Sign(t, seq, ContentOf[c], prevHash)]

NoTail == [seq |-> 0, signature |-> Genesis]

\* findFirst with orderBy seq desc: the newest row, or the genesis values.
Newest(R) == CHOOSE r \in R : \A q \in R : q.seq <= r.seq
TailOf(R) == IF R = {} THEN NoTail
             ELSE [seq |-> Newest(R).seq, signature |-> Newest(R).signature]

KeyOf(c)  == LockKey[TenantOf[c]]
InTransaction == {"waiting", "locked", "read"}
Settled       == {"returned", "thrown", "conflict"}
Stages        == {"idle"} \union InTransaction \union Settled

LedgerInit ==
    /\ rows  = [t \in Tenants |-> {}]
    /\ lock  = [k \in LockKeys |-> NoCall]
    /\ stage = [c \in Calls |-> "idle"]
    /\ tries = [c \in Calls |-> 0]
    /\ tail  = [c \in Calls |-> NoTail]

(***************************************************************************)
(* The statements of one append.                                           *)
(***************************************************************************)
BeginAppend(c) ==
    /\ stage[c] = "idle"
    /\ stage' = [stage EXCEPT ![c] = "waiting"]
    /\ tries' = [tries EXCEPT ![c] = @ + 1]
    /\ UNCHANGED <<rows, lock, tail>>

\* pg_advisory_xact_lock(namespace, hashtext(tenantId)) is granted.
AcquireLock(c) ==
    /\ stage[c] = "waiting"
    /\ lock[KeyOf(c)] = NoCall
    /\ lock'  = [lock EXCEPT ![KeyOf(c)] = c]
    /\ stage' = [stage EXCEPT ![c] = "locked"]
    /\ UNCHANGED <<rows, tries, tail>>

\* Read Committed: the statement sees what has committed by now.
ReadTail(c) ==
    /\ stage[c] = "locked"
    /\ tail'  = [tail EXCEPT ![c] = TailOf(rows[TenantOf[c]])]
    /\ stage' = [stage EXCEPT ![c] = "read"]
    /\ UNCHANGED <<rows, lock, tries>>

\* Mutant: a lock of the session, which the end of a transaction keeps.
EndWithSessionLock(c, outcome) ==
    stage' = [stage EXCEPT ![c] = outcome] /\ UNCHANGED <<lock, tries, tail>>

\* The lock lives as long as the transaction that took it.
EndTransaction(c, outcome) ==
    /\ lock'  = [k \in LockKeys |-> IF lock[k] = c THEN NoCall ELSE lock[k]]
    /\ stage' = [stage EXCEPT ![c] = outcome]
    /\ UNCHANGED <<tries, tail>>

\* Mutant: every row is linked to the genesis hash.
UnlinkedRow(c) == Row(TenantOf[c], tail[c].seq + 1, c, Genesis)

NextRow(c) ==
    Row(TenantOf[c], tail[c].seq + 1, c, tail[c].signature)

SeqTaken(c) == \E r \in rows[TenantOf[c]] : r.seq = tail[c].seq + 1

\* Mutant: an answer lost after the commit is retried like a rollback.
InsertAndMaybeRetry(c) ==
    /\ stage[c] = "read" /\ ~SeqTaken(c)
    /\ rows' = [rows EXCEPT ![TenantOf[c]] = @ \union {NextRow(c)}]
    /\ \/ EndTransaction(c, "returned")
       \/ tries[c] < MaxAttempts /\ EndTransaction(c, "idle")

\* create() and COMMIT.  The unique index on (tenantId, seq) rejects a second
\* row for a seq, under a code isRetryable does not know.  A process that
\* dies, or a connection lost, after the commit and before the answer leaves
\* the row behind and a caller that was not told: the call throws.
InsertAndCommit(c) ==
    /\ stage[c] = "read"
    /\ IF SeqTaken(c)
       THEN EndTransaction(c, "conflict") /\ UNCHANGED rows
       ELSE /\ rows' = [rows EXCEPT ![TenantOf[c]] = @ \union {NextRow(c)}]
            /\ \E outcome \in {"returned", "thrown"} : EndTransaction(c, outcome)

\* A serialization failure or a deadlock: rolled back, and retried unless
\* this was the last attempt.
RetryableAbort(c) ==
    /\ stage[c] \in InTransaction
    /\ EndTransaction(c, IF tries[c] < MaxAttempts THEN "idle" ELSE "thrown")
    /\ UNCHANGED rows

\* Any other error, or the death of the calling process: rolled back, thrown.
FatalAbort(c) ==
    /\ stage[c] \in InTransaction
    /\ EndTransaction(c, "thrown")
    /\ UNCHANGED rows

LedgerStep(c) ==
    \/ BeginAppend(c)     \/ AcquireLock(c)    \/ ReadTail(c)
    \/ InsertAndCommit(c) \/ RetryableAbort(c) \/ FatalAbort(c)

\* A call that was made and has settled is over; so is the run.
Done == /\ \A c \in Calls : stage[c] \in Settled
        /\ UNCHANGED ledgerVars

LedgerNext == (\E c \in Calls : LedgerStep(c)) \/ Done

(***************************************************************************)
(* Fairness: a transaction's next statement is eventually executed - the   *)
(* process is alive and Postgres grants a free advisory lock.  Aborts are  *)
(* never owed.                                                             *)
(***************************************************************************)
Progress(c) ==
    BeginAppend(c) \/ AcquireLock(c) \/ ReadTail(c) \/ InsertAndCommit(c)

LedgerSafetySpec == LedgerInit /\ [][LedgerNext]_ledgerVars

LedgerSpec == LedgerSafetySpec /\ \A c \in Calls : WF_ledgerVars(Progress(c))

-----------------------------------------------------------------------------
(***************************************************************************)
(* verifyIntegrity: walk a tenant's rows in seq order and compare each     *)
(* one's position, prevHash and signature with what they should be.        *)
(***************************************************************************)
Rank(r, R) == Cardinality({q \in R : q.seq <= r.seq})
Preceding(r, R) == {q \in R : q.seq < r.seq}

EntryPlaced(r, R) ==
    /\ r.seq = Rank(r, R)
    /\ r.prevHash = TailOf(Preceding(r, R)).signature

EntrySigned(t, r) == r.signature = Sign(t, r.seq, r.content, r.prevHash)

VerifyIntegrity(t, R) == \A r \in R : EntryPlaced(r, R) /\ EntrySigned(t, r)

-----------------------------------------------------------------------------
(***************************************************************************)
(* Properties.                                                             *)
(***************************************************************************)
\* The type invariant of the ledger's state.
LedgerTypeOK ==
    /\ DOMAIN rows = Tenants
    /\ \A t \in Tenants : \A r \in rows[t] :
          /\ r.seq \in Nat \ {0}
          /\ r.call \in Calls
          /\ r = Row(t, r.seq, r.call, r.prevHash)
    /\ lock  \in [LockKeys -> Calls \union {NoCall}]
    /\ stage \in [Calls -> Stages]
    /\ tries \in [Calls -> 0..MaxAttempts]
    /\ DOMAIN tail = Calls
    /\ \A c \in Calls : tail[c].seq \in Nat

\* What a call gave its payload comes back from the row as it was signed.
ReadsBack(c) == Canonical[Stored[ContentOf[c]]] = Canonical[ContentOf[c]]

\* At every moment, whatever was in flight or aborted, the chain that append
\* has built is contiguous and linked, and it passes verifyIntegrity unless a
\* payload in it does not read back as it was signed: interleaving never
\* breaks a chain, one such payload breaks it for good (ledger/src/index.ts
\* append and verifyIntegrity; an optional queue, workflow/src/engine.ts:421).
ChainsAreLinked ==
    \A t \in Tenants :
        /\ \A r \in rows[t] : EntryPlaced(r, rows[t])
        /\ VerifyIntegrity(t, rows[t]) <=> \A r \in rows[t] : ReadsBack(r.call)

\* The advisory lock, taken before the tail is read, makes concurrent
\* appends queue: no call ever computes a seq another has taken and fails
\* with a unique violation the caller cannot handle.
NoSequenceConflict == \A c \in Calls : stage[c] # "conflict"

\* Retrying never records a call twice: only transactions known to be rolled
\* back are retried, so a call is in the ledger at most once and, having
\* returned, exactly once.
RecordedOnce ==
    \A c \in Calls :
        LET mine == {r \in rows[TenantOf[c]] : r.call = c}
        IN  /\ Cardinality(mine) <= 1
            /\ stage[c] = "returned" => Cardinality(mine) = 1
            /\ stage[c] \in {"idle"} \union InTransaction => mine = {}

\* Even with the append-only triggers out of the way, removing any entry but
\* the newest leaves another out of place, and an entry that verifies no
\* longer does under a content that is signed differently.  The columns that
\* are not signed are not protected.
TamperEvident ==
    \A t \in Tenants : \A r \in rows[t] :
        /\ r # Newest(rows[t]) =>
              \E q \in rows[t] \ {r} : ~EntryPlaced(q, rows[t] \ {r})
        /\ EntrySigned(t, r) =>
              \A x \in Contents : Canonical[x] # Canonical[r.content] =>
                  ~EntrySigned(t, [r EXCEPT !.content = x])

\* Two tenants whose ids hash to one advisory lock wait for each other but
\* never enter each other's chain, and no append leaves the lock behind: a
\* call that was begun settles.
AppendSettles ==
    \A c \in Calls : (stage[c] \in InTransaction) ~> (stage[c] \in Settled)

\* The ledger's rows, read in seq order, are the abstract history.
HistoryOf(t) ==
    [i \in 1..Cardinality(rows[t]) |-> (CHOOSE r \in rows[t] : r.seq = i).call]

Log == INSTANCE AppendOnlyLog WITH history <- [t \in Tenants |-> HistoryOf(t)]

\* append implements an append-only log per tenant: a step either extends one
\* tenant's history by one new call or leaves every history alone.
ImplementsAppendOnlyLog == Log!LogSpec
=============================================================================
