---------------------------- MODULE LeasedQueue ----------------------------
(***************************************************************************)
(* The durable task queue under several workers and a clock: packages/     *)
(* workflow/src/queue.ts as engine.ts's tick drives it.  A pass reads the  *)
(* clock once, returns expired leases to the queue, claims a batch, and    *)
(* then settles the batch's tasks one by one, every write using the pass's *)
(* clock and the copy of the row it claimed.  A worker may die, or its     *)
(* pass may throw, between any two of these; whatever it held stays        *)
(* running under its lease.                                                *)
(*                                                                         *)
(* The rows of workflow.workflow_tasks come first, and what each statement *)
(* makes of one.  Every write is by task id alone: no statement but claim  *)
(* and reclaim looks at the row's status, and none looks at who holds its  *)
(* lease.                                                                  *)
(***************************************************************************)
EXTENDS Integers, FiniteSets, FiniteSetsExt

CONSTANTS NoOwner,          \* lockedBy of a row nobody has claimed
          RowMaxAttempts,   \* maxAttempts of a row
          BackoffBase,      \* backoffSeconds of a row
          BackoffCap,       \* MAX_BACKOFF_SECONDS
          LeaseLength,      \* DEFAULT_LEASE_SECONDS
          Tasks, Workers,
          BatchSize,        \* options.batchSize
          MaxTime,          \* model bound on the clock
          MaxCrashes        \* model bound on worker deaths

ASSUME QueueAssumption ==
    /\ NoOwner \notin Workers
    /\ BatchSize \in Nat \ {0}
    /\ MaxTime \in Nat /\ MaxCrashes \in Nat

ASSUME RowAssumption ==
    /\ RowMaxAttempts \in Nat \ {0}
    /\ BackoffBase \in Nat /\ BackoffCap \in Nat /\ LeaseLength \in Nat

NoLease == -1               \* leaseExpiresAt is null
LiveStatuses    == {"pending", "running", "waiting"}
SettledStatuses == {"succeeded", "dead_letter"}

NewRow(runAt) ==
    [status |-> "pending", runAt |-> runAt, attempts |-> 0,
     owner |-> NoOwner, lease |-> NoLease]

\* status = 'pending' AND runAt <= now, the rows claim selects.
Due(row, clock) == row.status = "pending" /\ row.runAt <= clock

ClaimRow(row, w, clock) ==
    [row EXCEPT !.status = "running", !.attempts = @ + 1,
                !.owner = w, !.lease = clock + LeaseLength]

Released(row) == [row EXCEPT !.owner = NoOwner, !.lease = NoLease]

\* Mutant: a lease is over the moment it ends.
LeaseEnding(row, clock) ==
    row.status = "running" /\ row.lease # NoLease /\ row.lease <= clock

\* A running row whose lease ended before now: its worker is presumed dead.
LeaseExpired(row, clock) ==
    row.status = "running" /\ row.lease # NoLease /\ row.lease < clock

\* The attempt the lost worker made stays counted; nothing here compares it
\* with maxAttempts.
ReclaimRow(row) == [Released(row) EXCEPT !.status = "pending"]

SucceedRow(row) == [Released(row) EXCEPT !.status = "succeeded"]
ParkRow(row)    == [Released(row) EXCEPT !.status = "waiting"]
DeferRow(row, runAt) ==
    [Released(row) EXCEPT !.status = "pending", !.runAt = runAt]

\* Exponential backoff with a cap; attempts is the count already made.
BackoffFor(attempts) ==
    Min({BackoffBase * 2 ^ Max({0, attempts - 1}), BackoffCap})

\* The provers know nothing of powers; TLC evaluates this for every instance.
ASSUME BackoffAssumption == \A n \in 1..RowMaxAttempts : BackoffFor(n) \in Nat

\* Mutant: one retry more than maxAttempts.
ExhaustedLate(attemptsSeen) == attemptsSeen > RowMaxAttempts

\* fail decides on the caller's copy of attempts, taken when it claimed.
Exhausted(attemptsSeen) == attemptsSeen >= RowMaxAttempts

FailRow(row, attemptsSeen, clock) ==
    IF Exhausted(attemptsSeen)
    THEN [Released(row) EXCEPT !.status = "dead_letter"]
    ELSE [Released(row) EXCEPT !.status = "pending",
                               !.runAt = clock + BackoffFor(attemptsSeen)]

VARIABLES rows,       \* rows[t]: the task's row
          now,        \* the clock every worker reads
          stage,      \* stage[w]: "idle", "reclaim", "claim" or "execute"
          at,         \* at[w]: the pass's clock, read when the pass began
          held,       \* held[w]: copies of the rows the pass claimed
          crashes,    \* worker deaths so far
          failures,   \* history: failures[t], calls to fail for the task
          overrun     \* history: tasks written by a pass whose row it no
                      \* longer was

queueVars == <<rows, now, stage, at, held, crashes, failures, overrun>>

Copy(t, row) == [task |-> t, attempts |-> row.attempts, lease |-> row.lease]

\* The row a copy stands for is still running as the pass claimed it.
Own(w, copy) ==
    LET row == rows[copy.task]
    IN  /\ row.status = "running" /\ row.owner = w
        /\ row.attempts = copy.attempts /\ row.lease = copy.lease

QueueInit ==
    /\ rows = [t \in Tasks |-> NewRow(0)]
    /\ now = 0
    /\ stage = [w \in Workers |-> "idle"]
    /\ at = [w \in Workers |-> 0]
    /\ held = [w \in Workers |-> {}]
    /\ crashes = 0
    /\ failures = [t \in Tasks |-> 0]
    /\ overrun = {}

BeginPass(w) ==
    /\ stage[w] = "idle"
    /\ stage' = [stage EXCEPT ![w] = "reclaim"]
    /\ at' = [at EXCEPT ![w] = now]
    /\ UNCHANGED <<rows, now, held, crashes, failures, overrun>>

\* One UPDATE statement over every expired lease.
ReclaimExpiredLeases(w) ==
    /\ stage[w] = "reclaim"
    /\ rows' = [t \in Tasks |-> IF LeaseExpired(rows[t], at[w])
                                THEN ReclaimRow(rows[t]) ELSE rows[t]]
    /\ stage' = [stage EXCEPT ![w] = "claim"]
    /\ UNCHANGED <<now, at, held, crashes, failures, overrun>>

\* FOR UPDATE SKIP LOCKED: rows another transaction holds are passed over, so
\* any set of due rows up to the limit may be the batch.
Claim(w) ==
    /\ stage[w] = "claim"
    /\ \E batch \in SUBSET {t \in Tasks : Due(rows[t], at[w])} :
         /\ Cardinality(batch) <= BatchSize
         /\ rows' = [t \in Tasks |-> IF t \in batch
                                     THEN ClaimRow(rows[t], w, at[w])
                                     ELSE rows[t]]
         /\ held' = [held EXCEPT ![w] = {Copy(t, rows'[t]) : t \in batch}]
    /\ stage' = [stage EXCEPT ![w] = "execute"]
    /\ UNCHANGED <<now, at, crashes, failures, overrun>>

\* Write the row a copy stands for and go on with the rest of the batch.  The
\* write goes by id: nothing asks whether the row is still the pass's own.
Settle(w, copy, row) ==
    /\ stage[w] = "execute" /\ copy \in held[w]
    /\ rows' = [rows EXCEPT ![copy.task] = row]
    /\ held' = [held EXCEPT ![w] = @ \ {copy}]
    /\ overrun' = IF Own(w, copy) THEN overrun ELSE overrun \union {copy.task}
    /\ UNCHANGED <<now, stage, at, crashes>>

Succeed(w) == \E copy \in held[w] :
    /\ Settle(w, copy, SucceedRow(rows[copy.task]))
    /\ UNCHANGED failures

Park(w) == \E copy \in held[w] :
    /\ Settle(w, copy, ParkRow(rows[copy.task]))
    /\ UNCHANGED failures

\* A wait until a moment in the instance context, some time ahead.
DeferUntil(w) == \E copy \in held[w] :
    /\ Settle(w, copy, DeferRow(rows[copy.task], at[w] + 1))
    /\ UNCHANGED failures

Fail(w) == \E copy \in held[w] :
    /\ Settle(w, copy, FailRow(rows[copy.task], copy.attempts, at[w]))
    /\ failures' = [failures EXCEPT ![copy.task] = @ + 1]

EndPass(w) ==
    /\ stage[w] = "execute" /\ held[w] = {}
    /\ stage' = [stage EXCEPT ![w] = "idle"]
    /\ UNCHANGED <<rows, now, at, held, crashes, failures, overrun>>

\* The process dies, or an exception unwinds the pass: the batch is dropped.
Crash(w) ==
    /\ crashes < MaxCrashes /\ stage[w] # "idle"
    /\ crashes' = crashes + 1
    /\ stage' = [stage EXCEPT ![w] = "idle"]
    /\ held' = [held EXCEPT ![w] = {}]
    /\ UNCHANGED <<rows, now, at, failures, overrun>>

\* completeExternalTask, seen from the queue: a parked task succeeds.
CompleteParked(t) ==
    /\ rows[t].status = "waiting"
    /\ rows' = [rows EXCEPT ![t] = SucceedRow(@)]
    /\ UNCHANGED <<now, stage, at, held, crashes, failures, overrun>>

Tick ==
    /\ now < MaxTime
    /\ now' = now + 1
    /\ UNCHANGED <<rows, stage, at, held, crashes, failures, overrun>>

WorkerStep(w) ==
    \/ BeginPass(w) \/ ReclaimExpiredLeases(w) \/ Claim(w)
    \/ Succeed(w)   \/ Park(w)  \/ DeferUntil(w) \/ Fail(w)
    \/ EndPass(w)   \/ Crash(w)

QueueNext == \/ \E w \in Workers : WorkerStep(w)
             \/ \E t \in Tasks : CompleteParked(t)
             \/ Tick

QueueSpec == QueueInit /\ [][QueueNext]_queueVars

-----------------------------------------------------------------------------
(***************************************************************************)
(* Properties.                                                             *)
(***************************************************************************)
\* The type invariant of the queue.
QueueTypeOK ==
    /\ rows \in [Tasks -> [status : LiveStatuses \union SettledStatuses,
                           runAt : Nat, attempts : Nat,
                           owner : Workers \union {NoOwner},
                           lease : Nat \union {NoLease}]]
    /\ now \in Nat /\ crashes \in Nat
    /\ stage \in [Workers -> {"idle", "reclaim", "claim", "execute"}]
    /\ at \in [Workers -> Nat]
    /\ held \in [Workers -> SUBSET [task : Tasks, attempts : Nat \ {0},
                                    lease : Nat]]
    /\ failures \in [Tasks -> Nat]
    /\ overrun \subseteq Tasks

\* A task no pass has written out of turn and that was dead-lettered stays
\* dead-lettered (queue.ts fail).
DeadLetterFinal ==
    [][\A t \in Tasks \ overrun' : rows[t].status = "dead_letter"
                            => rows'[t].status = "dead_letter"]_queueVars

\* fail is called for a task at most maxAttempts times, crashes and reclaims
\* in between included, unless a pass wrote its row after losing it (queue.ts
\* fail and claim: attempts counts the claims).
RetryBudget == \A t \in Tasks \ overrun : failures[t] <= RowMaxAttempts

\* Until the lease of a claim is over, its row is running as it was claimed,
\* unless the row was written out of turn before.
WritesAreFenced ==
    \A w \in Workers : \A c \in held[w] :
        c.task \notin overrun /\ now <= c.lease => Own(w, c)

\* The first write to a row its writer had lost comes from a pass that is past
\* its lease, never from overlapping passes alone.
OnlyLatePassesOverrun ==
    [][\A t \in overrun' \ overrun :
          \E w \in Workers : \E c \in held[w] : c.task = t /\ c.lease < now]_queueVars

\* Workers write a row by its id alone.  What keeps two of them off one row is
\* the lease: nobody takes a row within the lease of its claim, what first
\* goes wrong with a row is done by a pass past its lease, and until then a
\* dead letter stays one (queue.ts claim, reclaimExpiredLeases, fail).
RowsAreFenced ==
    /\ [](QueueTypeOK /\ WritesAreFenced)
    /\ OnlyLatePassesOverrun
    /\ DeadLetterFinal
=============================================================================
