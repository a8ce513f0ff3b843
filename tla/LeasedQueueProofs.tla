-------------------------- MODULE LeasedQueueProofs --------------------------
(***************************************************************************)
(* Proofs about LeasedQueue, for any tasks, workers, lease length, batch   *)
(* size, retry budget and number of deaths, and passes that take as long   *)
(* as they take.                                                           *)
(*                                                                         *)
(* The heart of the argument is that no pass's clock is ahead of the time, *)
(* so no reclaim takes a row before the lease of its claim is over; a row  *)
(* written within it is the row that was claimed.  The budget follows by   *)
(* counting, for every task but those in overrun: every call to fail uses  *)
(* up one claim, and the one that finds the budget spent is the last.      *)
(***************************************************************************)
EXTENDS LeasedQueue, TLAPS

\* A pass read its clock before now.
ClocksAreBehind == \A w \in Workers : at[w] <= now

\* Each claim is good for one failure, and the budget for one more than what
\* a row that still lives has used.
FailuresAreCounted ==
    \A t \in Tasks \ overrun :
        /\ failures[t] <= rows[t].attempts
        /\ rows[t].status = "running" => failures[t] < rows[t].attempts
        /\ rows[t].status # "dead_letter" => failures[t] < RowMaxAttempts

QueueInv ==
    /\ QueueTypeOK
    /\ ClocksAreBehind
    /\ WritesAreFenced
    /\ FailuresAreCounted
    /\ RetryBudget

-----------------------------------------------------------------------------
LEMMA QueueInitInv == QueueInit => QueueInv
<1> SUFFICES ASSUME QueueInit PROVE QueueInv
  OBVIOUS
<1> USE RowAssumption, QueueAssumption DEF QueueInit
<1>1. QueueTypeOK
  BY DEF QueueTypeOK, NewRow, LiveStatuses, NoLease
<1> QED
  BY <1>1 DEF QueueInv, ClocksAreBehind, WritesAreFenced,
     FailuresAreCounted, RetryBudget, NewRow

-----------------------------------------------------------------------------
Row == [status : LiveStatuses \union SettledStatuses, runAt : Nat,
        attempts : Nat, owner : Workers \union {NoOwner},
        lease : Nat \union {NoLease}]

\* What each statement makes of a row is a row.
LEMMA RowsStayRows ==
    ASSUME NEW row \in Row, NEW w \in Workers, NEW n \in Nat
    PROVE  /\ ClaimRow(row, w, n) \in Row
           /\ ReclaimRow(row) \in Row
           /\ SucceedRow(row) \in Row /\ ParkRow(row) \in Row
           /\ DeferRow(row, n) \in Row
           /\ \A seen \in Nat \ {0} : FailRow(row, seen, n) \in Row
<1> USE RowAssumption DEF Row, LiveStatuses, SettledStatuses, NoLease
<1>1. Released(row) \in Row
  BY DEF Released
<1>2. ASSUME NEW seen \in Nat \ {0} PROVE FailRow(row, seen, n) \in Row
  <2>1. CASE Exhausted(seen)
    BY <1>1, <2>1 DEF FailRow
  <2>2. CASE ~Exhausted(seen)
    <3>1. BackoffFor(seen) \in Nat
      BY <2>2, BackoffAssumption DEF Exhausted
    <3>2. FailRow(row, seen, n) =
            [Released(row) EXCEPT !.status = "pending",
                                  !.runAt = n + BackoffFor(seen)]
      BY <2>2 DEF FailRow
    <3>3. n + BackoffFor(seen) \in Nat
      BY <3>1
    <3> HIDE DEF Released
    <3> QED
      BY <1>1, <3>2, <3>3
  <2> QED
    BY <2>1, <2>2
<1>3. ClaimRow(row, w, n) \in Row
  <2>1. /\ row.attempts + 1 \in Nat /\ n + LeaseLength \in Nat
        /\ "running" \in LiveStatuses
    OBVIOUS
  <2>2. [[row EXCEPT !.status = "running"] EXCEPT !.attempts = row.attempts + 1]
            \in Row
    BY <2>1
  <2>3. \A r \in Row : [[r EXCEPT !.owner = w] EXCEPT !.lease = n + LeaseLength]
                         \in Row
    BY <2>1
  <2> QED
    BY <2>2, <2>3 DEF ClaimRow
<1>4. ReclaimRow(row) \in Row
  BY <1>1 DEF ReclaimRow
<1>5. SucceedRow(row) \in Row /\ ParkRow(row) \in Row
  BY <1>1 DEF SucceedRow, ParkRow
<1>6. DeferRow(row, n) \in Row
  BY <1>1 DEF DeferRow
<1> QED
  BY <1>1, <1>2, <1>3, <1>4, <1>5, <1>6

Held == [task : Tasks, attempts : Nat \ {0}, lease : Nat]

\* No pass's clock can read past a lease that is not over.
LEMMA LiveLeasesLast ==
    ASSUME QueueInv, NEW w \in Workers, NEW v \in Workers, NEW c \in held[v],
           now <= c.lease, Own(v, c)
    PROVE  ~LeaseExpired(rows[c.task], at[w])
<1>1. at[w] <= now /\ rows[c.task].lease = c.lease
  BY DEF QueueInv, ClocksAreBehind, Own
<1>2. c \in Held
  BY DEF QueueInv, QueueTypeOK, Held
<1>3. at[w] \in Nat /\ now \in Nat /\ c.lease \in Nat
  BY <1>2 DEF QueueInv, QueueTypeOK, Held
<1> QED
  BY <1>1, <1>3 DEF LeaseExpired

\* A row is one pass's own, by one copy.
LEMMA OwnedOnce ==
    ASSUME QueueInv, NEW v \in Workers, NEW w \in Workers,
           NEW c \in held[v], NEW d \in held[w], c.task = d.task,
           Own(v, c), Own(w, d)
    PROVE  v = w /\ c = d
<1>1. v = w /\ c.attempts = d.attempts /\ c.lease = d.lease
  BY DEF Own
<1>2. c \in Held /\ d \in Held
  BY DEF QueueInv, QueueTypeOK, Held
<1> QED
  BY <1>1, <1>2 DEF Held

\* A step that settles a held task, whatever row it writes, keeps the
\* invariant when the row is no longer running and, if it was the pass's own,
\* keeps its attempts and owes the budget no more than its attempts.
LEMMA SettleKeepsInv ==
    ASSUME QueueInv, NEW w \in Workers, NEW copy \in held[w], NEW row \in Row,
           Settle(w, copy, row),
           row.status # "running",
           failures' \in [Tasks -> Nat],
           \A t \in Tasks \ {copy.task} : failures'[t] = failures[t],
           copy.task \notin overrun /\ Own(w, copy) =>
               /\ row.attempts = rows[copy.task].attempts
               /\ failures'[copy.task] <= rows[copy.task].attempts
               /\ failures'[copy.task] <= RowMaxAttempts
               /\ row.status # "dead_letter" =>
                      failures'[copy.task] < RowMaxAttempts
    PROVE  QueueInv'
<1>1. copy.task \in Tasks
  BY DEF QueueInv, QueueTypeOK
<1>2. /\ \A t \in Tasks : rows'[t] = IF t = copy.task THEN row ELSE rows[t]
      /\ rows' \in [Tasks -> Row]
      /\ held' = [held EXCEPT ![w] = @ \ {copy}]
      /\ overrun' = IF Own(w, copy) THEN overrun ELSE overrun \union {copy.task}
      /\ UNCHANGED <<now, stage, at, crashes>>
  BY <1>1 DEF QueueInv, QueueTypeOK, Settle, Row
<1>3. /\ \A v \in Workers : held'[v] = IF v = w THEN held[v] \ {copy} ELSE held[v]
      /\ held' \in [Workers -> SUBSET Held]
  BY <1>2 DEF QueueInv, QueueTypeOK, Held
<1>4. QueueTypeOK'
  BY <1>1, <1>2, <1>3 DEF QueueInv, QueueTypeOK, Row, Held
<1>5. ClocksAreBehind'
  BY <1>2 DEF QueueInv, ClocksAreBehind
<1>6. WritesAreFenced'
  <2> SUFFICES ASSUME NEW v \in Workers, NEW c \in held'[v],
                      c.task \notin overrun', now <= c.lease
               PROVE  rows'[c.task] = rows[c.task] /\ Own(v, c)
    BY <1>2 DEF WritesAreFenced, Own
  <2>1. c \in held[v] /\ (v = w => c # copy) /\ c.task \in Tasks
    BY <1>3 DEF QueueInv, QueueTypeOK
  <2>2. Own(v, c)
    BY <1>2, <2>1 DEF QueueInv, WritesAreFenced
  <2>3. c.task # copy.task
    <3> SUFFICES ASSUME c.task = copy.task PROVE FALSE
      OBVIOUS
    <3>1. Own(w, copy)
      BY <1>2
    <3> QED
      BY <2>1, <2>2, <3>1, OwnedOnce
  <2> QED
    BY <1>2, <2>1, <2>2, <2>3
<1>7. ASSUME NEW t \in Tasks \ overrun'
      PROVE  /\ t \notin overrun
             /\ \/ t # copy.task
                \/ t = copy.task /\ Own(w, copy)
  BY <1>2
<1>8. FailuresAreCounted'
  <2> SUFFICES ASSUME NEW t \in Tasks \ overrun'
               PROVE  /\ failures'[t] <= rows'[t].attempts
                      /\ rows'[t].status = "running"
                           => failures'[t] < rows'[t].attempts
                      /\ rows'[t].status # "dead_letter"
                           => failures'[t] < RowMaxAttempts
    BY DEF FailuresAreCounted
  <2>1. CASE t # copy.task
    BY <1>2, <1>7, <2>1 DEF QueueInv, FailuresAreCounted
  <2>2. CASE t = copy.task
    BY <1>2, <1>7, <2>2
  <2> QED
    BY <2>1, <2>2
<1>9. RetryBudget'
  <2> SUFFICES ASSUME NEW t \in Tasks \ overrun'
               PROVE  failures'[t] <= RowMaxAttempts
    BY DEF RetryBudget
  <2>1. CASE t # copy.task
    BY <1>7, <2>1 DEF QueueInv, RetryBudget
  <2>2. CASE t = copy.task
    BY <1>7, <2>2
  <2> QED
    BY <2>1, <2>2
<1> QED
  BY <1>4, <1>5, <1>6, <1>8, <1>9 DEF QueueInv

-----------------------------------------------------------------------------
LEMMA ReclaimKeepsInv ==
    ASSUME QueueInv, NEW w \in Workers, ReclaimExpiredLeases(w)
    PROVE  QueueInv'
<1>1. \A t \in Tasks : rows[t] \in Row /\ rows'[t] \in Row
  BY 0 \in Nat, RowsStayRows
  DEF QueueInv, QueueTypeOK, ReclaimExpiredLeases, Row
<1>2. QueueTypeOK'
  BY <1>1 DEF QueueInv, QueueTypeOK, ReclaimExpiredLeases, Row
<1>3. ClocksAreBehind'
  BY DEF QueueInv, ReclaimExpiredLeases, ClocksAreBehind
<1>4. WritesAreFenced'
  <2> SUFFICES ASSUME NEW v \in Workers, NEW c \in held[v],
                      c.task \notin overrun, now <= c.lease
               PROVE  rows'[c.task] = rows[c.task] /\ Own(v, c)
    BY DEF WritesAreFenced, ReclaimExpiredLeases, Own
  <2>1. Own(v, c) /\ c.task \in Tasks
    BY DEF QueueInv, QueueTypeOK, WritesAreFenced
  <2>2. ~LeaseExpired(rows[c.task], at[w])
    BY <2>1, LiveLeasesLast
  <2> QED
    BY <2>1, <2>2 DEF ReclaimExpiredLeases
<1>5. \A t \in Tasks :
          \/ rows'[t] = rows[t]
          \/ /\ rows[t].status = "running" /\ rows'[t].status = "pending"
             /\ rows'[t].attempts = rows[t].attempts
  BY <1>1 DEF ReclaimExpiredLeases, LeaseExpired, ReclaimRow, Released, Row
<1>6. FailuresAreCounted' /\ RetryBudget'
  BY <1>5 DEF QueueInv, FailuresAreCounted, RetryBudget, ReclaimExpiredLeases
<1> QED
  BY <1>2, <1>3, <1>4, <1>6 DEF QueueInv

LEMMA ClaimKeepsInv ==
    ASSUME QueueInv, NEW w \in Workers, Claim(w)
    PROVE  QueueInv'
<1>1. PICK batch \in SUBSET {t \in Tasks : Due(rows[t], at[w])} :
        /\ rows' = [t \in Tasks |-> IF t \in batch
                                    THEN ClaimRow(rows[t], w, at[w])
                                    ELSE rows[t]]
        /\ held' = [held EXCEPT ![w] = {Copy(t, rows'[t]) : t \in batch}]
  BY DEF Claim
<1>2. \A t \in Tasks : rows[t] \in Row /\ rows'[t] \in Row
  BY <1>1, RowsStayRows DEF QueueInv, QueueTypeOK, Row
<1>3. \A t \in batch :
        /\ rows[t].status = "pending"
        /\ rows'[t].status = "running" /\ rows'[t].owner = w
        /\ rows'[t].attempts = rows[t].attempts + 1
        /\ rows'[t].lease = at[w] + LeaseLength
  BY <1>1, <1>2 DEF ClaimRow, Due, Row
<1>4. /\ \A v \in Workers \ {w} : held'[v] = held[v]
      /\ \A c \in held'[w] : /\ c.task \in batch
                             /\ c.attempts = rows'[c.task].attempts
                             /\ c.lease = rows'[c.task].lease
      /\ held' \in [Workers -> SUBSET Held]
  <2>1. at[w] + LeaseLength \in Nat
    BY RowAssumption DEF QueueInv, QueueTypeOK
  <2>2. \A t \in batch : Copy(t, rows'[t]) \in Held
    BY <1>2, <1>3, <2>1 DEF Copy, Row, Held
  <2>3. /\ held'[w] = {Copy(t, rows'[t]) : t \in batch}
        /\ \A v \in Workers \ {w} : held'[v] = held[v]
    BY <1>1 DEF QueueInv, QueueTypeOK
  <2>4. held'[w] \in SUBSET Held
    BY <2>2, <2>3
  <2>5. held' \in [Workers -> SUBSET Held]
    BY <1>1, <2>3, <2>4 DEF QueueInv, QueueTypeOK, Held
  <2> QED
    BY <2>3, <2>5 DEF Copy
<1>5. QueueTypeOK'
  BY <1>1, <1>2, <1>4 DEF QueueInv, QueueTypeOK, Claim, Row, Held
<1>6. ClocksAreBehind'
  BY DEF QueueInv, Claim, ClocksAreBehind
<1>7. WritesAreFenced'
  <2>1. ASSUME NEW c \in held'[w] PROVE Own(w, c)'
    BY <1>3, <1>4 DEF Own
  <2>2. ASSUME NEW v \in Workers \ {w}, NEW c \in held[v],
               c.task \notin overrun, now <= c.lease
        PROVE  Own(v, c)'
    <3>1. Own(v, c) /\ c.task \in Tasks
      BY <2>2 DEF QueueInv, QueueTypeOK, WritesAreFenced
    <3>2. c.task \notin batch
      BY <1>3, <3>1 DEF Own
    <3> QED
      BY <1>1, <3>1, <3>2 DEF Own
  <2> QED
    BY <1>4, <2>1, <2>2 DEF WritesAreFenced, Claim
<1>8. FailuresAreCounted' /\ RetryBudget'
  <2> SUFFICES ASSUME NEW t \in Tasks \ overrun
               PROVE  /\ failures[t] <= rows'[t].attempts
                      /\ rows'[t].status = "running"
                           => failures[t] < rows'[t].attempts
                      /\ rows'[t].status # "dead_letter"
                           => failures[t] < RowMaxAttempts
    BY DEF FailuresAreCounted, RetryBudget, Claim, QueueInv
  <2>1. failures[t] \in Nat /\ rows[t].attempts \in Nat
    BY DEF QueueInv, QueueTypeOK
  <2>2. CASE t \in batch
    BY <1>3, <2>1, <2>2 DEF QueueInv, FailuresAreCounted
  <2>3. CASE t \notin batch
    BY <1>1, <2>3 DEF QueueInv, FailuresAreCounted
  <2> QED
    BY <2>2, <2>3
<1> QED
  BY <1>5, <1>6, <1>7, <1>8 DEF QueueInv

LEMMA SucceedParkDeferKeepInv ==
    ASSUME QueueInv, NEW w \in Workers, Succeed(w) \/ Park(w) \/ DeferUntil(w)
    PROVE  QueueInv'
<1>1. PICK copy \in held[w] :
        /\ \/ Settle(w, copy, SucceedRow(rows[copy.task]))
           \/ Settle(w, copy, ParkRow(rows[copy.task]))
           \/ Settle(w, copy, DeferRow(rows[copy.task], at[w] + 1))
        /\ failures' = failures
  BY DEF Succeed, Park, DeferUntil
<1>2. /\ copy.task \in Tasks /\ rows[copy.task] \in Row
      /\ at[w] + 1 \in Nat
      /\ failures \in [Tasks -> Nat]
  BY DEF QueueInv, QueueTypeOK, Row
<1>3. PICK row \in Row : /\ Settle(w, copy, row)
                         /\ row.status \in {"succeeded", "waiting", "pending"}
                         /\ row.attempts = rows[copy.task].attempts
  <2>1. \A r \in {SucceedRow(rows[copy.task]), ParkRow(rows[copy.task]),
                  DeferRow(rows[copy.task], at[w] + 1)} :
           /\ r \in Row
           /\ r.status \in {"succeeded", "waiting", "pending"}
           /\ r.attempts = rows[copy.task].attempts
    <3>1. ASSUME NEW r \in {SucceedRow(rows[copy.task]), ParkRow(rows[copy.task]),
                  DeferRow(rows[copy.task], at[w] + 1)}
          PROVE  /\ r.status \in {"succeeded", "waiting", "pending"}
                 /\ r.attempts = rows[copy.task].attempts
      BY <1>2 DEF SucceedRow, ParkRow, DeferRow, Released, Row
    <3> QED
      BY <1>2, <3>1, RowsStayRows
  <2> QED
    BY <1>1, <2>1
<1>4. copy.task \notin overrun /\ Own(w, copy) =>
          /\ failures[copy.task] <= rows[copy.task].attempts
          /\ failures[copy.task] < RowMaxAttempts
          /\ failures[copy.task] <= RowMaxAttempts
  BY <1>2 DEF QueueInv, FailuresAreCounted, RetryBudget, Own
<1> QED
  BY <1>1, <1>2, <1>3, <1>4, SettleKeepsInv

LEMMA FailKeepsInv ==
    ASSUME QueueInv, NEW w \in Workers, Fail(w)
    PROVE  QueueInv'
<1>1. PICK copy \in held[w] :
        /\ Settle(w, copy, FailRow(rows[copy.task], copy.attempts, at[w]))
        /\ failures' = [failures EXCEPT ![copy.task] = @ + 1]
  BY DEF Fail
<1> DEFINE t == copy.task
           row == FailRow(rows[t], copy.attempts, at[w])
<1>2. /\ t \in Tasks /\ rows[t] \in Row /\ at[w] \in Nat
      /\ failures \in [Tasks -> Nat] /\ rows[t].attempts \in Nat
      /\ copy.attempts \in Nat \ {0}
  BY DEF QueueInv, QueueTypeOK, Row
<1>3. t \notin overrun /\ Own(w, copy) =>
          /\ copy.attempts = rows[t].attempts
          /\ failures[t] < rows[t].attempts /\ failures[t] < RowMaxAttempts
  BY <1>2 DEF QueueInv, FailuresAreCounted, Own
<1>4. row \in Row
  BY <1>2, RowsStayRows
<1>5. /\ row.attempts = rows[t].attempts
      /\ row.status \in {"pending", "dead_letter"}
      /\ row.status # "dead_letter" => copy.attempts < RowMaxAttempts
  <2>1. CASE Exhausted(copy.attempts)
    BY <1>2, <2>1 DEF FailRow, Released, Row
  <2>2. CASE ~Exhausted(copy.attempts)
    <3>1. copy.attempts < RowMaxAttempts
      BY <1>2, <2>2, RowAssumption DEF Exhausted
    <3>2. row = [Released(rows[t]) EXCEPT !.status = "pending",
                     !.runAt = at[w] + BackoffFor(copy.attempts)]
      BY <2>2 DEF FailRow
    <3> QED
      BY <1>2, <3>1, <3>2 DEF Released, Row
  <2> QED
    BY <2>1, <2>2
<1>6. /\ failures' \in [Tasks -> Nat]
      /\ \A u \in Tasks \ {t} : failures'[u] = failures[u]
      /\ failures'[t] = failures[t] + 1
  BY <1>1, <1>2
<1>7. t \notin overrun /\ Own(w, copy) =>
          /\ failures'[t] <= rows[t].attempts
          /\ failures'[t] <= RowMaxAttempts
          /\ row.status # "dead_letter" => failures'[t] < RowMaxAttempts
  BY <1>2, <1>3, <1>5, <1>6, RowAssumption
<1> HIDE DEF row
<1>8. Settle(w, copy, row) /\ row.status # "running"
  BY <1>1, <1>5 DEF row
<1> QED
  BY <1>4, <1>5, <1>6, <1>7, <1>8, SettleKeepsInv

\* The steps that write no row.
LEMMA PassesKeepInv ==
    ASSUME QueueInv, NEW w \in Workers, BeginPass(w) \/ EndPass(w) \/ Crash(w)
    PROVE  QueueInv'
<1>1. /\ QueueTypeOK' /\ rows' = rows /\ failures' = failures
      /\ overrun' = overrun /\ now' = now
      /\ \A v \in Workers : held'[v] \in {held[v], {}}
  BY DEF QueueInv, QueueTypeOK, BeginPass, EndPass, Crash
<1>2. ClocksAreBehind'
  BY DEF QueueInv, QueueTypeOK, ClocksAreBehind, BeginPass, EndPass, Crash
<1>3. WritesAreFenced'
  BY <1>1 DEF QueueInv, WritesAreFenced, Own
<1>4. FailuresAreCounted' /\ RetryBudget'
  BY <1>1 DEF QueueInv, FailuresAreCounted, RetryBudget
<1> QED
  BY <1>1, <1>2, <1>3, <1>4 DEF QueueInv

\* A parked task is no running pass's own.
LEMMA CompleteKeepsInv ==
    ASSUME QueueInv, NEW t \in Tasks, CompleteParked(t)
    PROVE  QueueInv'
<1>1. /\ rows[t] \in Row /\ rows[t].status = "waiting"
      /\ SucceedRow(rows[t]) \in Row
      /\ rows' = [rows EXCEPT ![t] = SucceedRow(rows[t])]
  <2>1. rows[t] \in Row
    BY DEF QueueInv, QueueTypeOK, Row
  <2>2. SucceedRow(rows[t]) \in Row
    <3> SucceedRow(rows[t]) = [Released(rows[t]) EXCEPT !.status = "succeeded"]
      BY DEF SucceedRow
    <3> QED
      BY <2>1 DEF Released, Row, LiveStatuses, SettledStatuses
  <2> QED
    BY <2>1, <2>2 DEF CompleteParked
<1>2. /\ SucceedRow(rows[t]).status = "succeeded"
      /\ SucceedRow(rows[t]).attempts = rows[t].attempts
  BY <1>1 DEF SucceedRow, Released, Row
<1>3. QueueTypeOK'
  BY <1>1 DEF QueueInv, QueueTypeOK, CompleteParked, Row
<1>4. ClocksAreBehind'
  BY DEF QueueInv, ClocksAreBehind, CompleteParked
<1>5. WritesAreFenced'
  BY <1>1 DEF QueueInv, QueueTypeOK, WritesAreFenced, Own, CompleteParked
<1>6. FailuresAreCounted' /\ RetryBudget'
  BY <1>1, <1>2
  DEF QueueInv, QueueTypeOK, FailuresAreCounted, RetryBudget, CompleteParked
<1> QED
  BY <1>3, <1>4, <1>5, <1>6 DEF QueueInv

\* The clock only shortens the leases.
LEMMA TickKeepsInv ==
    ASSUME QueueInv, Tick
    PROVE  QueueInv'
<1>1. QueueTypeOK'
  BY DEF QueueInv, QueueTypeOK, Tick
<1>2. ClocksAreBehind'
  BY DEF QueueInv, QueueTypeOK, ClocksAreBehind, Tick
<1>3. WritesAreFenced'
  <2> SUFFICES ASSUME NEW w \in Workers, NEW c \in held[w],
                      c.task \notin overrun, now + 1 <= c.lease
               PROVE  now <= c.lease
    BY DEF QueueInv, WritesAreFenced, Own, Tick
  <2>1. c \in Held /\ now \in Nat
    BY DEF QueueInv, QueueTypeOK, Held
  <2> QED
    BY <2>1 DEF Held
<1>4. FailuresAreCounted' /\ RetryBudget'
  BY DEF QueueInv, FailuresAreCounted, RetryBudget, Tick
<1> QED
  BY <1>1, <1>2, <1>3, <1>4 DEF QueueInv

LEMMA QueueNextInv == QueueInv /\ [QueueNext]_queueVars => QueueInv'
<1> SUFFICES ASSUME QueueInv, [QueueNext]_queueVars PROVE QueueInv'
  OBVIOUS
<1>1. ASSUME NEW w \in Workers, WorkerStep(w) PROVE QueueInv'
  BY <1>1, PassesKeepInv, ReclaimKeepsInv, ClaimKeepsInv,
     SucceedParkDeferKeepInv, FailKeepsInv DEF WorkerStep
<1>2. CASE UNCHANGED queueVars
  BY <1>2 DEF queueVars, QueueInv, QueueTypeOK, ClocksAreBehind,
     WritesAreFenced, Own, FailuresAreCounted, RetryBudget
<1> QED
  BY <1>1, <1>2, CompleteKeepsInv, TickKeepsInv DEF QueueNext

\* What a step can do to a dead-lettered row or to overrun, a write does whose
\* writer had lost the row.
LEMMA OnlySettlesDisturb ==
    ASSUME QueueInv, [QueueNext]_queueVars, NEW t \in Tasks
    PROVE  /\ rows[t].status = "dead_letter" /\ rows'[t] # rows[t] =>
                  t \in overrun'
           /\ t \in overrun' \ overrun =>
                  \E w \in Workers : \E c \in held[w] : c.task = t /\ ~Own(w, c)
<1> DEFINE Goal ==
             /\ rows[t].status = "dead_letter" /\ rows'[t] # rows[t] =>
                    t \in overrun'
             /\ t \in overrun' \ overrun =>
                    \E w \in Workers : \E c \in held[w] : c.task = t /\ ~Own(w, c)
<1>1. ASSUME NEW w \in Workers, NEW copy \in held[w], NEW row,
             Settle(w, copy, row)
      PROVE  Goal
  <2>1. /\ rows'[t] = IF t = copy.task THEN row ELSE rows[t]
        /\ overrun' = IF Own(w, copy) THEN overrun
                                      ELSE overrun \union {copy.task}
    BY <1>1 DEF QueueInv, QueueTypeOK, Settle
  <2>2. rows[t].status = "dead_letter" /\ t = copy.task => ~Own(w, copy)
    BY DEF Own
  <2> QED
    BY <2>1, <2>2
<1>2. ASSUME NEW w \in Workers, WorkerStep(w) PROVE Goal
  <2>1. CASE BeginPass(w) \/ EndPass(w) \/ Crash(w)
    BY <2>1 DEF BeginPass, EndPass, Crash
  <2>2. CASE ReclaimExpiredLeases(w)
    BY <2>2 DEF ReclaimExpiredLeases, LeaseExpired
  <2>3. CASE Claim(w)
    BY <2>3 DEF Claim, Due
  <2>4. CASE Succeed(w) \/ Park(w) \/ DeferUntil(w) \/ Fail(w)
    <3>1. PICK copy \in held[w] : \E row : Settle(w, copy, row)
      BY <2>4 DEF Succeed, Park, DeferUntil, Fail
    <3> QED
      BY <1>1, <3>1
  <2> QED
    BY <1>2, <2>1, <2>2, <2>3, <2>4 DEF WorkerStep
<1>3. ASSUME NEW u \in Tasks, CompleteParked(u) PROVE Goal
  BY <1>3 DEF CompleteParked, QueueInv, QueueTypeOK
<1>4. CASE Tick \/ UNCHANGED queueVars
  BY <1>4 DEF Tick, queueVars
<1> QED
  BY <1>2, <1>3, <1>4 DEF QueueNext

\* A dead letter stays one while its task is not overrun.
LEMMA DeadLetterStep ==
    QueueInv /\ [QueueNext]_queueVars =>
        \A t \in Tasks \ overrun' : rows[t].status = "dead_letter"
                           => rows'[t].status = "dead_letter"
BY OnlySettlesDisturb

\* Whoever overruns a task first is past its lease.
LEMMA OverrunStep ==
    QueueInv /\ [QueueNext]_queueVars =>
        \A t \in overrun' \ overrun :
          \E w \in Workers : \E c \in held[w] : c.task = t /\ c.lease < now
<1> SUFFICES ASSUME QueueInv, [QueueNext]_queueVars, NEW t \in overrun' \ overrun
             PROVE  \E w \in Workers : \E c \in held[w] : c.task = t /\ c.lease < now
  OBVIOUS
<1>1. t \in Tasks
  BY QueueNextInv DEF QueueInv, QueueTypeOK
<1>2. PICK w \in Workers : \E c \in held[w] : c.task = t /\ ~Own(w, c)
  BY <1>1, OnlySettlesDisturb
<1>3. PICK c \in held[w] : c.task = t /\ ~Own(w, c)
  BY <1>2
<1>4. ~(now <= c.lease)
  BY <1>3 DEF QueueInv, WritesAreFenced
<1>5. c \in Held /\ now \in Nat
  BY DEF QueueInv, QueueTypeOK, Held
<1>6. c.lease < now
  BY <1>4, <1>5 DEF Held
<1> QED
  BY <1>3, <1>6

-----------------------------------------------------------------------------
\* No task is failed more often than its budget allows, however many workers
\* die between a claim and its outcome and however long passes take, unless
\* its row was written by a pass that had lost it (queue.ts fail, claim and
\* reclaimExpiredLeases).
THEOREM BudgetIsKept == QueueSpec => []RetryBudget
<1>1. QueueInv => RetryBudget
  BY DEF QueueInv
<1> QED
  BY QueueInitInv, QueueNextInv, <1>1, PTL DEF QueueSpec

\* The writes of queue.ts, by id alone, land on rows the writer holds until
\* the lease of its claim is over; only a pass past its lease ever writes one
\* it has lost, and until one has, a dead letter stays dead.
THEOREM RowsStayFenced == QueueSpec => RowsAreFenced
<1>1. QueueInv => QueueTypeOK /\ WritesAreFenced
  BY DEF QueueInv
<1> QED
  BY QueueInitInv, QueueNextInv, DeadLetterStep, OverrunStep, <1>1, PTL
  DEF QueueSpec, RowsAreFenced, DeadLetterFinal, OnlyLatePassesOverrun
=============================================================================
