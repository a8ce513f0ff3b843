---------------------------- MODULE RateLimiter ----------------------------
(***************************************************************************)
(* The shared counter in front of every unauthenticated route: one row per *)
(* source in identity.rate_limit_counters (identity/rateLimit.ts), counted *)
(* by a limiter per app instance (http/limiter.ts).  One source here.      *)
(*                                                                         *)
(* A request takes its time when it arrives and is counted at any later    *)
(* time; a sweep takes the time of the request that started it and is not  *)
(* waited for.                                                             *)
(* Each is one statement, so one step.                                     *)
(***************************************************************************)
EXTENDS Naturals, FiniteSets

CONSTANTS Instances,       \* app instances, each with its createSharedRateLimiter
          Attempts,        \* requests under way at once
          WindowTicks,     \* windowSeconds
          MaxAttempts,     \* maxAttempts
          SweepEvery,      \* sweepEvery
          LastTick         \* model bound on time

ASSUME LimiterAssumption ==
    {WindowTicks, MaxAttempts, SweepEvery, LastTick} \subseteq Nat \ {0}

VARIABLES counter,    \* the row; started = 0 when there is none: time begins at 1
          attempt,    \* attempt[q]: when q arrived, 0 for none
          sweeping,   \* `now` of the sweeps not yet run
          writes,     \* per instance, counted modulo SweepEvery
          tick,
          letThrough, \* history, per tick: requests let through in the window's
                      \* length that begins with it
          lates       \* history: ticks in which an attempt was counted that had
                      \* arrived more than a tick before

limiterVars == <<counter, attempt, sweeping, writes, tick, letThrough, lates>>

NoCounter == [attempts |-> 0, started |-> 0, updated |-> 0]

LimiterInit ==
    /\ counter = NoCounter
    /\ attempt = [q \in Attempts |-> 0]
    /\ sweeping = {} /\ tick = 1
    /\ writes = [i \in Instances |-> 0]
    /\ letThrough = [t \in 1..LastTick |-> 0] /\ lates = {}

Arrives(q) ==
    /\ attempt[q] = 0
    /\ attempt' = [attempt EXCEPT ![q] = tick]
    /\ UNCHANGED <<counter, sweeping, writes, tick, letThrough, lates>>

SpanFrom(t) == t..(t + WindowTicks - 1)

\* Nothing tells one number over the budget from another.
OneMore(n) == IF n > MaxAttempts THEN n ELSE n + 1

\* consumeRateLimit: insert, or roll the window, or count on.
ConsumeRateLimit(now) ==
    IF counter.started = 0 \/ counter.started + WindowTicks <= now
    THEN [attempts |-> 1, started |-> now, updated |-> now]
    ELSE [counter EXCEPT !.attempts = OneMore(@), !.updated = now]

\* check on instance i, and the verdict: the attempt that goes over is refused.
Check(q, i) ==
    LET count == (writes[i] + 1) % SweepEvery IN
    /\ attempt[q] # 0
    /\ counter' = ConsumeRateLimit(attempt[q])
    /\ writes' = [writes EXCEPT ![i] = count]
    /\ sweeping' = IF count = 0 THEN sweeping \union {attempt[q]} ELSE sweeping
    /\ letThrough' = IF counter'.attempts > MaxAttempts THEN letThrough
                     ELSE [t \in 1..LastTick |-> IF tick \in SpanFrom(t) THEN letThrough[t] + 1
                                                 ELSE letThrough[t]]
    /\ lates' = IF attempt[q] + 1 < tick THEN lates \union {tick} ELSE lates
    /\ attempt' = [attempt EXCEPT ![q] = 0]
    /\ UNCHANGED tick

\* Mutant: whatever was not written since the sweep began is swept.
SweepTheIdle(now) ==
    /\ now \in sweeping /\ sweeping' = sweeping \ {now}
    /\ counter' = IF counter.updated <= now THEN NoCounter ELSE counter
    /\ UNCHANGED <<attempt, writes, tick, letThrough, lates>>

SweepRateLimits(now) ==
    /\ now \in sweeping /\ sweeping' = sweeping \ {now}
    /\ counter' = IF counter.updated + 2 * WindowTicks <= now THEN NoCounter ELSE counter
    /\ UNCHANGED <<attempt, writes, tick, letThrough, lates>>

TimePasses ==
    /\ tick < LastTick /\ tick' = tick + 1
    /\ UNCHANGED <<counter, attempt, sweeping, writes, letThrough, lates>>

LimiterNext ==
    \/ \E q \in Attempts : Arrives(q) \/ \E i \in Instances : Check(q, i)
    \/ \E now \in sweeping : SweepRateLimits(now)
    \/ TimePasses

LimiterSpec == LimiterInit /\ [][LimiterNext]_limiterVars

-----------------------------------------------------------------------------
LimiterTypeOK ==
    /\ counter \in [attempts : Nat, started : 0..LastTick, updated : 0..LastTick]
    /\ attempt \in [Attempts -> 0..LastTick]
    /\ sweeping \subseteq 1..LastTick /\ tick \in 1..LastTick
    /\ writes \in [Instances -> 0..(SweepEvery - 1)]
    /\ letThrough \in [1..LastTick -> Nat] /\ lates \subseteq 1..LastTick

\* What a fixed window promises, and no more: whatever instances count, in
\* whatever order, with late attempts and late sweeps, no span as long as a
\* window lets through more than the budgets of the two windows it can touch --
\* unless in that span an attempt was counted more than a tick after it came,
\* which may open a third (consumeRateLimit, sweepRateLimits,
\* createSharedRateLimiter).
BudgetHolds ==
    \A t \in 1..LastTick :
        lates \intersect SpanFrom(t) = {} => letThrough[t] <= 2 * MaxAttempts
=============================================================================
