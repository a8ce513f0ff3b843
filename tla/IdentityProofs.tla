--------------------------- MODULE IdentityProofs ---------------------------
(***************************************************************************)
(* Proofs about who gets in, for any number of requests at once, of rows,  *)
(* keys and codes, of attempts, deaths and sweeps: the rate limiter, a     *)
(* staff member's access, a client's second factor and his account.        *)
(***************************************************************************)
EXTENDS MCIdentity, FiniteSetTheorems, TLAPS

-----------------------------------------------------------------------------
(***************************************************************************)
(* The limiter.  A window that opens ends the one before it at least a     *)
(* window's length ago, so a span touches two: no attempt of the span came *)
(* more than a tick before it was counted, and a sweep takes only a row    *)
(* that was idle for two windows.  What a late attempt may disturb is said *)
(* only of spans without one.                                              *)
(***************************************************************************)
Used == IF counter.attempts > MaxAttempts THEN MaxAttempts ELSE counter.attempts
Ticks == 1..LastTick
Current(t) == t + WindowTicks > tick

\* No attempt of the span that begins with t was counted late.
Clean(t) == \A u \in lates : u < t \/ t + WindowTicks <= u

OnTime ==
    /\ \A q \in Attempts : attempt[q] <= tick
    /\ \A u \in lates : u <= tick
    /\ \A now \in sweeping : now <= tick
    /\ counter.started <= tick /\ counter.updated <= tick

\* Of a window under way: what came after its beginning is its own, and what
\* is still current is its own and at most one budget more.
WindowOK ==
    counter.started # 0 =>
        /\ counter.attempts >= 1
        /\ counter.started > counter.updated + 1 => \E u \in lates : counter.started <= u
        /\ \A t \in Ticks : Current(t) /\ Clean(t) =>
              /\ t > counter.started => letThrough[t] <= Used
              /\ letThrough[t] <= MaxAttempts + Used

\* Whoever let somebody through in this tick has not been rolled over or swept.
TickOK ==
    /\ \A t \in Ticks : t > tick => letThrough[t] = 0
    /\ (letThrough[tick] > 0 /\ tick \notin lates) =>
          /\ counter.started # 0 /\ counter.started + WindowTicks >= tick
          /\ counter.updated + 1 >= tick

SpansHold == \A t \in Ticks : Clean(t) => letThrough[t] <= 2 * MaxAttempts

LimiterInv ==
    /\ LimiterTypeOK /\ OnTime /\ WindowOK /\ TickOK /\ SpansHold
    /\ counter.started = 0 =>
          \A t \in Ticks : Current(t) /\ Clean(t) => letThrough[t] <= MaxAttempts

LEMMA LimiterTyped ==
    ASSUME LimiterTypeOK
    PROVE  /\ counter.attempts \in Nat /\ counter.started \in Nat /\ counter.updated \in Nat
           /\ tick \in Ticks /\ tick \in Nat /\ LastTick \in Nat
           /\ WindowTicks \in Nat \ {0} /\ MaxAttempts \in Nat \ {0}
           /\ \A t \in Ticks : t \in Nat /\ letThrough[t] \in Nat
           /\ \A q \in Attempts : attempt[q] \in Nat
           /\ \A now \in sweeping : now \in Nat
           /\ \A u \in lates : u \in Nat
           /\ Used \in Nat /\ Used <= MaxAttempts
<1>1. /\ counter.attempts \in Nat /\ counter.started \in Nat /\ counter.updated \in Nat
  BY LimiterAssumption DEF LimiterTypeOK
<1>2. /\ tick \in Ticks /\ tick \in Nat /\ LastTick \in Nat
      /\ WindowTicks \in Nat \ {0} /\ MaxAttempts \in Nat \ {0}
  BY LimiterAssumption DEF LimiterTypeOK, Ticks
<1>3. \A t \in Ticks : t \in Nat /\ letThrough[t] \in Nat
  BY LimiterAssumption DEF LimiterTypeOK, Ticks
<1>4. /\ \A q \in Attempts : attempt[q] \in Nat
      /\ \A now \in sweeping : now \in Nat
      /\ \A u \in lates : u \in Nat
  BY LimiterAssumption DEF LimiterTypeOK
<1>5. Used \in Nat /\ Used <= MaxAttempts
  BY <1>1, <1>2 DEF Used
<1> QED
  BY <1>1, <1>2, <1>3, <1>4, <1>5

LEMMA LimiterInitInv == LimiterInit => LimiterInv
BY LimiterAssumption DEF LimiterInit, LimiterInv, LimiterTypeOK, OnTime, WindowOK, TickOK,
   SpansHold, NoCounter, Ticks, Current, Clean, Used

LEMMA ArrivesKeepsInv ==
    ASSUME LimiterInv, NEW q \in Attempts, Arrives(q)
    PROVE  LimiterInv'
<1>1. /\ attempt' = [attempt EXCEPT ![q] = tick]
      /\ UNCHANGED <<counter, sweeping, writes, tick, letThrough, lates>>
  BY DEF Arrives
<1>2. LimiterTypeOK'
  BY <1>1 DEF LimiterInv, LimiterTypeOK
<1>3. OnTime'
  BY <1>1, LimiterTyped DEF LimiterInv, LimiterTypeOK, OnTime
<1> QED
  BY <1>1, <1>2, <1>3 DEF LimiterInv, WindowOK, TickOK, SpansHold, Used, Current, Clean

\* A span that is under way and has no late attempt began after the last one.
LEMMA CleanFollows ==
    ASSUME LimiterInv, NEW t \in Ticks, Current(t), Clean(t), NEW u \in lates
    PROVE  u < t
BY LimiterTyped DEF LimiterInv, OnTime, Current, Clean, Ticks

LEMMA SweepKeepsInv ==
    ASSUME LimiterInv, NEW now \in sweeping, SweepRateLimits(now)
    PROVE  LimiterInv'
<1>0. LimiterTypeOK /\ OnTime /\ WindowOK /\ TickOK /\ SpansHold
  BY DEF LimiterInv
<1>1. /\ sweeping' \subseteq sweeping
      /\ UNCHANGED <<attempt, writes, tick, letThrough, lates>>
  BY DEF SweepRateLimits
<1>2. CASE counter' = counter
  BY <1>0, <1>1, <1>2 DEF LimiterInv, LimiterTypeOK, OnTime, WindowOK, TickOK, SpansHold,
     Used, Current, Clean
<1>3. CASE counter.updated + 2 * WindowTicks <= now /\ counter' = NoCounter
  <2>1. counter'.attempts = 0 /\ counter'.started = 0 /\ counter'.updated = 0
    BY <1>3 DEF NoCounter
  <2>2. LimiterTypeOK'
    <3>1. counter' \in [attempts : Nat, started : 0..LastTick, updated : 0..LastTick]
      BY <1>3, LimiterAssumption DEF NoCounter
    <3> QED
      BY <1>0, <1>1, <3>1 DEF LimiterTypeOK
  <2>3. OnTime'
    BY <1>0, <1>1, <2>1, LimiterTyped DEF OnTime
  <2>4. counter.updated + 2 * WindowTicks <= tick
    BY <1>0, <1>3, LimiterTyped DEF OnTime
  <2>5. TickOK'
    <3>1. tick \in lates \/ letThrough[tick] = 0
      BY <1>0, <2>4, LimiterTyped DEF TickOK
    <3> QED
      BY <1>0, <1>1, <3>1, LimiterTyped DEF TickOK
  <2>6. ASSUME NEW t \in Ticks, Current(t), Clean(t) PROVE letThrough[t] <= MaxAttempts
    <3>1. CASE counter.started = 0
      BY <2>6, <3>1 DEF LimiterInv
    <3>2. CASE counter.started # 0
      <4>1. t > counter.started
        <5>1. CASE counter.started <= counter.updated + 1
          BY <2>4, <2>6, <5>1, LimiterTyped, <1>0 DEF Current
        <5>2. CASE counter.started > counter.updated + 1
          <6>1. PICK u \in lates : counter.started <= u
            BY <1>0, <3>2, <5>2 DEF WindowOK
          <6>2. u < t
            BY <2>6, CleanFollows
          <6> QED
            BY <1>0, <6>1, <6>2, LimiterTyped
        <5> QED
          BY <1>0, <5>1, <5>2, LimiterTyped
      <4> QED
        BY <1>0, <2>6, <3>2, <4>1, LimiterTyped DEF WindowOK
    <3> QED
      BY <3>1, <3>2
  <2> QED
    BY <1>0, <1>1, <2>1, <2>2, <2>3, <2>5, <2>6
    DEF LimiterInv, WindowOK, SpansHold, Current, Clean
<1> QED
  BY <1>2, <1>3 DEF SweepRateLimits

LEMMA TickKeepsInv ==
    ASSUME LimiterInv, TimePasses
    PROVE  LimiterInv'
<1>0. LimiterTypeOK /\ OnTime /\ WindowOK /\ TickOK /\ SpansHold
  BY DEF LimiterInv
<1>1. /\ tick' = tick + 1 /\ tick < LastTick
      /\ UNCHANGED <<counter, attempt, sweeping, writes, letThrough, lates>>
  BY DEF TimePasses
<1>2. LimiterTypeOK' /\ tick' \in Ticks
  <2>1. tick' \in 1..LastTick
    BY <1>0, <1>1, LimiterTyped
  <2> QED
    BY <1>0, <1>1, <2>1 DEF LimiterTypeOK, Ticks
<1>3. OnTime'
  BY <1>0, <1>1, LimiterTyped, LimiterAssumption DEF OnTime
<1>4. TickOK'
  BY <1>0, <1>1, <1>2, LimiterTyped DEF TickOK
<1>5. \A t \in Ticks : (Current(t)' => Current(t)) /\ (Clean(t)' <=> Clean(t))
  BY <1>0, <1>1, LimiterTyped DEF Current, Clean
<1> QED
  BY <1>0, <1>1, <1>2, <1>3, <1>4, <1>5 DEF LimiterInv, WindowOK, SpansHold, Used

LEMMA CheckTyped ==
    ASSUME LimiterTypeOK, NEW q \in Attempts, NEW i \in Instances, Check(q, i)
    PROVE  /\ LimiterTypeOK'
           /\ sweeping' \subseteq sweeping \union {attempt[q]}
           /\ counter'.updated = attempt[q] /\ counter'.started \in {counter.started, attempt[q]}
           /\ lates' = IF attempt[q] + 1 < tick THEN lates \union {tick} ELSE lates
<1> DEFINE now == attempt[q]
<1>1. /\ now # 0 /\ counter' = ConsumeRateLimit(now) /\ tick' = tick
      /\ attempt' = [attempt EXCEPT ![q] = 0]
      /\ sweeping' \subseteq sweeping \union {now}
  BY DEF Check
<1>2. now \in 1..LastTick /\ now \in 0..LastTick /\ now \in Nat
  BY <1>1, LimiterTyped DEF LimiterTypeOK
<1>3. writes' \in [Instances -> 0..(SweepEvery - 1)]
  <2> DEFINE count == (writes[i] + 1) % SweepEvery
  <2>1. count \in 0..(SweepEvery - 1)
    BY LimiterAssumption DEF LimiterTypeOK
  <2> HIDE DEF count
  <2>2. writes' = [writes EXCEPT ![i] = count]
    BY DEF Check, count
  <2> QED
    BY <2>1, <2>2 DEF LimiterTypeOK
<1>4. /\ counter'.updated = now /\ counter'.started \in {counter.started, now}
      /\ counter' \in [attempts : Nat, started : 0..LastTick, updated : 0..LastTick]
  <2>1. CASE counter.started = 0 \/ counter.started + WindowTicks <= now
    BY <1>1, <1>2, <2>1 DEF ConsumeRateLimit
  <2>2. CASE ~(counter.started = 0 \/ counter.started + WindowTicks <= now)
    <3> DEFINE n == OneMore(counter.attempts)
    <3>1. n \in Nat
      BY LimiterTyped DEF OneMore
    <3>2. counter' = [counter EXCEPT !.attempts = n, !.updated = now]
      BY <1>1, <2>2 DEF ConsumeRateLimit
    <3> HIDE DEF n, now
    <3> QED
      BY <1>2, <3>1, <3>2 DEF LimiterTypeOK
  <2> QED
    BY <2>1, <2>2
<1>5. letThrough' \in [1..LastTick -> Nat]
  <2>1. \/ letThrough' = letThrough
        \/ letThrough' = [t \in 1..LastTick |-> IF tick \in SpanFrom(t) THEN letThrough[t] + 1
                                                ELSE letThrough[t]]
    BY DEF Check
  <2> HIDE DEF SpanFrom
  <2> QED
    BY <2>1 DEF LimiterTypeOK
<1>6. sweeping' \subseteq 1..LastTick
  BY <1>1, <1>2 DEF LimiterTypeOK
<1>7. attempt' \in [Attempts -> 0..LastTick]
  BY <1>1, LimiterAssumption DEF LimiterTypeOK
<1>8. /\ lates' = IF now + 1 < tick THEN lates \union {tick} ELSE lates
      /\ lates' \subseteq 1..LastTick
  BY DEF Check, LimiterTypeOK
<1>9. LimiterTypeOK'
  BY <1>1, <1>3, <1>4, <1>5, <1>6, <1>7, <1>8 DEF LimiterTypeOK
<1> QED
  BY <1>1, <1>4, <1>8, <1>9

LEMMA CheckKeepsInv ==
    ASSUME LimiterInv, NEW q \in Attempts, NEW i \in Instances, Check(q, i)
    PROVE  LimiterInv'
<1> DEFINE now == attempt[q]
           span(t) == tick \in SpanFrom(t)
<1>0. LimiterTypeOK /\ OnTime /\ WindowOK /\ TickOK /\ SpansHold
  BY DEF LimiterInv
<1>1. /\ now # 0 /\ counter' = ConsumeRateLimit(now) /\ tick' = tick
      /\ attempt' = [attempt EXCEPT ![q] = 0]
  BY DEF Check
<1>2. now \in Ticks /\ now \in Nat /\ now <= tick
  BY <1>0, <1>1, LimiterTyped DEF LimiterTypeOK, OnTime, Ticks
<1>3. /\ LimiterTypeOK' /\ sweeping' \subseteq sweeping \union {now}
      /\ counter'.updated = now /\ counter'.started \in {counter.started, now}
      /\ lates' = IF now + 1 < tick THEN lates \union {tick} ELSE lates
  BY <1>0, CheckTyped
<1>4. \A t \in Ticks : span(t) <=> t <= tick /\ Current(t)
  BY <1>0, LimiterTyped DEF SpanFrom, Current
<1>5. \/ counter'.attempts > MaxAttempts /\ letThrough' = letThrough
      \/ /\ counter'.attempts <= MaxAttempts
         /\ letThrough' = [t \in Ticks |-> IF span(t) THEN letThrough[t] + 1 ELSE letThrough[t]]
  <2>1. counter'.attempts \in Nat
    BY <1>3 DEF LimiterTypeOK
  <2> QED
    BY <1>0, <2>1, LimiterTyped DEF Check, Ticks
<1>6. OnTime'
  <2>1. \A p \in Attempts : attempt'[p] = 0 \/ attempt'[p] = attempt[p]
    BY <1>0, <1>1 DEF LimiterTypeOK
  <2> QED
    BY <1>0, <1>1, <1>2, <1>3, <2>1, LimiterTyped DEF OnTime
<1>7. /\ LimiterTypeOK'
      /\ counter' \in [attempts : Nat, started : 0..LastTick, updated : 0..LastTick]
      /\ counter'.updated = now
  BY <1>3 DEF LimiterTypeOK
<1> DEFINE fresh == counter.started = 0 \/ counter.started + WindowTicks <= now
<1>8. /\ \A t \in Ticks : t > tick => letThrough'[t] = 0
      /\ \A t \in Ticks : ~Current(t) => letThrough'[t] = letThrough[t]
      /\ \A t \in Ticks : Clean(t)' => Clean(t)
  <2>1. letThrough' = letThrough
        \/ letThrough' = [t \in Ticks |-> IF span(t) THEN letThrough[t] + 1 ELSE letThrough[t]]
    BY <1>5
  <2> HIDE DEF span
  <2>2. \A t \in Ticks : letThrough'[t] = IF span(t) THEN letThrough'[t] ELSE letThrough[t]
    BY <2>1
  <2>3. \A t \in Ticks : t > tick => letThrough[t] = 0
    BY <1>0 DEF TickOK
  <2>4. \A t \in Ticks : ~Current(t) => letThrough'[t] = letThrough[t]
    BY <1>4, <2>2
  <2>5. \A t \in Ticks : t > tick => letThrough'[t] = 0
    <3>1. \A t \in Ticks : t > tick => ~(t <= tick)
      BY <1>0, LimiterTyped
    <3> QED
      BY <1>4, <2>2, <2>3, <3>1
  <2>6. \A t \in Ticks : Clean(t)' => Clean(t)
    BY <1>3 DEF Clean
  <2> QED
    BY <2>4, <2>5, <2>6
<1>9. /\ counter'.attempts >= 1
      /\ fresh => counter'.attempts = 1 /\ counter'.started = now /\ Used' = 1
      /\ ~fresh => /\ counter'.attempts = OneMore(counter.attempts)
                   /\ counter'.started = counter.started
                   /\ counter.started # 0 /\ now < counter.started + WindowTicks
                   /\ Used' <= MaxAttempts /\ Used' \in Nat /\ Used <= Used'
  <2>1. CASE fresh
    BY <1>1, <2>1, LimiterAssumption DEF ConsumeRateLimit, Used
  <2>2. CASE ~fresh
    <3>1. counter'.attempts = OneMore(counter.attempts) /\ counter'.started = counter.started
      BY <1>0, <1>1, <2>2 DEF ConsumeRateLimit, LimiterTypeOK
    <3>2. counter.started # 0 /\ now < counter.started + WindowTicks /\ counter.attempts >= 1
      BY <1>0, <1>2, <2>2, LimiterTyped DEF WindowOK
    <3> QED
      BY <1>0, <2>2, <3>1, <3>2, LimiterTyped DEF OneMore, Used
  <2> QED
    BY <2>1, <2>2
\* A late attempt: nothing is said of the spans it is in, and no other is
\* under way.
<1>10. CASE now + 1 < tick
  <2>1. tick \in lates'
    BY <1>3, <1>10
  <2>2. \A t \in Ticks : Current(t) /\ Clean(t)' => t > tick
    BY <1>0, <1>1, <2>1, LimiterTyped DEF Current, Clean
  <2>3. \A t \in Ticks : Current(t)' <=> Current(t)
    BY <1>1 DEF Current
  <2>4. SpansHold'
    <3> SUFFICES ASSUME NEW t \in Ticks, Clean(t)' PROVE letThrough'[t] <= 2 * MaxAttempts
      BY DEF SpansHold
    <3>1. CASE Current(t)
      BY <1>0, <1>8, <2>2, <3>1, LimiterTyped
    <3>2. CASE ~Current(t)
      BY <1>0, <1>8, <3>2 DEF SpansHold
    <3> QED
      BY <3>1, <3>2
  <2>5. WindowOK'
    <3>1. ASSUME NEW t \in Ticks, Current(t)', Clean(t)'
          PROVE  letThrough'[t] = 0 /\ Used' \in Nat
      <4>1. t > tick
        BY <2>2, <2>3, <3>1
      <4>2. counter'.attempts \in Nat
        BY <1>7
      <4>3. Used' \in Nat
        BY <4>2, LimiterAssumption DEF Used
      <4> QED
        BY <1>8, <4>1, <4>3
    <3>2. counter'.started <= tick
      BY <1>0, <1>2, <1>3 DEF OnTime
    <3> QED
      BY <1>0, <1>9, <2>1, <3>1, <3>2, LimiterTyped DEF WindowOK
  <2>6. TickOK'
    BY <1>1, <1>8, <2>1 DEF TickOK
  <2>7. counter'.started # 0
    BY <1>1, <1>9
  <2> QED
    BY <1>3, <1>6, <2>4, <2>5, <2>6, <2>7 DEF LimiterInv
<1>11. CASE tick <= now + 1 /\ fresh
  <2>0. lates' = lates
    BY <1>0, <1>2, <1>3, <1>11, LimiterTyped
  <2>1. counter'.attempts = 1 /\ counter'.started = now /\ Used' = 1
    BY <1>9, <1>11
  <2>2. \A t \in Ticks : letThrough'[t] = IF t <= tick /\ Current(t) THEN letThrough[t] + 1
                                                                     ELSE letThrough[t]
    BY <1>0, <1>4, <1>5, <2>1, LimiterTyped
  \* A new window: what is current came in the one before it.
  <2>3. \A t \in Ticks : Current(t) /\ Clean(t) => letThrough[t] <= MaxAttempts
    <3>1. CASE counter.started = 0
      BY <3>1 DEF LimiterInv
    <3>2. CASE counter.started # 0
      <4>1. \A t \in Ticks : Current(t) => t > counter.started
        BY <1>0, <1>2, <1>11, <3>2, LimiterTyped DEF Current
      <4> QED
        BY <1>0, <3>2, <4>1, LimiterTyped DEF WindowOK
    <3> QED
      BY <3>1, <3>2
  <2>4. \A t \in Ticks : t > now /\ Clean(t) => letThrough[t] = 0
    <3>1. now # tick /\ tick \notin lates => letThrough[tick] = 0
      BY <1>0, <1>2, <1>11, LimiterTyped DEF TickOK
    <3>2. Clean(tick) => tick \notin lates
      BY <1>0, LimiterTyped DEF Clean
    <3> QED
      BY <1>0, <1>2, <1>11, <3>1, <3>2, LimiterTyped DEF TickOK
  <2>5. WindowOK'
    <3>1. \A t \in Ticks : t > now /\ Clean(t) => letThrough'[t] <= 1
      BY <2>2, <2>4
    <3>2. \A t \in Ticks : Current(t) /\ Clean(t) => letThrough'[t] <= MaxAttempts + 1
      BY <1>0, <2>2, <2>3, LimiterTyped
    <3> QED
      BY <1>1, <1>2, <1>7, <2>0, <2>1, <3>1, <3>2 DEF WindowOK, Current, Clean
  <2>6. TickOK'
    BY <1>0, <1>1, <1>2, <1>7, <1>8, <1>11, <2>1, LimiterTyped DEF TickOK
  <2>7. SpansHold'
    BY <1>0, <2>0, <2>2, <2>3, LimiterTyped DEF SpansHold, Clean
  <2> QED
    BY <1>1, <1>3, <1>6, <2>1, <2>5, <2>6, <2>7 DEF LimiterInv
\* One more of the window under way.
<1>12. CASE tick <= now + 1 /\ ~fresh
  <2>0. lates' = lates
    BY <1>0, <1>2, <1>3, <1>12, LimiterTyped
  <2>1. /\ counter'.started = counter.started /\ counter.started # 0
        /\ now < counter.started + WindowTicks
        /\ Used' <= MaxAttempts /\ Used' \in Nat /\ Used <= Used'
    BY <1>9, <1>12
  <2>2. \/ Used' = Used /\ letThrough' = letThrough
        \/ Used' = Used + 1 /\ \A t \in Ticks :
              letThrough'[t] = IF t <= tick /\ Current(t) THEN letThrough[t] + 1 ELSE letThrough[t]
    BY <1>0, <1>4, <1>5, <1>9, <1>12, LimiterTyped DEF OneMore, Used
  <2>3. \A t \in Ticks : Current(t) /\ Clean(t) =>
            /\ t > counter.started => letThrough'[t] <= Used'
            /\ letThrough'[t] <= MaxAttempts + Used'
    BY <1>0, <2>1, <2>2, LimiterTyped DEF WindowOK
  <2>4. WindowOK'
    <3>1. counter'.started <= now + 1
      BY <1>0, <1>2, <1>12, <2>1, LimiterTyped DEF OnTime
    <3> QED
      BY <1>0, <1>1, <1>2, <1>7, <1>9, <2>0, <2>1, <2>3, <3>1, LimiterTyped
      DEF WindowOK, Current, Clean
  <2>5. TickOK'
    BY <1>0, <1>1, <1>2, <1>7, <1>8, <1>12, <2>1, LimiterTyped DEF TickOK
  <2>6. SpansHold'
    <3> SUFFICES ASSUME NEW t \in Ticks, Clean(t) PROVE letThrough'[t] <= 2 * MaxAttempts
      BY <2>0 DEF SpansHold, Clean
    <3>1. CASE Current(t)
      <4>1. letThrough'[t] <= MaxAttempts + Used'
        BY <2>3, <3>1
      <4>2. letThrough'[t] \in Nat
        BY <1>3 DEF LimiterTypeOK, Ticks
      <4> QED
        BY <2>1, <4>1, <4>2, LimiterAssumption
    <3>2. CASE ~Current(t)
      BY <1>0, <1>8, <3>2 DEF SpansHold
    <3> QED
      BY <3>1, <3>2
  <2> QED
    BY <1>1, <1>3, <1>6, <2>1, <2>4, <2>5, <2>6 DEF LimiterInv
<1> QED
  BY <1>0, <1>2, <1>10, <1>11, <1>12, LimiterTyped

LEMMA LimiterNextInv ==
    ASSUME LimiterInv, [LimiterNext]_limiterVars
    PROVE  LimiterInv'
<1>1. CASE UNCHANGED limiterVars
  BY <1>1 DEF limiterVars, LimiterInv, LimiterTypeOK, OnTime, WindowOK, TickOK, SpansHold,
     Used, Current, Clean
<1> QED
  BY <1>1, ArrivesKeepsInv, CheckKeepsInv, SweepKeepsInv, TickKeepsInv DEF LimiterNext

-----------------------------------------------------------------------------
(***************************************************************************)
(* A staff member.  Whoever is about to issue a session over a challenge   *)
(* spent it, and spending is one guarded statement: nobody else is, and    *)
(* nobody was.  Every statement that writes a hash or a secret writes both.*)
(***************************************************************************)
StaffOps == {"free", "invite", "enrol", "confirm", "permitted", "session", "fail",
             "signed_in", "options", "spend", "resolve", "revoke", "disable", "revoke_all",
             "register", "password_off", "password_on", "remove_key"}

StaffLocals == [op : StaffOps, on : Nat, key : SUBSET StaffKeys, failed : Nat]

StaffCallOK(k) ==
    /\ k.op = "enrol" => k.on \in StaffInvitations
    /\ k.op = "spend" => k.on \in StaffChallenges

Admitting(p, w) == staffCall[p].op = "session" /\ staffCall[p].on = w

AdmitsOnce(w) ==
    /\ admitted[w] \in {0, 1}
    /\ admitted[w] = 1 => staffChallenge[w] = "spent"
    /\ \A p \in Staffers : Admitting(p, w) => staffChallenge[w] = "spent" /\ admitted[w] = 0
    /\ \A p, q \in Staffers : Admitting(p, w) /\ Admitting(q, w) => p = q

StaffInv ==
    /\ StaffTypeOK
    /\ staffCall \in [Staffers -> StaffLocals] /\ admitted \in [StaffChallenges -> Nat]
    /\ \A p \in Staffers : StaffCallOK(staffCall[p])
    /\ \A w \in StaffChallenges : AdmitsOnce(w)
    /\ FactorsFromOneEnrolment

LEMMA StaffNumbers ==
    /\ \A i \in StaffInvitations : i \in Nat /\ i # 0
    /\ \A w \in StaffChallenges : w \in Nat /\ w # 0
    /\ \A x \in StaffSessions : x \in Nat /\ x # 0
<1>1. \A set \in {StaffInvitations, StaffChallenges, StaffSessions} :
        IsFiniteSet(set) /\ set = 1..Cardinality(set)
  BY StaffAssumption
<1>2. ASSUME NEW S, IsFiniteSet(S), S = 1..Cardinality(S)
      PROVE  \A n \in S : n \in Nat /\ n # 0
  <2>1. Cardinality(S) \in Nat
    BY <1>2, FS_CardinalityType
  <2> QED
    BY <1>2, <2>1
<1> QED
  BY <1>1, <1>2

LEMMA StaffReadIs ==
    ASSUME NEW op \in StaffOps, NEW on \in Nat, NEW ks \in SUBSET StaffKeys
    PROVE  /\ StaffRead(op, on, ks) \in StaffLocals
           /\ StaffRead(op, on, ks).op = op /\ StaffRead(op, on, ks).on = on
           /\ StaffRead(op, on, ks).key = ks
<1>1. AtRest \in StaffLocals
  BY DEF AtRest, StaffLocals, StaffOps
<1>2. ASSUME NEW r \in StaffLocals, NEW x, x = [r EXCEPT !.op = op, !.on = on, !.key = ks]
      PROVE  x \in StaffLocals /\ x.op = op /\ x.on = on /\ x.key = ks
  BY <1>2 DEF StaffLocals
<1> DEFINE x == StaffRead(op, on, ks)
<1>3. x = [AtRest EXCEPT !.op = op, !.on = on, !.key = ks]
  BY DEF StaffRead
<1> HIDE DEF x
<1>4. x \in StaffLocals /\ x.op = op /\ x.on = on /\ x.key = ks
  BY <1>1, <1>2, <1>3
<1> QED
  BY <1>4 DEF x

LEMMA AtRestIs == AtRest \in StaffLocals /\ AtRest.op = "free"
BY DEF AtRest, StaffLocals, StaffOps

\* A step that leaves challenges and admissions alone, by a request that is
\* not about to issue a session afterwards.
LEMMA StaffPasses ==
    ASSUME StaffInv, NEW p \in Staffers, NEW next \in StaffLocals,
           staffCall' = [staffCall EXCEPT ![p] = next],
           next.op # "session" \/ next.on = 0, StaffCallOK(next),
           StaffTypeOK', FactorsFromOneEnrolment', UNCHANGED <<staffChallenge, admitted>>
    PROVE  StaffInv'
<1>1. staffCall' \in [Staffers -> StaffLocals] /\ admitted' \in [StaffChallenges -> Nat]
  BY DEF StaffInv
<1>2. \A q \in Staffers : staffCall'[q] = IF q = p THEN next ELSE staffCall[q]
  BY DEF StaffInv
<1>3. \A q \in Staffers : StaffCallOK(staffCall'[q])
  BY <1>2 DEF StaffInv
<1>4. \A q \in Staffers : StaffCallOK(staffCall[q])'
  BY <1>3 DEF StaffCallOK
<1>5. \A q \in Staffers, w \in StaffChallenges : Admitting(q, w)' => q # p /\ Admitting(q, w)
  BY <1>2, StaffNumbers DEF Admitting
<1>6. ASSUME NEW w \in StaffChallenges PROVE AdmitsOnce(w)'
  <2>1. AdmitsOnce(w)
    BY DEF StaffInv
  <2> HIDE DEF Admitting
  <2> QED
    BY <1>5, <2>1 DEF AdmitsOnce
<1> QED
  BY <1>1, <1>4, <1>6 DEF StaffInv

LEMMA StaffReadsKeep ==
    ASSUME StaffInv, NEW p \in Staffers, NEW next \in StaffLocals, StaffReads(p, next),
           next.op # "session", StaffCallOK(next)
    PROVE  StaffInv'
<1>1. /\ UNCHANGED <<credential, staffInvite, staffKey, staffChallenge, staffSession, admitted>>
      /\ staffCall' = [staffCall EXCEPT ![p] = next]
  BY DEF StaffReads, StaffGoes, staffRows
<1>2. StaffTypeOK' /\ FactorsFromOneEnrolment'
  BY <1>1 DEF StaffInv, StaffTypeOK, FactorsFromOneEnrolment
<1> QED
  BY <1>1, <1>2, StaffPasses

LEMMA StaffBegins ==
    ASSUME StaffInv, NEW p \in Staffers, NEW op \in StaffOps, NEW on \in Nat,
           NEW ks \in SUBSET StaffKeys, StaffReads(p, StaffRead(op, on, ks)),
           op # "session", op = "enrol" => on \in StaffInvitations,
           op = "spend" => on \in StaffChallenges
    PROVE  StaffInv'
<1>1. /\ StaffRead(op, on, ks) \in StaffLocals
      /\ StaffRead(op, on, ks).op = op /\ StaffRead(op, on, ks).on = on
  BY StaffReadIs
<1> QED
  BY <1>1, StaffReadsKeep DEF StaffCallOK

LEMMA StaffCredentialIs ==
    ASSUME StaffInv
    PROVE  /\ credential \in [hash : StaffInvitations \union {0},
                              secret : StaffInvitations \union {0},
                              enrolled : BOOLEAN, disabled : BOOLEAN, passwordOff : BOOLEAN,
                              failed : Nat, locked : BOOLEAN]
           /\ credential.hash = credential.secret
BY DEF StaffInv, StaffTypeOK, FactorsFromOneEnrolment

\* A step that writes the credential, and perhaps the invitations.
LEMMA CredentialKeeps ==
    ASSUME StaffInv, NEW p \in Staffers, NEW next \in StaffLocals,
           staffCall' = [staffCall EXCEPT ![p] = next],
           next.op # "session" \/ next.on = 0, StaffCallOK(next),
           credential' \in [hash : StaffInvitations \union {0},
                            secret : StaffInvitations \union {0},
                            enrolled : BOOLEAN, disabled : BOOLEAN, passwordOff : BOOLEAN,
                            failed : Nat, locked : BOOLEAN],
           credential'.hash = credential'.secret,
           staffInvite' \in [StaffInvitations -> {"none", "sent", "accepted", "expired"}],
           UNCHANGED <<staffKey, staffChallenge, staffSession, admitted>>
    PROVE  StaffInv'
<1>1. StaffTypeOK'
  BY DEF StaffInv, StaffTypeOK
<1>2. FactorsFromOneEnrolment'
  BY DEF FactorsFromOneEnrolment
<1> QED
  BY <1>1, <1>2, StaffPasses

LEMMA StaffInitInv == StaffInit => StaffInv
<1> SUFFICES ASSUME StaffInit PROVE StaffInv
  OBVIOUS
<1>1. PICK enrolled \in BOOLEAN :
        credential = [hash |-> IF enrolled THEN 1 ELSE 0, secret |-> IF enrolled THEN 1 ELSE 0,
                      enrolled |-> enrolled, disabled |-> FALSE, passwordOff |-> FALSE,
                      failed |-> 0, locked |-> FALSE]
        /\ staffKey = [k \in StaffKeys |-> IF enrolled THEN "live" ELSE "none"]
  BY DEF StaffInit
<1>2. /\ staffInvite \in [StaffInvitations -> {"none", "sent", "accepted", "expired"}]
      /\ staffKey \in [StaffKeys -> {"none", "live", "removed"}]
      /\ staffChallenge \in [StaffChallenges -> {"none", "open", "spent"}]
      /\ staffSession \in [StaffSessions -> {"none", "live", "lapsed", "revoked"}]
      /\ admitted \in [StaffChallenges -> Nat] /\ \A w \in StaffChallenges : admitted[w] = 0
      /\ staffCall \in [Staffers -> StaffLocals] /\ \A p \in Staffers : staffCall[p].op = "free"
  BY <1>1, AtRestIs DEF StaffInit
<1>3. StaffTypeOK
  <2>1. 1 \in StaffInvitations
    BY StaffAssumption
  <2>2. CASE enrolled
    BY <1>1, <1>2, <2>1, <2>2 DEF StaffTypeOK
  <2>3. CASE ~enrolled
    BY <1>1, <1>2, <2>3 DEF StaffTypeOK
  <2> QED
    BY <2>2, <2>3
<1>4. FactorsFromOneEnrolment
  BY <1>1 DEF FactorsFromOneEnrolment
<1> QED
  BY <1>2, <1>3, <1>4 DEF StaffInv, StaffCallOK, AdmitsOnce, Admitting

\* The invitation and its enrolment.
LEMMA EnrolmentKeeps ==
    ASSUME StaffInv, NEW p \in Staffers,
           InviteStaff(p) \/ EnrolStaffFromInvitation(p) \/ ConfirmStaffEnrolment(p)
    PROVE  StaffInv'
<1>1. CASE \/ StaffReads(p, StaffRead("invite", 0, {}))
           \/ \E i \in StaffInvitations : StaffReads(p, StaffRead("enrol", i, {}))
           \/ StaffReads(p, StaffRead("confirm", 0, {}))
  <2>1. \A i \in StaffInvitations \union {0} : i \in Nat
    BY StaffNumbers
  <2> QED
    BY <1>1, <2>1, StaffBegins DEF StaffOps
<1>2. CASE /\ StaffIn(p, "invite")
           /\ \E i \in Unused(staffInvite) :
                staffInvite' = [j \in StaffInvitations |->
                    IF j = i THEN "sent"
                    ELSE IF staffInvite[j] = "sent" THEN "expired" ELSE staffInvite[j]]
           /\ credential' = [credential EXCEPT !.hash = 0, !.secret = 0,
                                               !.failed = 0, !.locked = FALSE]
           /\ StaffEnds(p) /\ StaffQuiet
           /\ UNCHANGED <<staffKey, staffChallenge, staffSession, admitted>>
  <2>1. staffInvite' \in [StaffInvitations -> {"none", "sent", "accepted", "expired"}]
    BY <1>2 DEF StaffInv, StaffTypeOK
  <2>2. /\ credential' \in [hash : StaffInvitations \union {0},
                            secret : StaffInvitations \union {0},
                            enrolled : BOOLEAN, disabled : BOOLEAN, passwordOff : BOOLEAN,
                            failed : Nat, locked : BOOLEAN]
        /\ credential'.hash = credential'.secret
    BY <1>2, StaffCredentialIs
  <2> QED
    BY <1>2, <2>1, <2>2, AtRestIs, CredentialKeeps DEF StaffEnds, StaffGoes, StaffCallOK
<1>3. CASE /\ StaffIn(p, "enrol")
           /\ staffInvite' = [staffInvite EXCEPT ![staffCall[p].on] = "accepted"]
           /\ credential' = [credential EXCEPT !.hash = staffCall[p].on,
                                 !.secret = staffCall[p].on, !.failed = 0, !.locked = FALSE]
           /\ StaffEnds(p) /\ StaffQuiet
           /\ UNCHANGED <<staffKey, staffChallenge, staffSession, admitted>>
  <2>1. PICK i \in StaffInvitations : i = staffCall[p].on
    BY <1>3 DEF StaffIn, StaffInv, StaffCallOK
  <2>2. staffInvite' \in [StaffInvitations -> {"none", "sent", "accepted", "expired"}]
    BY <1>3, <2>1 DEF StaffInv, StaffTypeOK
  <2>3. credential' = [credential EXCEPT !.hash = i, !.secret = i, !.failed = 0,
                                         !.locked = FALSE]
    BY <1>3, <2>1
  <2>4. /\ credential' \in [hash : StaffInvitations \union {0},
                            secret : StaffInvitations \union {0},
                            enrolled : BOOLEAN, disabled : BOOLEAN, passwordOff : BOOLEAN,
                            failed : Nat, locked : BOOLEAN]
        /\ credential'.hash = credential'.secret
    BY <2>3, StaffCredentialIs
  <2> QED
    BY <1>3, <2>2, <2>4, AtRestIs, CredentialKeeps DEF StaffEnds, StaffGoes, StaffCallOK
<1>4. CASE /\ StaffIn(p, "confirm")
           /\ WritesCredential([credential EXCEPT !.enrolled = TRUE]) /\ StaffEnds(p)
  <2>1. /\ credential' \in [hash : StaffInvitations \union {0},
                            secret : StaffInvitations \union {0},
                            enrolled : BOOLEAN, disabled : BOOLEAN, passwordOff : BOOLEAN,
                            failed : Nat, locked : BOOLEAN]
        /\ credential'.hash = credential'.secret
    BY <1>4, StaffCredentialIs DEF WritesCredential
  <2>2. staffInvite' \in [StaffInvitations -> {"none", "sent", "accepted", "expired"}]
    BY <1>4 DEF StaffInv, StaffTypeOK, WritesCredential
  <2> QED
    BY <1>4, <2>1, <2>2, AtRestIs, CredentialKeeps
       DEF StaffEnds, StaffGoes, StaffCallOK, WritesCredential
<1> QED
  BY <1>1, <1>2, <1>3, <1>4
     DEF InviteStaff, EnrolStaffFromInvitation, ConfirmStaffEnrolment

\* A step after which a request, still or again without a challenge to admit
\* by, has written one flag or count of the credential.
LEMMA FlagKeeps ==
    ASSUME StaffInv, NEW p \in Staffers, NEW next \in StaffLocals,
           staffCall' = [staffCall EXCEPT ![p] = next],
           next.op # "session", StaffCallOK(next), NEW row, WritesCredential(row),
           \/ \E b \in BOOLEAN : \/ row = [credential EXCEPT !.disabled = b]
                                 \/ row = [credential EXCEPT !.passwordOff = b]
           \/ \E n \in Nat, b \in BOOLEAN : row = [credential EXCEPT !.failed = n, !.locked = b]
    PROVE  StaffInv'
<1>1. /\ credential' \in [hash : StaffInvitations \union {0},
                          secret : StaffInvitations \union {0},
                          enrolled : BOOLEAN, disabled : BOOLEAN, passwordOff : BOOLEAN,
                          failed : Nat, locked : BOOLEAN]
      /\ credential'.hash = credential'.secret
  BY StaffCredentialIs DEF WritesCredential
<1>2. staffInvite' \in [StaffInvitations -> {"none", "sent", "accepted", "expired"}]
  BY DEF StaffInv, StaffTypeOK, WritesCredential
<1> QED
  BY <1>1, <1>2, CredentialKeeps DEF WritesCredential

\* A step after which only sessions or keys are other than they were.
LEMMA StaffQuietStep ==
    ASSUME StaffInv, NEW p \in Staffers, NEW next \in StaffLocals,
           staffCall' = [staffCall EXCEPT ![p] = next],
           next.op # "session" \/ next.on = 0, StaffCallOK(next),
           staffKey' \in [StaffKeys -> {"none", "live", "removed"}],
           staffSession' \in [StaffSessions -> {"none", "live", "lapsed", "revoked"}],
           UNCHANGED <<credential, staffInvite, staffChallenge, admitted>>
    PROVE  StaffInv'
<1>1. StaffTypeOK' /\ FactorsFromOneEnrolment'
  BY DEF StaffInv, StaffTypeOK, FactorsFromOneEnrolment
<1> QED
  BY <1>1, StaffPasses

LEMMA StaffTables ==
    ASSUME StaffInv
    PROVE  /\ staffKey \in [StaffKeys -> {"none", "live", "removed"}]
           /\ staffSession \in [StaffSessions -> {"none", "live", "lapsed", "revoked"}]
           /\ staffInvite \in [StaffInvitations -> {"none", "sent", "accepted", "expired"}]
           /\ staffChallenge \in [StaffChallenges -> {"none", "open", "spent"}]
           /\ staffCall \in [Staffers -> StaffLocals] /\ admitted \in [StaffChallenges -> Nat]
           /\ \A p \in Staffers : staffCall[p].key \subseteq StaffKeys
                                  /\ staffCall[p].on \in Nat /\ staffCall[p].failed \in Nat
BY DEF StaffInv, StaffTypeOK, StaffLocals

\* Signing in by password: a session that no challenge admits.
LEMMA PasswordSignInKeeps ==
    ASSUME StaffInv, NEW p \in Staffers,
           AssertPasswordSignInPermitted(p) \/ AuthenticateStaff(p) \/ RecordSignIn(p)
    PROVE  StaffInv'
<1>1. CASE StaffReads(p, StaffRead("permitted", 0, {}))
  <2>1. "permitted" \in StaffOps /\ "permitted" \notin {"session", "enrol", "spend"}
    BY DEF StaffOps
  <2>2. 0 \in Nat /\ {} \in SUBSET StaffKeys
    OBVIOUS
  <2> QED
    BY <1>1, <2>1, <2>2, StaffBegins
<1>2. CASE /\ \/ StaffGoes(p, StaffRead("session", 0, {}))
              \/ StaffGoes(p, [StaffRead("fail", 0, {}) EXCEPT !.failed = credential.failed])
              \/ StaffEnds(p)
           /\ StaffQuiet /\ UNCHANGED <<staffRows, admitted>>
  <2>1. /\ StaffRead("session", 0, {}) \in StaffLocals
        /\ StaffRead("session", 0, {}).op = "session" /\ StaffRead("session", 0, {}).on = 0
        /\ StaffRead("fail", 0, {}) \in StaffLocals /\ StaffRead("fail", 0, {}).op = "fail"
    <3>1. {"session", "fail"} \subseteq StaffOps /\ 0 \in Nat /\ {} \in SUBSET StaffKeys
      BY DEF StaffOps
    <3>2. ASSUME NEW op \in StaffOps
          PROVE  /\ StaffRead(op, 0, {}) \in StaffLocals
                 /\ StaffRead(op, 0, {}).op = op /\ StaffRead(op, 0, {}).on = 0
      BY <3>1, StaffReadIs
    <3> QED
      BY <3>1, <3>2
  <2>2. ASSUME NEW r \in StaffLocals, r.op = "fail",
               NEW x, x = [r EXCEPT !.failed = credential.failed]
        PROVE  x \in StaffLocals /\ x.op = "fail"
    BY <2>2, StaffCredentialIs DEF StaffLocals
  <2>3. PICK next \in StaffLocals :
          /\ staffCall' = [staffCall EXCEPT ![p] = next]
          /\ \/ next.op \in {"fail", "free"}
             \/ next.op = "session" /\ next.on = 0
    <3> DEFINE failing == [StaffRead("fail", 0, {}) EXCEPT !.failed = credential.failed]
    <3>1. failing \in StaffLocals /\ failing.op = "fail"
      BY <2>1, <2>2
    <3> HIDE DEF failing
    <3>2. \/ staffCall' = [staffCall EXCEPT ![p] = StaffRead("session", 0, {})]
          \/ staffCall' = [staffCall EXCEPT ![p] = failing]
          \/ staffCall' = [staffCall EXCEPT ![p] = AtRest]
      BY <1>2 DEF StaffGoes, StaffEnds, failing
    <3> QED
      BY <2>1, <3>1, <3>2, AtRestIs
  <2> QED
    BY <1>2, <2>3, StaffTables, StaffQuietStep DEF staffRows, StaffCallOK
<1>3. CASE /\ StaffIn(p, "fail")
           /\ LET attempts == staffCall[p].failed + 1
                  locks    == attempts >= StaffMaxFailed
              IN  WritesCredential([credential EXCEPT !.failed = IF locks THEN 0 ELSE attempts,
                                                      !.locked = @ \/ locks])
           /\ StaffEnds(p)
  <2> DEFINE attempts == staffCall[p].failed + 1
             locks    == attempts >= StaffMaxFailed
             n        == IF locks THEN 0 ELSE attempts
             b        == credential.locked \/ locks
             row      == [credential EXCEPT !.failed = n, !.locked = b]
  <2>1. n \in Nat
    BY StaffTables
  <2>2. b \in BOOLEAN
    BY Zenon
  <2>3. WritesCredential(row)
    BY <1>3
  <2>4. staffCall' = [staffCall EXCEPT ![p] = AtRest]
    BY <1>3 DEF StaffEnds, StaffGoes
  <2> HIDE DEF n, b
  <2>5. \E m \in Nat, c \in BOOLEAN : row = [credential EXCEPT !.failed = m, !.locked = c]
    BY <2>1, <2>2
  <2> HIDE DEF row
  <2> QED
    BY <2>3, <2>4, <2>5, AtRestIs, FlagKeeps DEF StaffCallOK
<1>4. CASE /\ StaffIn(p, "signed_in")
           /\ WritesCredential([credential EXCEPT !.failed = 0, !.locked = FALSE])
           /\ StaffEnds(p)
  <2> DEFINE row == [credential EXCEPT !.failed = 0, !.locked = FALSE]
  <2>1. \E m \in Nat, c \in BOOLEAN : row = [credential EXCEPT !.failed = m, !.locked = c]
    OBVIOUS
  <2>2. WritesCredential(row) /\ staffCall' = [staffCall EXCEPT ![p] = AtRest]
    BY <1>4 DEF StaffEnds, StaffGoes
  <2> HIDE DEF row
  <2> QED
    BY <2>1, <2>2, AtRestIs, FlagKeeps DEF StaffCallOK
<1> QED
  BY <1>1, <1>2, <1>3, <1>4
     DEF AssertPasswordSignInPermitted, AuthenticateStaff, RecordSignIn

\* The session itself: the one admission over the challenge that was spent.
LEMMA IssueKeeps ==
    ASSUME StaffInv, NEW p \in Staffers, IssueStaffSession(p)
    PROVE  StaffInv'
<1> DEFINE w == staffCall[p].on
           next == StaffRead("signed_in", 0, {})
<1>1. next \in StaffLocals /\ next.op = "signed_in"
  BY StaffReadIs DEF StaffOps
<1>2. /\ staffCall' = [staffCall EXCEPT ![p] = next]
      /\ admitted' = [v \in StaffChallenges |-> IF v = w THEN admitted[v] + 1 ELSE admitted[v]]
      /\ UNCHANGED <<credential, staffInvite, staffKey, staffChallenge>>
      /\ staffCall[p].op = "session"
  BY DEF IssueStaffSession, StaffGoes, StaffIn
<1>3. staffSession' \in [StaffSessions -> {"none", "live", "lapsed", "revoked"}]
  BY StaffTables DEF IssueStaffSession
<1> HIDE DEF next
<1>4. staffCall' \in [Staffers -> StaffLocals] /\ admitted' \in [StaffChallenges -> Nat]
  BY <1>1, <1>2, StaffTables
<1>5. \A q \in Staffers : staffCall'[q] = IF q = p THEN next ELSE staffCall[q]
  BY <1>2, StaffTables
<1>6. \A q \in Staffers : StaffCallOK(staffCall[q])'
  BY <1>1, <1>5 DEF StaffInv, StaffCallOK
<1>7. \A q \in Staffers, v \in StaffChallenges : Admitting(q, v)' => q # p /\ Admitting(q, v)
  BY <1>1, <1>5 DEF Admitting
<1>8. ASSUME NEW v \in StaffChallenges PROVE AdmitsOnce(v)'
  <2>1. AdmitsOnce(v)
    BY DEF StaffInv
  <2>2. CASE v = w
    <3>1. Admitting(p, v)
      BY <1>2, <2>2 DEF Admitting
    <3>2. admitted[v] = 0 /\ staffChallenge[v] = "spent" /\ admitted'[v] = 1
      BY <1>2, <2>1, <2>2, <3>1 DEF AdmitsOnce
    <3>3. \A q \in Staffers : ~Admitting(q, v)'
      BY <1>7, <2>1, <3>1 DEF AdmitsOnce
    <3> QED
      BY <1>2, <3>2, <3>3 DEF AdmitsOnce
  <2>3. CASE v # w
    <3>1. admitted'[v] = admitted[v]
      BY <1>2, <2>3
    <3> QED
      BY <1>2, <1>7, <2>1, <3>1 DEF AdmitsOnce
  <2> QED
    BY <2>2, <2>3
<1>9. StaffTypeOK' /\ FactorsFromOneEnrolment'
  BY <1>2, <1>3 DEF StaffInv, StaffTypeOK, FactorsFromOneEnrolment
<1> QED
  BY <1>4, <1>6, <1>8, <1>9 DEF StaffInv

\* A challenge is spent by whoever finds it open, so by one request.
LEMMA SpendKeeps ==
    ASSUME StaffInv, NEW p \in Staffers, SpendStaffChallenge(p)
    PROVE  StaffInv'
<1>1. PICK w \in StaffChallenges : w = staffCall[p].on
  BY DEF SpendStaffChallenge, StaffIn, StaffInv, StaffCallOK
<1>2. CASE staffChallenge[w] # "open"
  <2>1. staffCall' = [staffCall EXCEPT ![p] = AtRest]
        /\ UNCHANGED <<staffRows, admitted>>
    BY <1>1, <1>2 DEF SpendStaffChallenge, StaffEnds, StaffGoes, staffRows
  <2> QED
    BY <2>1, AtRestIs, StaffTables, StaffQuietStep DEF staffRows, StaffCallOK
<1>3. CASE staffChallenge[w] = "open"
  <2> DEFINE next == StaffRead("session", w, {})
  <2>1. next \in StaffLocals /\ next.op = "session" /\ next.on = w
    BY StaffReadIs, StaffNumbers DEF StaffOps
  <2>2. /\ staffCall' = [staffCall EXCEPT ![p] = next]
        /\ staffChallenge' = [staffChallenge EXCEPT ![w] = "spent"]
        /\ UNCHANGED <<credential, staffInvite, staffKey, staffSession, admitted>>
    BY <1>1, <1>3 DEF SpendStaffChallenge, StaffGoes
  <2> HIDE DEF next
  <2>3. staffCall' \in [Staffers -> StaffLocals] /\ admitted' \in [StaffChallenges -> Nat]
    BY <2>1, <2>2, StaffTables
  <2>4. \A q \in Staffers : staffCall'[q] = IF q = p THEN next ELSE staffCall[q]
    BY <2>2, StaffTables
  <2>5. \A q \in Staffers : StaffCallOK(staffCall[q])'
    BY <2>1, <2>4 DEF StaffInv, StaffCallOK
  <2>6. \A q \in Staffers, v \in StaffChallenges :
          Admitting(q, v)' <=> \/ q = p /\ v = w
                               \/ q # p /\ Admitting(q, v)
    BY <2>1, <2>4 DEF Admitting
  <2>7. /\ staffChallenge' \in [StaffChallenges -> {"none", "open", "spent"}]
        /\ \A v \in StaffChallenges :
             staffChallenge'[v] = IF v = w THEN "spent" ELSE staffChallenge[v]
    BY <2>2, StaffTables
  <2>8. ASSUME NEW v \in StaffChallenges PROVE AdmitsOnce(v)'
    <3>1. AdmitsOnce(v)
      BY DEF StaffInv
    <3>2. CASE v = w
      <4>1. admitted[v] = 0 /\ \A q \in Staffers : ~Admitting(q, v)
        BY <1>3, <3>1, <3>2 DEF AdmitsOnce
      <4> QED
        BY <2>2, <2>6, <2>7, <3>2, <4>1 DEF AdmitsOnce
    <3>3. CASE v # w
      BY <2>2, <2>6, <2>7, <3>1, <3>3 DEF AdmitsOnce
    <3> QED
      BY <3>2, <3>3
  <2>9. StaffTypeOK' /\ FactorsFromOneEnrolment'
    BY <2>2, <2>7 DEF StaffInv, StaffTypeOK, FactorsFromOneEnrolment
  <2> QED
    BY <2>3, <2>5, <2>8, <2>9 DEF StaffInv
<1> QED
  BY <1>2, <1>3

\* Asking for a challenge and presenting one: an open challenge becomes another.
LEMMA ChallengeKeeps ==
    ASSUME StaffInv, NEW p \in Staffers,
           BeginStaffPasskeySignIn(p) \/ CompleteStaffPasskeySignIn(p)
    PROVE  StaffInv'
<1>1. CASE StaffReads(p, StaffRead("options", 0, {}))
  BY <1>1, StaffBegins DEF StaffOps
<1>2. CASE CompleteStaffPasskeySignIn(p)
  BY <1>2, StaffBegins, StaffNumbers DEF StaffOps, CompleteStaffPasskeySignIn
<1>3. CASE /\ StaffIn(p, "options")
           /\ \E w \in Unused(staffChallenge) :
                staffChallenge' = [v \in StaffChallenges |->
                    IF v = w THEN "open"
                    ELSE IF staffChallenge[v] = "open" THEN "spent" ELSE staffChallenge[v]]
           /\ StaffEnds(p) /\ StaffQuiet
           /\ UNCHANGED <<credential, staffInvite, staffKey, staffSession, admitted>>
  <2>1. PICK w \in Unused(staffChallenge) :
          staffChallenge' = [v \in StaffChallenges |->
              IF v = w THEN "open"
              ELSE IF staffChallenge[v] = "open" THEN "spent" ELSE staffChallenge[v]]
    BY <1>3
  <2>2. w \in StaffChallenges /\ staffChallenge[w] = "none"
    BY StaffTables DEF Unused
  <2>3. /\ staffChallenge' \in [StaffChallenges -> {"none", "open", "spent"}]
        /\ \A v \in StaffChallenges :
             staffChallenge[v] = "spent" => staffChallenge'[v] = "spent"
    BY <2>1, <2>2, StaffTables
  <2>4. staffCall' = [staffCall EXCEPT ![p] = AtRest]
        /\ UNCHANGED <<credential, staffInvite, staffKey, staffSession, admitted>>
    BY <1>3 DEF StaffEnds, StaffGoes
  <2>5. staffCall' \in [Staffers -> StaffLocals] /\ admitted' \in [StaffChallenges -> Nat]
    BY <2>4, AtRestIs, StaffTables
  <2>6. \A q \in Staffers : staffCall'[q] = IF q = p THEN AtRest ELSE staffCall[q]
    BY <2>4, StaffTables
  <2>7. \A q \in Staffers : StaffCallOK(staffCall[q])'
    BY <2>6, AtRestIs DEF StaffInv, StaffCallOK
  <2>8. \A q \in Staffers, v \in StaffChallenges : Admitting(q, v)' => Admitting(q, v)
    BY <2>6, AtRestIs DEF Admitting
  <2>9. ASSUME NEW v \in StaffChallenges PROVE AdmitsOnce(v)'
    <3>1. AdmitsOnce(v)
      BY DEF StaffInv
    <3> QED
      BY <2>3, <2>4, <2>8, <3>1 DEF AdmitsOnce
  <2>10. StaffTypeOK' /\ FactorsFromOneEnrolment'
    BY <2>3, <2>4 DEF StaffInv, StaffTypeOK, FactorsFromOneEnrolment
  <2> QED
    BY <2>5, <2>7, <2>9, <2>10 DEF StaffInv
<1> QED
  BY <1>1, <1>2, <1>3 DEF BeginStaffPasskeySignIn

LEMMA StaffSessionsKeep ==
    ASSUME StaffInv, NEW p \in Staffers,
           ResolveStaffSession(p) \/ RevokeStaffSession(p) \/ DisableStaffCredential(p)
    PROVE  StaffInv'
<1>1. CASE \/ \E s \in StaffSessions : \/ StaffReads(p, StaffRead("resolve", s, {}))
                                       \/ StaffReads(p, StaffRead("revoke", s, {}))
           \/ StaffReads(p, StaffRead("disable", 0, {}))
  BY <1>1, StaffBegins, StaffNumbers DEF StaffOps
<1>2. CASE StaffIn(p, "resolve") /\ StaffEnds(p) /\ StaffQuiet
           /\ UNCHANGED <<staffRows, admitted>>
  BY <1>2, AtRestIs, StaffTables, StaffQuietStep DEF staffRows, StaffCallOK, StaffEnds, StaffGoes
<1>3. CASE /\ \/ staffSession' = [staffSession EXCEPT ![staffCall[p].on] = "revoked"]
              \/ staffSession' = [s \in StaffSessions |->
                    IF staffSession[s] \in {"live", "lapsed"} THEN "revoked"
                    ELSE staffSession[s]]
           /\ StaffEnds(p) /\ StaffQuiet
           /\ UNCHANGED <<credential, staffInvite, staffKey, staffChallenge, admitted>>
  <2>1. staffSession' \in [StaffSessions -> {"none", "live", "lapsed", "revoked"}]
    BY <1>3, StaffTables
  <2> QED
    BY <1>3, <2>1, AtRestIs, StaffTables, StaffQuietStep DEF StaffCallOK, StaffEnds, StaffGoes
<1>4. CASE /\ WritesCredential([credential EXCEPT !.disabled = TRUE])
           /\ StaffGoes(p, StaffRead("revoke_all", 0, {}))
  <2> DEFINE row  == [credential EXCEPT !.disabled = TRUE]
             next == StaffRead("revoke_all", 0, {})
  <2>1. next \in StaffLocals /\ next.op = "revoke_all"
    BY StaffReadIs DEF StaffOps
  <2>2. \E b \in BOOLEAN : row = [credential EXCEPT !.disabled = b]
    OBVIOUS
  <2>3. WritesCredential(row) /\ staffCall' = [staffCall EXCEPT ![p] = next]
    BY <1>4 DEF StaffGoes
  <2> HIDE DEF row, next
  <2> QED
    BY <2>1, <2>2, <2>3, FlagKeeps DEF StaffCallOK
<1> QED
  BY <1>1, <1>2, <1>3, <1>4
     DEF ResolveStaffSession, RevokeStaffSession, DisableStaffCredential

LEMMA KeysKeep ==
    ASSUME StaffInv, NEW p \in Staffers,
           \/ CompleteStaffKeyRegistration(p) \/ RemoveStaffKey(p)
           \/ DisableStaffPasswordSignIn(p)   \/ RestoreStaffPasswordSignIn(p)
    PROVE  StaffInv'
<1>1. CASE \/ \E k \in StaffKeys : \/ StaffReads(p, StaffRead("register", 0, {k}))
                                   \/ StaffReads(p, StaffRead("remove_key", 0, {k}))
           \/ StaffReads(p, StaffRead("password_off", 0, {}))
           \/ StaffReads(p, StaffRead("password_on", 0, {}))
  <2>1. ASSUME NEW op \in {"register", "remove_key", "password_off", "password_on"},
               NEW ks \in SUBSET StaffKeys, StaffReads(p, StaffRead(op, 0, ks))
        PROVE  StaffInv'
    BY <2>1, StaffBegins DEF StaffOps
  <2>2. \A k \in StaffKeys : {k} \in SUBSET StaffKeys
    OBVIOUS
  <2>3. ASSUME NEW k \in StaffKeys,
               \/ StaffReads(p, StaffRead("register", 0, {k}))
               \/ StaffReads(p, StaffRead("remove_key", 0, {k}))
        PROVE  StaffInv'
    BY <2>1, <2>2, <2>3
  <2>4. {} \in SUBSET StaffKeys
    OBVIOUS
  <2>5. ASSUME \/ StaffReads(p, StaffRead("password_off", 0, {}))
               \/ StaffReads(p, StaffRead("password_on", 0, {}))
        PROVE  StaffInv'
    BY <2>1, <2>4, <2>5
  <2> QED
    BY <1>1, <2>3, <2>5
<1>2. CASE TurnKeys(p, staffCall[p].key, "live") \/ TurnKeys(p, staffCall[p].key, "removed")
  <2>1. staffKey' \in [StaffKeys -> {"none", "live", "removed"}]
    BY <1>2, StaffTables DEF TurnKeys
  <2> QED
    BY <1>2, <2>1, AtRestIs, StaffTables, StaffQuietStep
       DEF TurnKeys, StaffCallOK, StaffEnds, StaffGoes
<1>3. CASE \E b \in BOOLEAN : /\ WritesCredential([credential EXCEPT !.passwordOff = b])
                              /\ StaffEnds(p)
  <2>1. PICK b \in BOOLEAN : /\ WritesCredential([credential EXCEPT !.passwordOff = b])
                             /\ StaffEnds(p)
    BY <1>3
  <2> DEFINE row == [credential EXCEPT !.passwordOff = b]
  <2>2. \E c \in BOOLEAN : row = [credential EXCEPT !.passwordOff = c]
    OBVIOUS
  <2>3. WritesCredential(row) /\ staffCall' = [staffCall EXCEPT ![p] = AtRest]
    BY <2>1 DEF StaffEnds, StaffGoes
  <2> HIDE DEF row
  <2> QED
    BY <2>2, <2>3, AtRestIs, FlagKeeps DEF StaffCallOK
<1> QED
  BY <1>1, <1>2, <1>3
     DEF CompleteStaffKeyRegistration, RemoveStaffKey, DisableStaffPasswordSignIn,
         RestoreStaffPasswordSignIn, LiveKeys

LEMMA StaffTimeKeeps ==
    ASSUME StaffInv, StaffTime \/ UNCHANGED staffVars
    PROVE  StaffInv'
<1>1. UNCHANGED <<staffKey, staffChallenge, staffCall, admitted>>
  BY DEF StaffTime, staffVars, staffRows
<1>2. /\ staffInvite' \in [StaffInvitations -> {"none", "sent", "accepted", "expired"}]
      /\ staffSession' \in [StaffSessions -> {"none", "live", "lapsed", "revoked"}]
  BY StaffTables DEF StaffTime, staffVars, staffRows
<1>3. /\ credential' \in [hash : StaffInvitations \union {0},
                          secret : StaffInvitations \union {0},
                          enrolled : BOOLEAN, disabled : BOOLEAN, passwordOff : BOOLEAN,
                          failed : Nat, locked : BOOLEAN]
      /\ credential'.hash = credential'.secret
  BY StaffCredentialIs DEF StaffTime, staffVars, staffRows
<1>4. StaffTypeOK' /\ FactorsFromOneEnrolment'
  BY <1>1, <1>2, <1>3 DEF StaffInv, StaffTypeOK, FactorsFromOneEnrolment
<1>5. \A w \in StaffChallenges : AdmitsOnce(w)'
  BY <1>1 DEF StaffInv, AdmitsOnce, Admitting
<1> QED
  BY <1>1, <1>4, <1>5 DEF StaffInv, StaffCallOK

LEMMA StaffNextInv ==
    ASSUME StaffInv, [StaffNext]_staffVars
    PROVE  StaffInv'
<1>1. ASSUME NEW p \in Staffers, StaffCallDies(p) PROVE StaffInv'
  BY <1>1, AtRestIs, StaffTables, StaffQuietStep
     DEF StaffCallDies, staffRows, StaffCallOK, StaffEnds, StaffGoes
<1> QED
  BY <1>1, EnrolmentKeeps, PasswordSignInKeeps, IssueKeeps, SpendKeeps, ChallengeKeeps,
     StaffSessionsKeep, KeysKeep, StaffTimeKeeps DEF StaffNext

\* What a step makes of a request: one that had begun goes on or ends, and one
\* that begins has passed its checks.
StaffMove(p) ==
    \/ staffCall[p].op # "free" /\ \E next : StaffGoes(p, next)
    \/ \E op \in StaffOps, on \in Nat, ks \in SUBSET StaffKeys :
          /\ StaffReads(p, StaffRead(op, on, ks))
          /\ op = "resolve" => ~credential.disabled

LEMMA StaffMoves ==
    ASSUME StaffInv, NEW p \in Staffers,
           \/ InviteStaff(p)         \/ EnrolStaffFromInvitation(p) \/ ConfirmStaffEnrolment(p)
           \/ AssertPasswordSignInPermitted(p) \/ AuthenticateStaff(p)
           \/ IssueStaffSession(p)   \/ RecordSignIn(p)
           \/ BeginStaffPasskeySignIn(p) \/ CompleteStaffPasskeySignIn(p)
           \/ SpendStaffChallenge(p) \/ ResolveStaffSession(p)
           \/ RevokeStaffSession(p)  \/ DisableStaffCredential(p)
           \/ CompleteStaffKeyRegistration(p) \/ DisableStaffPasswordSignIn(p)
           \/ RestoreStaffPasswordSignIn(p)   \/ RemoveStaffKey(p)
           \/ StaffCallDies(p)
    PROVE  StaffMove(p)
<1>1. ASSUME NEW op \in StaffOps \ {"resolve"}, NEW on \in Nat, NEW ks \in SUBSET StaffKeys,
             StaffReads(p, StaffRead(op, on, ks))
      PROVE  StaffMove(p)
  BY <1>1 DEF StaffMove
<1>2. ASSUME staffCall[p].op # "free", NEW next, StaffGoes(p, next) PROVE StaffMove(p)
  BY <1>2 DEF StaffMove
<1>3. ASSUME NEW op \in StaffOps \ {"free"}, StaffIn(p, op), NEW next, StaffGoes(p, next)
      PROVE  StaffMove(p)
  BY <1>2, <1>3 DEF StaffIn
<1>4. ASSUME NEW s \in StaffSessions, InGoodStanding,
             StaffReads(p, StaffRead("resolve", s, {}))
      PROVE  StaffMove(p)
  <2>1. s \in Nat /\ "resolve" \in StaffOps /\ {} \in SUBSET StaffKeys
    BY StaffNumbers DEF StaffOps
  <2> QED
    BY <1>4, <2>1 DEF StaffMove, InGoodStanding
<1>5. /\ \A k \in StaffKeys : {k} \in SUBSET StaffKeys
      /\ {} \in SUBSET StaffKeys /\ 0 \in Nat
  OBVIOUS
<1>6. CASE InviteStaff(p) \/ EnrolStaffFromInvitation(p) \/ ConfirmStaffEnrolment(p)
  BY <1>6, <1>1, <1>3, <1>5, StaffNumbers
     DEF InviteStaff, EnrolStaffFromInvitation, ConfirmStaffEnrolment, StaffOps, StaffEnds
<1>7. CASE AssertPasswordSignInPermitted(p) \/ AuthenticateStaff(p)
  BY <1>7, <1>1, <1>3, <1>5
     DEF AssertPasswordSignInPermitted, AuthenticateStaff, StaffOps, StaffEnds
<1>8. CASE IssueStaffSession(p) \/ RecordSignIn(p) \/ SpendStaffChallenge(p)
  BY <1>8, <1>3 DEF IssueStaffSession, RecordSignIn, SpendStaffChallenge, StaffOps, StaffEnds
<1>9. CASE BeginStaffPasskeySignIn(p) \/ CompleteStaffPasskeySignIn(p)
  BY <1>9, <1>1, <1>3, <1>5, StaffNumbers
     DEF BeginStaffPasskeySignIn, CompleteStaffPasskeySignIn, StaffOps, StaffEnds
<1>10. CASE ResolveStaffSession(p)
  BY <1>10, <1>3, <1>4 DEF ResolveStaffSession, StaffOps, StaffEnds
<1>11. CASE RevokeStaffSession(p) \/ DisableStaffCredential(p)
  BY <1>11, <1>1, <1>3, <1>5, StaffNumbers
     DEF RevokeStaffSession, DisableStaffCredential, StaffOps, StaffEnds
<1>12. CASE DisableStaffPasswordSignIn(p) \/ RestoreStaffPasswordSignIn(p)
  BY <1>12, <1>1, <1>3, <1>5
     DEF DisableStaffPasswordSignIn, RestoreStaffPasswordSignIn, StaffOps, StaffEnds
<1>13. CASE CompleteStaffKeyRegistration(p) \/ RemoveStaffKey(p)
  <2>1. \/ \E k \in StaffKeys : \/ StaffReads(p, StaffRead("register", 0, {k}))
                                \/ StaffReads(p, StaffRead("remove_key", 0, {k}))
        \/ \E op \in {"register", "remove_key"} : StaffIn(p, op) /\ StaffGoes(p, AtRest)
    BY <1>13 DEF CompleteStaffKeyRegistration, RemoveStaffKey, LiveKeys, TurnKeys, StaffEnds
  <2> QED
    BY <2>1, <1>1, <1>3, <1>5 DEF StaffOps
<1>14. CASE StaffCallDies(p)
  BY <1>14, <1>2 DEF StaffCallDies, StaffEnds, StaffIn
<1> QED
  BY <1>6, <1>7, <1>8, <1>9, <1>10, <1>11, <1>12, <1>13, <1>14

LEMMA WithdrawnStep ==
    ASSUME StaffInv, [StaffNext]_staffVars, NEW p \in Staffers,
           staffCall[p].op = "free", staffCall'[p].op = "resolve"
    PROVE  ~credential.disabled
<1>1. ~(StaffTime \/ UNCHANGED staffVars)
  BY DEF StaffTime, staffVars
<1>2. PICK q \in Staffers : StaffMove(q)
  BY <1>1, StaffMoves DEF StaffNext
<1>3. q = p
  BY <1>2, StaffTables DEF StaffMove, StaffGoes, StaffReads
<1>4. PICK op \in StaffOps, on \in Nat, ks \in SUBSET StaffKeys :
              /\ StaffReads(p, StaffRead(op, on, ks))
              /\ op = "resolve" => ~credential.disabled
  BY <1>2, <1>3 DEF StaffMove
<1>5. staffCall'[p] = StaffRead(op, on, ks)
  BY <1>4, StaffTables DEF StaffReads, StaffGoes
<1> QED
  BY <1>4, <1>5, StaffReadIs

-----------------------------------------------------------------------------
(***************************************************************************)
(* A second factor.  What is good for one sign-in is marked as gone by the *)
(* statement that counts its use, and nothing that is gone comes back: a   *)
(* code that was used stays used, a key challenge spent, a challenge over. *)
(***************************************************************************)
FactorOps == {"free", "challenge", "verified", "recovering", "recovered", "failed", "options",
              "key", "spend", "satisfy", "enrol", "confirm", "codes", "register", "disable",
              "desk"}

FactorLocals == [op : FactorOps, on : Nat, uses : Nat, step : Nat, failed : Nat]

Over(h) == challenge[h].status \notin {"none", "open"}

CodesAreCounted == \A n \in Codes : spent[n] = IF recovery[n] = "used" THEN 1 ELSE 0

SignedOnce == \A w \in KeyChallenges :
    /\ signed[w] \in {0, 1}
    /\ signed[w] = 1 => keyChallenge[w] = "spent"

ByKeyOnce ==
    /\ \A h \in Challenges : byKey[h] \in {0, 1} /\ (byKey[h] = 1 => Over(h))
    /\ \A h \in ended : Over(h)

FactorInv ==
    /\ FactorTypeOK
    /\ answer \in [Answers -> FactorLocals]
    /\ spent \in [Codes -> Nat] /\ signed \in [KeyChallenges -> Nat]
    /\ byKey \in [Challenges -> Nat]
    /\ CodesAreCounted /\ SignedOnce /\ ByKeyOnce

Challenging == [status : {"none", "open", "satisfied", "abandoned", "lapsed"}, failed : Nat]

LEMMA FactorTables ==
    ASSUME FactorInv
    PROVE  /\ factor \in [Factors -> [status : {"none", "pending", "active", "removed"},
                                      last : Nat]]
           /\ keys \subseteq Keys /\ ended \subseteq Challenges
           /\ recovery \in [Codes -> {"none", "fresh", "used", "superseded"}]
           /\ challenge \in [Challenges -> Challenging]
           /\ keyChallenge \in [KeyChallenges -> {"none", "open", "spent", "lapsed"}]
           /\ spent \in [Codes -> Nat] /\ signed \in [KeyChallenges -> Nat]
           /\ byKey \in [Challenges -> Nat]
           /\ answer \in [Answers -> FactorLocals]
           /\ \A a \in Answers : answer[a] \in FactorLocals
           /\ \A a \in Answers : answer[a].step \in Nat /\ answer[a].failed \in Nat
           /\ \A h \in Challenges : challenge[h].failed \in Nat
BY DEF FactorInv, FactorTypeOK, FactorLocals, Challenging

LEMMA FactorNumbers ==
    /\ \A f \in Factors : f \in Nat
    /\ \A h \in Challenges : h \in Nat
    /\ \A w \in KeyChallenges : w \in Nat
    /\ \A n \in Codes : n \in Nat
    /\ IsFiniteSet(Factors)
<1>1. \A set \in {Factors, Challenges, KeyChallenges, Codes} :
        IsFiniteSet(set) /\ set = 1..Cardinality(set)
  BY FactorAssumption
<1>2. ASSUME NEW S, IsFiniteSet(S), S = 1..Cardinality(S) PROVE \A n \in S : n \in Nat
  <2>1. Cardinality(S) \in Nat
    BY <1>2, FS_CardinalityType
  <2> QED
    BY <1>2, <2>1
<1> QED
  BY <1>1, <1>2

\* The newest authenticator is one of those that are active.
LEMMA TheFactorIsOne ==
    ASSUME ActiveFactors # {}
    PROVE  TheFactor \in Factors /\ TheFactor \in Nat
<1> DEFINE T == ActiveFactors
           Above(x) == {y \in T : y > x}
           F == {Above(x) : x \in T}
<1>1. T \subseteq Factors /\ IsFiniteSet(T) /\ \A x \in T : x \in Nat
  BY FactorNumbers, FS_Subset DEF ActiveFactors
<1> HIDE DEF T
<1>2. F \subseteq FiniteSubsetsOf(T) /\ F # {}
  <2>1. \A x \in T : Above(x) \subseteq T /\ IsFiniteSet(Above(x))
    BY <1>1, FS_Subset
  <2>2. T # {}
    BY DEF T
  <2> QED
    BY <2>1, <2>2 DEF FiniteSubsetsOf
<1>3. IsWellFoundedOn(StrictSubsetOrdering(T), FiniteSubsetsOf(T))
  BY FS_StrictSubsetOrderingWellFounded
<1>4. PICK m \in F : \A n \in F : ~(<<n, m>> \in StrictSubsetOrdering(T))
  BY <1>2, <1>3, WFMin
<1>5. PICK x \in T : m = Above(x)
  OBVIOUS
<1>6. ASSUME NEW y \in T, y > x PROVE FALSE
  <2>1. y \in Above(x) /\ y \notin Above(y)
    BY <1>1, <1>6
  <2>2. ASSUME NEW z \in Above(y) PROVE z \in Above(x)
    <3>1. z \in T /\ z > y
      OBVIOUS
    <3> QED
      BY <1>1, <1>6, <3>1
  <2>3. <<Above(y), Above(x)>> \in StrictSubsetOrdering(T)
    BY <2>1, <2>2 DEF StrictSubsetOrdering
  <2> QED
    BY <1>4, <1>5, <2>3
<1>7. \A y \in T : x >= y
  BY <1>1, <1>6
<1>8. Max(T) \in T
  BY <1>7 DEF Max
<1> QED
  BY <1>1, <1>8 DEF TheFactor, T

LEMMA WaitingIs ==
    /\ Waiting \in FactorLocals
    /\ \A op \in FactorOps : [Waiting EXCEPT !.op = op] \in FactorLocals
BY DEF Waiting, FactorLocals, FactorOps

\* A request that turns to its next statement, over rows that are as they were
\* or have changed as they may.
LEMMA FactorKeeps ==
    ASSUME FactorInv, NEW a \in Answers, NEW next \in FactorLocals, Turns(a, next),
           factor' \in [Factors -> [status : {"none", "pending", "active", "removed"},
                                    last : Nat]],
           keys' \subseteq Keys, UNCHANGED <<spent, signed, byKey>>,
           recovery' \in [Codes -> {"none", "fresh", "used", "superseded"}],
           \A n \in Codes : recovery'[n] = "used" <=> recovery[n] = "used",
           keyChallenge' \in [KeyChallenges -> {"none", "open", "spent", "lapsed"}],
           \A w \in KeyChallenges : keyChallenge[w] = "spent" => keyChallenge'[w] = "spent",
           challenge' \in [Challenges -> Challenging],
           \A h \in Challenges : Over(h) => Over(h)',
           ended' \subseteq Challenges, \A h \in ended' \ ended : Over(h)'
    PROVE  FactorInv'
<1>1. FactorTypeOK'
  BY DEF FactorTypeOK, Challenging
<1>2. answer' \in [Answers -> FactorLocals]
  BY FactorTables DEF Turns
<1>3. CodesAreCounted' /\ SignedOnce'
  BY DEF FactorInv, CodesAreCounted, SignedOnce
<1>4. ByKeyOnce'
  <2> HIDE DEF Over
  <2> QED
    BY FactorTables DEF FactorInv, ByKeyOnce
<1> QED
  BY <1>1, <1>2, <1>3, <1>4 DEF FactorInv

LEMMA TakesKeeps ==
    ASSUME FactorInv, NEW a \in Answers, NEW next \in FactorLocals, Takes(a, next)
    PROVE  FactorInv'
<1>1. Turns(a, next) /\ UNCHANGED <<factorRows, clock, factorHistory>>
  BY DEF Takes
<1> QED
  BY <1>1, FactorTables, FactorKeeps DEF factorRows, factorHistory, Over

LEMMA FactorInitInv == FactorInit => FactorInv
<1> SUFFICES ASSUME FactorInit PROVE FactorInv
  OBVIOUS
<1>1. FactorTypeOK
  BY DEF FactorInit, FactorTypeOK
<1>2. answer \in [Answers -> FactorLocals]
  BY WaitingIs DEF FactorInit
<1>3. /\ spent \in [Codes -> Nat] /\ signed \in [KeyChallenges -> Nat]
      /\ byKey \in [Challenges -> Nat]
      /\ CodesAreCounted /\ SignedOnce /\ ByKeyOnce
  BY DEF FactorInit, CodesAreCounted, SignedOnce, ByKeyOnce
<1> QED
  BY <1>1, <1>2, <1>3 DEF FactorInv

LEMMA ReadsAreLocals ==
    ASSUME NEW r \in FactorLocals, NEW op \in FactorOps, NEW on \in Nat, NEW uses \in Nat,
           NEW step \in Nat, NEW failed \in Nat
    PROVE  /\ [r EXCEPT !.op = op] \in FactorLocals
           /\ [r EXCEPT !.op = op, !.uses = uses] \in FactorLocals
           /\ [r EXCEPT !.op = op, !.step = step] \in FactorLocals
           /\ [r EXCEPT !.op = op, !.uses = uses, !.step = step] \in FactorLocals
           /\ [r EXCEPT !.op = op, !.on = on, !.uses = uses] \in FactorLocals
           /\ [op |-> op, on |-> on, uses |-> uses, step |-> step, failed |-> failed]
                 \in FactorLocals
BY DEF FactorLocals

LEMMA MarkKeeps ==
    ASSUME FactorInv, NEW h, NEW status \in {"satisfied", "abandoned", "lapsed"},
           Mark(h, status)
    PROVE  /\ challenge' \in [Challenges -> Challenging]
           /\ \A g \in Challenges : Over(g) => Over(g)'
<1>1. challenge \in [Challenges -> Challenging]
  BY FactorTables
<1>2. \A g \in Challenges :
        challenge'[g] = IF g = h THEN [challenge[g] EXCEPT !.status = status] ELSE challenge[g]
  BY <1>1 DEF Mark
<1>3. challenge' \in [Challenges -> Challenging]
  BY <1>1 DEF Mark, Challenging
<1>4. \A g \in Challenges : challenge'[g].status = IF g = h THEN status ELSE challenge[g].status
  BY <1>1, <1>2 DEF Challenging
<1> QED
  BY <1>3, <1>4 DEF Over

LEMMA AbandonOpenIs ==
    ASSUME FactorInv
    PROVE  /\ AbandonOpen \in [Challenges -> Challenging]
           /\ \A h \in Challenges : AbandonOpen[h].status =
                 IF challenge[h].status = "open" THEN "abandoned" ELSE challenge[h].status
<1>1. challenge \in [Challenges -> Challenging]
  BY FactorTables
<1>2. \A h \in Challenges :
        /\ [challenge[h] EXCEPT !.status = "abandoned"] \in Challenging
        /\ [challenge[h] EXCEPT !.status = "abandoned"].status = "abandoned"
  BY <1>1 DEF Challenging
<1> QED
  BY <1>1, <1>2 DEF AbandonOpen

\* Challenges and how they are answered.
LEMMA ChallengesKeep ==
    ASSUME FactorInv, NEW a \in Answers,
           BeginMfaChallenge(a) \/ AnswerMfaChallenge(a)
    PROVE  FactorInv'
<1>1. CASE Takes(a, [Waiting EXCEPT !.op = "challenge"])
  BY <1>1, WaitingIs, TakesKeeps DEF FactorOps
<1>2. CASE /\ Answering(a, "challenge")
           /\ \E h \in NextOf(challenge, LAMBDA row : row.status = "none") :
                challenge' = [AbandonOpen EXCEPT ![h].status = "open"]
           /\ Done(a)
           /\ UNCHANGED <<factor, keys, recovery, keyChallenge, clock, answered, factorHistory>>
  <2>1. PICK h \in NextOf(challenge, LAMBDA row : row.status = "none") :
          challenge' = [AbandonOpen EXCEPT ![h].status = "open"]
    BY <1>2
  <2>2. h \in Challenges /\ challenge[h].status = "none"
    BY FactorTables DEF NextOf
  <2> DEFINE A == AbandonOpen
  <2>3. A \in [Challenges -> Challenging] /\ challenge' = [A EXCEPT ![h].status = "open"]
    BY <2>1, AbandonOpenIs
  <2>4. \A g \in Challenges : A[g].status =
          IF challenge[g].status = "open" THEN "abandoned" ELSE challenge[g].status
    BY AbandonOpenIs
  <2> HIDE DEF A
  <2>5. challenge' \in [Challenges -> Challenging]
    BY <2>2, <2>3 DEF Challenging
  <2>6. \A g \in Challenges : challenge'[g].status = IF g = h THEN "open" ELSE A[g].status
    BY <2>2, <2>3 DEF Challenging
  <2>7. \A g \in Challenges : Over(g) => Over(g)'
    BY <2>2, <2>4, <2>6 DEF Over
  <2> QED
    BY <1>2, <2>5, <2>7, WaitingIs, FactorTables, FactorKeeps DEF Done, factorHistory
<1>3. CASE AnswerMfaChallenge(a)
  <2>1. PICK h \in Challenges :
          \/ ActiveFactors # {} /\ \E s \in 1..LastStep :
               Takes(a, [op |-> "verified", on |-> h, uses |-> TheFactor,
                         step |-> s, failed |-> 0])
          \/ \E n \in Codes : Takes(a, [op |-> "recovering", on |-> h, uses |-> n, step |-> 0,
                                        failed |-> challenge[h].failed])
          \/ Takes(a, [op |-> "failed", on |-> h, uses |-> 0, step |-> 0,
                       failed |-> challenge[h].failed])
    BY <1>3 DEF AnswerMfaChallenge
  <2>2. CASE \E n \in Codes : Takes(a, [op |-> "recovering", on |-> h, uses |-> n, step |-> 0,
                                        failed |-> challenge[h].failed])
    <3>1. PICK n \in Codes : Takes(a, [op |-> "recovering", on |-> h, uses |-> n, step |-> 0,
                                       failed |-> challenge[h].failed])
      BY <2>2
    <3>2. [op |-> "recovering", on |-> h, uses |-> n, step |-> 0,
           failed |-> challenge[h].failed] \in FactorLocals
      BY FactorNumbers, FactorTables DEF FactorLocals, FactorOps
    <3> QED
      BY <3>1, <3>2, TakesKeeps
  <2>3. CASE ActiveFactors # {} /\ \E s \in 1..LastStep :
               Takes(a, [op |-> "verified", on |-> h, uses |-> TheFactor,
                         step |-> s, failed |-> 0])
    <3>1. PICK s \in 1..LastStep : Takes(a, [op |-> "verified", on |-> h, uses |-> TheFactor,
                                             step |-> s, failed |-> 0])
      BY <2>3
    <3>2. LastStep \in Nat /\ s \in Nat
      BY FactorAssumption
    <3>3. TheFactor \in Nat
      BY <2>3, TheFactorIsOne
    <3>4. [op |-> "verified", on |-> h, uses |-> TheFactor, step |-> s, failed |-> 0]
            \in FactorLocals
      BY <3>2, <3>3, FactorNumbers DEF FactorLocals, FactorOps
    <3> QED
      BY <3>1, <3>4, TakesKeeps
  <2>4. CASE Takes(a, [op |-> "failed", on |-> h, uses |-> 0, step |-> 0,
                       failed |-> challenge[h].failed])
    <3>1. [op |-> "failed", on |-> h, uses |-> 0, step |-> 0,
           failed |-> challenge[h].failed] \in FactorLocals
      BY FactorNumbers, FactorTables DEF FactorLocals, FactorOps
    <3> QED
      BY <2>4, <3>1, TakesKeeps
  <2> QED
    BY <2>1, <2>2, <2>3, <2>4
<1> QED
  BY <1>1, <1>2, <1>3 DEF BeginMfaChallenge

LEMMA AnswersKeep ==
    ASSUME FactorInv, NEW a \in Answers,
           AnswerByTotp(a) \/ AnswerByRecoveryCode(a) \/ AnswerFails(a)
    PROVE  FactorInv'
<1>1. CASE AnswerByTotp(a) \/ AnswerByRecoveryCode(a)
  <2>1. factor' \in [Factors -> [status : {"none", "pending", "active", "removed"}, last : Nat]]
    BY <1>1, FactorTables DEF AnswerByTotp, AnswerByRecoveryCode
  <2>2. /\ challenge' \in [Challenges -> Challenging]
        /\ \A g \in Challenges : Over(g) => Over(g)'
    BY <1>1, MarkKeeps DEF AnswerByTotp, AnswerByRecoveryCode
  <2> QED
    BY <1>1, <2>1, <2>2, WaitingIs, FactorTables, FactorKeeps
       DEF AnswerByTotp, AnswerByRecoveryCode, Done, factorHistory
<1>2. CASE AnswerFails(a)
  <2> DEFINE attempts == answer[a].failed + 1
             h == answer[a].on
             status == IF attempts >= MaxChallengeAttempts THEN "abandoned"
                       ELSE challenge[h].status
  <2>1. attempts \in Nat
    BY FactorTables
  <2>2. challenge' = [challenge EXCEPT ![h] = [status |-> status, failed |-> attempts]]
    BY <1>2 DEF AnswerFails
  <2>3. h \in Challenges => /\ [status |-> status, failed |-> attempts] \in Challenging
                            /\ Over(h) => status \notin {"none", "open"}
    BY <2>1, FactorTables DEF Challenging, Over
  <2> HIDE DEF attempts, h, status
  <2>4. /\ challenge' \in [Challenges -> Challenging]
        /\ \A g \in Challenges : challenge'[g] =
              IF g = h THEN [status |-> status, failed |-> attempts] ELSE challenge[g]
    BY <2>2, <2>3, FactorTables
  <2>5. \A g \in Challenges : Over(g) => Over(g)'
    BY <2>3, <2>4 DEF Over
  <2> QED
    BY <1>2, <2>4, <2>5, WaitingIs, FactorTables, FactorKeeps
       DEF AnswerFails, Done, factorHistory
<1> QED
  BY <1>1, <1>2

\* One guarded statement spends a code and counts it.
LEMMA SpendCodeKeeps ==
    ASSUME FactorInv, NEW a \in Answers, SpendRecoveryCode(a)
    PROVE  FactorInv'
<1>0. PICK n : n = answer[a].uses
  OBVIOUS
<1>1. PICK op \in {"recovered", "failed"} : Next_op(a, op)
  BY DEF SpendRecoveryCode
<1> DEFINE next == [answer[a] EXCEPT !.op = op]
<1>2. next \in FactorLocals
  BY FactorTables, ReadsAreLocals DEF FactorOps
<1>3. Turns(a, next)
  BY <1>1 DEF Next_op
<1> HIDE DEF next
<1>4. CASE recovery[n] # "fresh"
  <2>1. UNCHANGED <<factor, keys, challenge, keyChallenge, recovery, spent, signed, byKey, ended>>
    BY <1>0, <1>4 DEF SpendRecoveryCode
  <2> QED
    BY <1>2, <1>3, <2>1, FactorTables, FactorKeeps DEF Over
<1>5. CASE recovery[n] = "fresh"
  <2>1. /\ recovery' = [recovery EXCEPT ![n] = "used"]
        /\ spent' = [spent EXCEPT ![n] = @ + 1]
        /\ UNCHANGED <<factor, keys, challenge, keyChallenge, signed, byKey, ended>>
    BY <1>0, <1>5 DEF SpendRecoveryCode
  <2>2. /\ spent' \in [Codes -> Nat]
        /\ \A m \in Codes : /\ spent'[m] = IF m = n THEN spent[m] + 1 ELSE spent[m]
                            /\ recovery'[m] = IF m = n THEN "used" ELSE recovery[m]
    <3>1. \A m \in Codes : recovery'[m] = IF m = n THEN "used" ELSE recovery[m]
      BY <2>1, FactorTables
    <3>2. /\ spent' \in [Codes -> Nat]
          /\ \A m \in Codes : spent'[m] = IF m = n THEN spent[m] + 1 ELSE spent[m]
      <4>1. spent \in [Codes -> Nat] /\ spent' = [spent EXCEPT ![n] = @ + 1]
        BY <2>1, FactorTables
      <4>2. spent' = [m \in Codes |-> IF m = n THEN spent[m] + 1 ELSE spent[m]]
        BY <4>1
      <4>3. \A m \in Codes : spent[m] \in Nat
        BY <4>1
      <4> QED
        BY <4>2, <4>3
    <3> QED
      BY <3>1, <3>2
  <2>3. CodesAreCounted'
    BY <1>5, <2>2 DEF FactorInv, CodesAreCounted
  <2>4. FactorTypeOK' /\ answer' \in [Answers -> FactorLocals]
    BY <1>2, <1>3, <2>1, FactorTables DEF FactorInv, FactorTypeOK, Turns
  <2> QED
    BY <2>1, <2>2, <2>3, <2>4, FactorTables DEF FactorInv, SignedOnce, ByKeyOnce, Over
<1> QED
  BY <1>4, <1>5

\* Signing in by key: asking, presenting, spending and being let in.
LEMMA KeyOptionsKeep ==
    ASSUME FactorInv, NEW a \in Answers, SignInKeyOptions(a) \/ CompleteSignInWithKey(a)
    PROVE  FactorInv'
<1>1. CASE Takes(a, [Waiting EXCEPT !.op = "options"])
  BY <1>1, WaitingIs, TakesKeeps DEF FactorOps
<1>2. CASE /\ Answering(a, "options")
           /\ \E w \in NextOf(keyChallenge, IsNone) :
                keyChallenge' = [v \in KeyChallenges |->
                    IF v = w THEN "open"
                    ELSE IF keyChallenge[v] = "none" THEN "none" ELSE "spent"]
           /\ Done(a)
           /\ UNCHANGED <<factor, keys, recovery, challenge, clock, answered, factorHistory>>
  <2>1. PICK w \in NextOf(keyChallenge, IsNone) :
          keyChallenge' = [v \in KeyChallenges |->
              IF v = w THEN "open"
              ELSE IF keyChallenge[v] = "none" THEN "none" ELSE "spent"]
    BY <1>2
  <2>2. w \in KeyChallenges /\ keyChallenge[w] = "none"
    BY FactorTables DEF NextOf, IsNone
  <2>3. /\ keyChallenge' \in [KeyChallenges -> {"none", "open", "spent", "lapsed"}]
        /\ \A v \in KeyChallenges : keyChallenge[v] = "spent" => keyChallenge'[v] = "spent"
    BY <2>1, <2>2
  <2> QED
    BY <1>2, <2>3, WaitingIs, FactorTables, FactorKeeps DEF Done, factorHistory, Over
<1>3. CASE \E h \in Challenges, w \in KeyChallenges :
             Takes(a, [Waiting EXCEPT !.op = "key", !.on = h, !.uses = w])
  <2>1. \A h \in Challenges, w \in KeyChallenges :
          [Waiting EXCEPT !.op = "key", !.on = h, !.uses = w] \in FactorLocals
    BY WaitingIs, ReadsAreLocals, FactorNumbers DEF FactorOps
  <2> QED
    BY <1>3, <2>1, TakesKeeps
<1>4. CASE /\ \E w \in KeyChallenges :
                 Turns(a, [answer[a] EXCEPT !.op = "spend", !.step = w])
           /\ UNCHANGED <<factorRows, clock, answered, factorHistory>>
  <2>1. PICK w \in KeyChallenges : Turns(a, [answer[a] EXCEPT !.op = "spend", !.step = w])
    BY <1>4
  <2>2. [answer[a] EXCEPT !.op = "spend", !.step = w] \in FactorLocals
    BY FactorTables, ReadsAreLocals, FactorNumbers DEF FactorOps
  <2> QED
    BY <1>4, <2>1, <2>2, FactorTables, FactorKeeps DEF factorRows, factorHistory, Over
<1>5. CASE Done(a) /\ UNCHANGED <<factorRows, clock, answered, factorHistory>>
  BY <1>5, WaitingIs, FactorTables, FactorKeeps DEF Done, factorRows, factorHistory, Over
<1> QED
  BY <1>1, <1>2, <1>3, <1>4, <1>5 DEF SignInKeyOptions, CompleteSignInWithKey

LEMMA SpendKeyKeeps ==
    ASSUME FactorInv, NEW a \in Answers, SpendChallenge(a)
    PROVE  FactorInv'
<1>0. PICK w : w = answer[a].step
  OBVIOUS
<1> DEFINE counts == keyChallenge[w] \in {"open", "lapsed"} /\ w = answer[a].uses
<1>1. /\ keyChallenge' = [keyChallenge EXCEPT ![w] = "spent"]
      /\ signed' = IF counts THEN [signed EXCEPT ![w] = @ + 1] ELSE signed
      /\ UNCHANGED <<factor, keys, recovery, challenge, spent, byKey, ended>>
  BY <1>0 DEF SpendChallenge
<1>2. PICK next \in FactorLocals : Turns(a, next)
  <2>1. Next_op(a, "satisfy") \/ Done(a)
    BY DEF SpendChallenge
  <2>2. [answer[a] EXCEPT !.op = "satisfy"] \in FactorLocals
    BY FactorTables, ReadsAreLocals DEF FactorOps
  <2> QED
    BY <2>1, <2>2, WaitingIs DEF Next_op, Done
<1>3. /\ keyChallenge' \in [KeyChallenges -> {"none", "open", "spent", "lapsed"}]
      /\ \A v \in KeyChallenges :
           keyChallenge'[v] = IF v = w THEN "spent" ELSE keyChallenge[v]
  BY <1>1, FactorTables
<1>4. /\ signed' \in [KeyChallenges -> Nat]
      /\ \A v \in KeyChallenges :
           signed'[v] = IF v = w /\ counts THEN signed[v] + 1 ELSE signed[v]
  <2>1. CASE counts
    <3>1. signed \in [KeyChallenges -> Nat] /\ signed' = [signed EXCEPT ![w] = @ + 1]
      BY <1>1, <2>1, FactorTables
    <3>2. /\ signed' \in [KeyChallenges -> Nat]
          /\ \A v \in KeyChallenges : signed'[v] = IF v = w THEN signed[v] + 1 ELSE signed[v]
      <4>1. signed' = [v \in KeyChallenges |-> IF v = w THEN signed[v] + 1 ELSE signed[v]]
        BY <3>1
      <4>2. \A v \in KeyChallenges : signed[v] \in Nat
        BY <3>1
      <4> QED
        BY <4>1, <4>2
    <3> QED
      BY <2>1, <3>2
  <2>2. CASE ~counts
    BY <1>1, <2>2, FactorTables
  <2> QED
    BY <2>1, <2>2
<1>5. SignedOnce'
  BY <1>3, <1>4 DEF FactorInv, SignedOnce
<1>6. FactorTypeOK' /\ answer' \in [Answers -> FactorLocals]
  BY <1>1, <1>2, <1>3, FactorTables DEF FactorInv, FactorTypeOK, Turns
<1> QED
  BY <1>1, <1>4, <1>5, <1>6 DEF FactorInv, CodesAreCounted, ByKeyOnce, Over

LEMMA SatisfyKeeps ==
    ASSUME FactorInv, NEW a \in Answers, SatisfyMfaChallenge(a)
    PROVE  FactorInv'
<1>0. PICK h : h = answer[a].on
  OBVIOUS
<1>1. Turns(a, Waiting) /\ UNCHANGED <<factor, keys, recovery, keyChallenge, spent, signed, ended>>
  BY DEF SatisfyMfaChallenge, Done
<1>2. CASE challenge[h].status # "open"
  <2>1. UNCHANGED <<challenge, byKey>>
    BY <1>0, <1>2 DEF SatisfyMfaChallenge
  <2> QED
    BY <1>1, <2>1, WaitingIs, FactorTables, FactorKeeps DEF Over
<1>3. CASE challenge[h].status = "open"
  <2>1. Mark(h, "satisfied") /\ byKey' = [byKey EXCEPT ![h] = @ + 1]
    BY <1>0, <1>3 DEF SatisfyMfaChallenge
  <2>2. /\ challenge' \in [Challenges -> Challenging]
        /\ \A g \in Challenges : Over(g) => Over(g)'
    BY <2>1, MarkKeeps
  <2>3. h \in Challenges => ~Over(h) /\ Over(h)'
    <3>1. ASSUME h \in Challenges PROVE challenge'[h].status = "satisfied"
      BY <2>1, <3>1, FactorTables DEF Mark, Challenging
    <3> QED
      BY <1>3, <3>1 DEF Over
  <2>4. /\ byKey' \in [Challenges -> Nat]
        /\ \A g \in Challenges : byKey'[g] = IF g = h THEN byKey[g] + 1 ELSE byKey[g]
    <3>1. byKey \in [Challenges -> Nat] /\ byKey' = [byKey EXCEPT ![h] = @ + 1]
      BY <2>1, FactorTables
    <3>2. byKey' = [g \in Challenges |-> IF g = h THEN byKey[g] + 1 ELSE byKey[g]]
      BY <3>1
    <3>3. \A g \in Challenges : byKey[g] \in Nat
      BY <3>1
    <3> QED
      BY <3>2, <3>3
  <2> HIDE DEF Over
  <2>5. ByKeyOnce'
    BY <1>1, <2>2, <2>3, <2>4, FactorTables DEF FactorInv, ByKeyOnce
  <2>6. FactorTypeOK' /\ answer' \in [Answers -> FactorLocals]
    BY <1>1, <2>2, WaitingIs, FactorTables DEF FactorInv, FactorTypeOK, Turns, Challenging
  <2> QED
    BY <1>1, <2>4, <2>5, <2>6 DEF FactorInv, CodesAreCounted, SignedOnce
<1> QED
  BY <1>2, <1>3

LEMMA SupersedesIs ==
    ASSUME FactorInv
    PROVE  /\ Supersedes \in [Codes -> {"none", "fresh", "used", "superseded"}]
           /\ \A n \in Codes : Supersedes[n] = "used" <=> recovery[n] = "used"
BY FactorTables DEF Supersedes, TurnAll

\* New codes never bring a used one back.
LEMMA NewCodesIs ==
    ASSUME FactorInv, NEW a \in Answers, NewCodes(a)
    PROVE  /\ recovery' \in [Codes -> {"none", "fresh", "used", "superseded"}]
           /\ \A n \in Codes : recovery'[n] = "used" <=> recovery[n] = "used"
           /\ Turns(a, Waiting)
           /\ UNCHANGED <<keys, challenge, keyChallenge, spent, signed, byKey, ended>>
<1>1. PICK n \in NextOf(recovery, IsNone) : recovery' = [Supersedes EXCEPT ![n] = "fresh"]
  BY DEF NewCodes
<1>2. n \in Codes /\ recovery[n] = "none"
  BY FactorTables DEF NextOf, IsNone
<1> DEFINE S == Supersedes
<1>3. /\ S \in [Codes -> {"none", "fresh", "used", "superseded"}]
      /\ \A m \in Codes : S[m] = "used" <=> recovery[m] = "used"
  BY SupersedesIs
<1>4. recovery' = [S EXCEPT ![n] = "fresh"]
  BY <1>1
<1> HIDE DEF S
<1>5. /\ recovery' \in [Codes -> {"none", "fresh", "used", "superseded"}]
      /\ \A m \in Codes : recovery'[m] = "used" <=> recovery[m] = "used"
  BY <1>2, <1>3, <1>4
<1> QED
  BY <1>5 DEF NewCodes, Done, factorHistory

\* The settings page.
LEMMA SettingsKeep ==
    ASSUME FactorInv, NEW a \in Answers,
           \/ BeginMfaEnrolment(a)       \/ ConfirmMfaEnrolment(a)
           \/ RegenerateRecoveryCodes(a) \/ CompleteWebauthnRegistration(a)
    PROVE  FactorInv'
<1>1. CASE \E op \in {"enrol", "codes", "register"} : Takes(a, [Waiting EXCEPT !.op = op])
  BY <1>1, WaitingIs, TakesKeeps DEF FactorOps
<1>2. CASE \E f \in Factors, s \in 1..LastStep :
             Takes(a, [Waiting EXCEPT !.op = "confirm", !.uses = f, !.step = s])
  <2>1. PICK f \in Factors, s \in 1..LastStep :
          Takes(a, [Waiting EXCEPT !.op = "confirm", !.uses = f, !.step = s])
    BY <1>2
  <2>2. s \in Nat /\ f \in Nat
    BY FactorAssumption, FactorNumbers
  <2>3. [Waiting EXCEPT !.op = "confirm", !.uses = f, !.step = s] \in FactorLocals
    BY <2>2, WaitingIs, ReadsAreLocals DEF FactorOps
  <2> QED
    BY <2>1, <2>3, TakesKeeps
<1>3. CASE /\ Answering(a, "enrol")
           /\ \E f \in NextOf(factor, LAMBDA row : row.status = "none") :
                factor' = [g \in Factors |->
                    IF g = f THEN [status |-> "pending", last |-> 0]
                    ELSE IF factor[g].status = "pending"
                         THEN [factor[g] EXCEPT !.status = "removed"] ELSE factor[g]]
           /\ Done(a)
           /\ UNCHANGED <<keys, recovery, challenge, keyChallenge, clock, answered, factorHistory>>
  <2>1. factor' \in [Factors -> [status : {"none", "pending", "active", "removed"}, last : Nat]]
    BY <1>3, FactorTables
  <2> QED
    BY <1>3, <2>1, WaitingIs, FactorTables, FactorKeeps DEF Done, factorHistory, Over
<1>4. CASE /\ \/ factor' = [factor EXCEPT ![answer[a].uses] = [status |-> "active",
                                                              last |-> answer[a].step]]
              \/ UNCHANGED factor
           /\ NewCodes(a)
  <2>1. factor' \in [Factors -> [status : {"none", "pending", "active", "removed"}, last : Nat]]
    BY <1>4, FactorTables
  <2> QED
    BY <1>4, <2>1, NewCodesIs, WaitingIs, FactorTables, FactorKeeps DEF Over
<1>5. CASE /\ Answering(a, "register")
           /\ \E k \in Keys \ keys : keys' = keys \union {k}
           /\ Done(a)
           /\ UNCHANGED <<factor, recovery, challenge, keyChallenge, clock, answered,
                          factorHistory>>
  <2>1. keys' \subseteq Keys
    BY <1>5, FactorTables
  <2> QED
    BY <1>5, <2>1, WaitingIs, FactorTables, FactorKeeps DEF Done, factorHistory, Over
<1> QED
  BY <1>1, <1>2, <1>3, <1>4, <1>5
     DEF BeginMfaEnrolment, ConfirmMfaEnrolment, RegenerateRecoveryCodes,
         CompleteWebauthnRegistration

\* Taking an authenticator away, by the client or by the desk, which abandons
\* the sign-ins that are half done.
LEMMA RemovalKeeps ==
    ASSUME FactorInv, NEW a \in Answers, DisableMfa(a) \/ RemoveMfaForClient(a)
    PROVE  FactorInv'
<1>1. CASE /\ ActiveFactors # {}
           /\ \E op \in {"disable", "desk"} :
                Takes(a, [Waiting EXCEPT !.op = op, !.uses = TheFactor])
  <2>1. TheFactor \in Nat
    BY <1>1, TheFactorIsOne
  <2>2. \A op \in {"disable", "desk"} :
          [Waiting EXCEPT !.op = op, !.uses = TheFactor] \in FactorLocals
    BY <2>1, WaitingIs, ReadsAreLocals DEF FactorOps
  <2> QED
    BY <1>1, <2>2, TakesKeeps
<1>2. CASE /\ Removes(a)
           /\ \/ UNCHANGED <<challenge, ended>>
              \/ challenge' = AbandonOpen /\ ended' = ended \union OpenChallenges
  <2>1. factor' \in [Factors -> [status : {"none", "pending", "active", "removed"}, last : Nat]]
    BY <1>2, FactorTables DEF Removes
  <2>2. recovery' = Supersedes
    BY <1>2 DEF Removes
  <2>3. /\ recovery' \in [Codes -> {"none", "fresh", "used", "superseded"}]
        /\ \A n \in Codes : recovery'[n] = "used" <=> recovery[n] = "used"
    BY <2>2, SupersedesIs
  <2>4. /\ challenge' \in [Challenges -> Challenging]
        /\ \A h \in Challenges : Over(h) => Over(h)'
        /\ ended' \subseteq Challenges
        /\ \A h \in ended' \ ended : Over(h)'
    <3>1. CASE UNCHANGED <<challenge, ended>>
      BY <3>1, FactorTables DEF Over
    <3>2. CASE challenge' = AbandonOpen /\ ended' = ended \union OpenChallenges
      BY <3>2, AbandonOpenIs, FactorTables DEF Over, OpenChallenges
    <3> QED
      BY <1>2, <3>1, <3>2
  <2> QED
    BY <1>2, <2>1, <2>3, <2>4, WaitingIs, FactorTables, FactorKeeps DEF Removes, Done
<1> QED
  BY <1>1, <1>2 DEF DisableMfa, RemoveMfaForClient

LEMMA FactorTimeKeeps ==
    ASSUME FactorInv, FactorTime \/ UNCHANGED factorVars
    PROVE  FactorInv'
<1>1. UNCHANGED <<factor, keys, recovery, answer, factorHistory>>
  BY DEF FactorTime, factorVars, factorRows
<1>2. /\ challenge' \in [Challenges -> Challenging]
      /\ \A h \in Challenges : Over(h) => Over(h)'
  BY MarkKeeps, FactorTables DEF FactorTime, factorVars, factorRows, Over
<1>3. /\ keyChallenge' \in [KeyChallenges -> {"none", "open", "spent", "lapsed"}]
      /\ \A w \in KeyChallenges : keyChallenge[w] = "spent" => keyChallenge'[w] = "spent"
  BY FactorTables DEF FactorTime, factorVars, factorRows
<1>4. FactorTypeOK'
  BY <1>1, <1>2, <1>3 DEF FactorInv, FactorTypeOK, Challenging, factorHistory
<1>5. CodesAreCounted' /\ SignedOnce'
  BY <1>1, <1>3 DEF FactorInv, CodesAreCounted, SignedOnce, factorHistory
<1>6. ByKeyOnce'
  BY <1>1, <1>2, FactorTables DEF FactorInv, ByKeyOnce, factorHistory
<1> QED
  BY <1>1, <1>4, <1>5, <1>6 DEF FactorInv, factorHistory

LEMMA FactorNextInv ==
    ASSUME FactorInv, [FactorNext]_factorVars
    PROVE  FactorInv'
BY ChallengesKeep, AnswersKeep, SpendCodeKeeps, KeyOptionsKeep, SpendKeyKeeps, SatisfyKeeps,
   SettingsKeep, RemovalKeeps, FactorTimeKeeps DEF FactorNext

\* A sign-in by key is counted over an open challenge only.
LEMMA RemovalStep ==
    ASSUME FactorInv, [FactorNext]_factorVars, NEW h \in ended
    PROVE  byKey'[h] = byKey[h]
<1>1. Over(h) /\ h \in Challenges
  BY FactorTables DEF FactorInv, ByKeyOnce
<1>2. ASSUME NEW a \in Answers, SatisfyMfaChallenge(a) PROVE byKey'[h] = byKey[h]
  <2>1. CASE answer[a].on = h
    BY <1>1, <1>2, <2>1 DEF SatisfyMfaChallenge, Over
  <2>2. CASE answer[a].on # h
    BY <1>1, <1>2, <2>2, FactorTables DEF SatisfyMfaChallenge
  <2> QED
    BY <2>1, <2>2
<1>3. CASE UNCHANGED byKey
  BY <1>3
<1>4. ASSUME NEW a \in Answers, \/ SignInKeyOptions(a)   \/ CompleteSignInWithKey(a)
                                \/ BeginMfaChallenge(a)  \/ AnswerMfaChallenge(a)
                                \/ AnswerByTotp(a)       \/ SpendRecoveryCode(a)
                                \/ AnswerByRecoveryCode(a) \/ AnswerFails(a)
                                \/ SpendChallenge(a)
      PROVE  UNCHANGED byKey
  BY <1>4 DEF SignInKeyOptions, CompleteSignInWithKey, BeginMfaChallenge, AnswerMfaChallenge,
     AnswerByTotp, SpendRecoveryCode, AnswerByRecoveryCode, AnswerFails, SpendChallenge,
     Takes, factorHistory
<1>5. ASSUME NEW a \in Answers, \/ BeginMfaEnrolment(a)   \/ ConfirmMfaEnrolment(a)
                                \/ RegenerateRecoveryCodes(a)
                                \/ CompleteWebauthnRegistration(a)
                                \/ DisableMfa(a)          \/ RemoveMfaForClient(a)
      PROVE  UNCHANGED byKey
  BY <1>5 DEF BeginMfaEnrolment, ConfirmMfaEnrolment, RegenerateRecoveryCodes,
     CompleteWebauthnRegistration, DisableMfa, RemoveMfaForClient, Removes, NewCodes,
     Takes, factorHistory
<1> QED
  BY <1>2, <1>3, <1>4, <1>5 DEF FactorNext, FactorTime, factorVars, factorHistory

(***************************************************************************)
(* A recovery code presented on a challenge that the desk ended is not     *)
(* fresh: the removal superseded all there were, and a code that was ever  *)
(* handed out does not become fresh again.                                 *)
(***************************************************************************)
PresentedOK(row) ==
    row.op = "recovering" =>
        /\ row.uses \in Codes /\ recovery[row.uses] # "none"
        /\ row.on \in ended => recovery[row.uses] # "fresh"

RemovedInv == FactorInv /\ \A a \in Answers : PresentedOK(answer[a])

\* What a request turns to: nothing that was accepted or presented, or the code
\* it presented was fresh, or it takes up an open challenge.
Elsewhere(row) == row.op \notin {"verified", "recovered", "recovering"}
TurnsOK(row, next) ==
    \/ Elsewhere(next)
    \/ /\ next.op = "recovered" /\ row.op = "recovering" /\ next.on = row.on
       /\ recovery[row.uses] = "fresh"
    \/ /\ next.op \in {"verified", "recovering"}
       /\ next.on \in Challenges /\ ~Over(next.on)
       /\ next.op = "recovering" => next.uses \in Codes /\ recovery[next.uses] # "none"
TurnsAs(a, next) == Turns(a, next) /\ TurnsOK(answer[a], next)
MayTurn(a)       == \E next : TurnsAs(a, next)

\* What becomes of the codes: one that was handed out stays so, and one that is
\* gone does not come back; the desk leaves none fresh.
CodesMove ==
    /\ \A n \in Codes : recovery[n] # "none" =>
          /\ recovery'[n] # "none"
          /\ recovery[n] # "fresh" => recovery'[n] # "fresh"
    /\ \/ UNCHANGED ended
       \/ \A n \in Codes : recovery'[n] # "fresh"

LEMMA TurnsElsewhere ==
    ASSUME NEW a, NEW next, Turns(a, next), Elsewhere(next)
    PROVE  MayTurn(a)
BY DEF MayTurn, TurnsAs, TurnsOK

LEMMA SupersededMove ==
    ASSUME FactorInv
    PROVE  \A n \in Codes : /\ Supersedes[n] # "fresh"
                            /\ recovery[n] # "none" => Supersedes[n] # "none"
                            /\ recovery[n] # "fresh" => Supersedes[n] = recovery[n]
BY FactorTables DEF Supersedes, TurnAll

LEMMA NewCodesMove ==
    ASSUME FactorInv, NEW a \in Answers, NewCodes(a)
    PROVE  CodesMove
<1>1. PICK n \in NextOf(recovery, IsNone) : recovery' = [Supersedes EXCEPT ![n] = "fresh"]
  BY DEF NewCodes
<1>2. n \in Codes /\ recovery[n] = "none"
  BY FactorTables DEF NextOf, IsNone
<1> DEFINE S == Supersedes
<1>3. S \in [Codes -> {"none", "fresh", "used", "superseded"}]
  BY SupersedesIs
<1>4. \A m \in Codes : recovery'[m] = IF m = n THEN "fresh" ELSE S[m]
  BY <1>1, <1>3
<1>5. \A m \in Codes : /\ recovery[m] # "none" => S[m] # "none"
                       /\ S[m] # "fresh"
  BY SupersededMove
<1> HIDE DEF S
<1>6. \A m \in Codes : recovery[m] # "none" =>
          /\ recovery'[m] # "none"
          /\ recovery[m] # "fresh" => recovery'[m] # "fresh"
  BY <1>2, <1>4, <1>5
<1> QED
  BY <1>6 DEF CodesMove, NewCodes, factorHistory

\* Every step of a request is such a turn, over codes that move so.
LEMMA SignInTurns ==
    ASSUME FactorInv, NEW a \in Answers,
           \/ BeginMfaChallenge(a) \/ AnswerMfaChallenge(a) \/ AnswerByTotp(a)
           \/ SpendRecoveryCode(a) \/ AnswerByRecoveryCode(a) \/ AnswerFails(a)
    PROVE  CodesMove /\ MayTurn(a)
<1>1. CASE BeginMfaChallenge(a)
  <2>1. UNCHANGED <<recovery, ended>>
    BY <1>1 DEF BeginMfaChallenge, Takes, factorRows, factorHistory
  <2>2. Turns(a, [Waiting EXCEPT !.op = "challenge"]) \/ Turns(a, Waiting)
    BY <1>1 DEF BeginMfaChallenge, Takes, Done
  <2>3. Elsewhere([Waiting EXCEPT !.op = "challenge"]) /\ Elsewhere(Waiting)
    BY DEF Waiting, Elsewhere
  <2> QED
    BY <2>1, <2>2, <2>3, TurnsElsewhere DEF CodesMove
<1>2. CASE AnswerMfaChallenge(a)
  <2>1. UNCHANGED <<recovery, ended>>
    BY <1>2 DEF AnswerMfaChallenge, Takes, factorRows, factorHistory
  <2>2. PICK h \in Challenges :
          /\ Answerable(h)
          /\ \/ \E s \in 1..LastStep :
                  Takes(a, [op |-> "verified", on |-> h, uses |-> TheFactor,
                            step |-> s, failed |-> 0])
             \/ \E n \in Codes :
                  /\ recovery[n] # "none"
                  /\ Takes(a, [op |-> "recovering", on |-> h, uses |-> n, step |-> 0,
                               failed |-> challenge[h].failed])
             \/ Takes(a, [op |-> "failed", on |-> h, uses |-> 0, step |-> 0,
                          failed |-> challenge[h].failed])
    BY <1>2 DEF AnswerMfaChallenge
  <2>3. ~Over(h)
    BY <2>2 DEF Answerable, Over
  <2>4. ASSUME NEW s \in 1..LastStep,
               Takes(a, [op |-> "verified", on |-> h, uses |-> TheFactor,
                         step |-> s, failed |-> 0])
        PROVE  MayTurn(a)
    <3> DEFINE next == [op |-> "verified", on |-> h, uses |-> TheFactor,
                        step |-> s, failed |-> 0]
    <3>1. Turns(a, next)
      BY <2>4 DEF Takes
    <3>2. TurnsOK(answer[a], next)
      BY <2>3 DEF TurnsOK
    <3> HIDE DEF next
    <3> QED
      BY <3>1, <3>2 DEF MayTurn, TurnsAs
  <2>5. ASSUME NEW n \in Codes, recovery[n] # "none",
               Takes(a, [op |-> "recovering", on |-> h, uses |-> n, step |-> 0,
                         failed |-> challenge[h].failed])
        PROVE  MayTurn(a)
    <3> DEFINE next == [op |-> "recovering", on |-> h, uses |-> n, step |-> 0,
                        failed |-> challenge[h].failed]
    <3>1. Turns(a, next)
      BY <2>5 DEF Takes
    <3>2. TurnsOK(answer[a], next)
      BY <2>3, <2>5 DEF TurnsOK
    <3> HIDE DEF next
    <3> QED
      BY <3>1, <3>2 DEF MayTurn, TurnsAs
  <2>6. ASSUME Takes(a, [op |-> "failed", on |-> h, uses |-> 0, step |-> 0,
                         failed |-> challenge[h].failed])
        PROVE  MayTurn(a)
    <3> DEFINE next == [op |-> "failed", on |-> h, uses |-> 0, step |-> 0,
                        failed |-> challenge[h].failed]
    <3>1. Turns(a, next) /\ Elsewhere(next)
      BY <2>6 DEF Takes, Elsewhere
    <3> HIDE DEF next
    <3> QED
      BY <3>1, TurnsElsewhere
  <2> QED
    BY <2>1, <2>2, <2>4, <2>5, <2>6 DEF CodesMove
<1>3. CASE AnswerByTotp(a) \/ AnswerByRecoveryCode(a) \/ AnswerFails(a)
  <2>1. UNCHANGED <<recovery, ended>> /\ Turns(a, Waiting)
    BY <1>3 DEF AnswerByTotp, AnswerByRecoveryCode, AnswerFails, Done, factorHistory
  <2>2. Elsewhere(Waiting)
    BY DEF Waiting, Elsewhere
  <2> QED
    BY <2>1, <2>2, TurnsElsewhere DEF CodesMove
<1>4. CASE SpendRecoveryCode(a)
  <2>1. PICK n : n = answer[a].uses
    OBVIOUS
  <2>2. CodesMove
    BY <1>4, FactorTables DEF SpendRecoveryCode, CodesMove
  <2>3. answer[a].op = "recovering"
    BY <1>4 DEF SpendRecoveryCode, Answering
  <2>4. answer[a] \in FactorLocals
    BY FactorTables
  <2>5. CASE recovery[n] = "fresh"
    <3> DEFINE next == [answer[a] EXCEPT !.op = "recovered"]
    <3>1. Turns(a, next)
      BY <1>4, <2>1, <2>5 DEF SpendRecoveryCode, Next_op
    <3>2. next.op = "recovered" /\ next.on = answer[a].on
      BY <2>4 DEF FactorLocals
    <3> HIDE DEF next
    <3> QED
      BY <2>1, <2>2, <2>3, <2>5, <3>1, <3>2 DEF MayTurn, TurnsAs, TurnsOK
  <2>6. CASE recovery[n] # "fresh"
    <3>1. Turns(a, [answer[a] EXCEPT !.op = "failed"])
      BY <1>4, <2>1, <2>6 DEF SpendRecoveryCode, Next_op
    <3>2. Elsewhere([answer[a] EXCEPT !.op = "failed"])
      BY <2>4 DEF Elsewhere, FactorLocals
    <3> QED
      BY <2>2, <3>1, <3>2, TurnsElsewhere
  <2> QED
    BY <2>5, <2>6
<1> QED
  BY <1>1, <1>2, <1>3, <1>4

LEMMA KeyTurns ==
    ASSUME FactorInv, NEW a \in Answers,
           \/ SignInKeyOptions(a) \/ CompleteSignInWithKey(a)
           \/ SpendChallenge(a)   \/ SatisfyMfaChallenge(a)
    PROVE  CodesMove /\ MayTurn(a)
<1>1. UNCHANGED <<recovery, ended>>
  BY DEF SignInKeyOptions, CompleteSignInWithKey, SpendChallenge, SatisfyMfaChallenge, Takes,
     factorRows, factorHistory
<1>2. answer[a] \in FactorLocals
  BY FactorTables
<1>3. \/ Turns(a, Waiting)
      \/ Turns(a, [Waiting EXCEPT !.op = "options"])
      \/ \E h, w : Turns(a, [Waiting EXCEPT !.op = "key", !.on = h, !.uses = w])
      \/ \E w : Turns(a, [answer[a] EXCEPT !.op = "spend", !.step = w])
      \/ Turns(a, [answer[a] EXCEPT !.op = "satisfy"])
  BY DEF SignInKeyOptions, CompleteSignInWithKey, SpendChallenge, SatisfyMfaChallenge, Takes,
     Done, Next_op
<1>4. /\ Elsewhere(Waiting) /\ Elsewhere([Waiting EXCEPT !.op = "options"])
      /\ \A h, w : Elsewhere([Waiting EXCEPT !.op = "key", !.on = h, !.uses = w])
      /\ \A w : Elsewhere([answer[a] EXCEPT !.op = "spend", !.step = w])
      /\ Elsewhere([answer[a] EXCEPT !.op = "satisfy"])
  BY <1>2 DEF Waiting, Elsewhere, FactorLocals
<1>5. MayTurn(a)
  BY <1>3, <1>4, TurnsElsewhere
<1> QED
  BY <1>1, <1>5 DEF CodesMove

LEMMA SettingsTurn ==
    ASSUME FactorInv, NEW a \in Answers,
           \/ BeginMfaEnrolment(a)       \/ ConfirmMfaEnrolment(a)
           \/ RegenerateRecoveryCodes(a) \/ CompleteWebauthnRegistration(a)
           \/ DisableMfa(a)              \/ RemoveMfaForClient(a)
    PROVE  CodesMove /\ MayTurn(a)
<1>1. \/ Turns(a, Waiting)
      \/ \E op \in {"enrol", "codes", "register"} : Turns(a, [Waiting EXCEPT !.op = op])
      \/ \E op \in {"disable", "desk"} :
            Turns(a, [Waiting EXCEPT !.op = op, !.uses = TheFactor])
      \/ \E f, s : Turns(a, [Waiting EXCEPT !.op = "confirm", !.uses = f, !.step = s])
  BY DEF BeginMfaEnrolment, ConfirmMfaEnrolment, RegenerateRecoveryCodes,
     CompleteWebauthnRegistration, DisableMfa, RemoveMfaForClient, Removes, NewCodes, Takes, Done
<1>2. /\ Elsewhere(Waiting)
      /\ \A op \in {"enrol", "codes", "register"} : Elsewhere([Waiting EXCEPT !.op = op])
      /\ \A op \in {"disable", "desk"} :
            Elsewhere([Waiting EXCEPT !.op = op, !.uses = TheFactor])
      /\ \A f, s : Elsewhere([Waiting EXCEPT !.op = "confirm", !.uses = f, !.step = s])
  BY DEF Waiting, Elsewhere
<1>3. MayTurn(a)
  BY <1>1, <1>2, TurnsElsewhere
<1>4. CASE UNCHANGED <<recovery, ended>>
  BY <1>3, <1>4 DEF CodesMove
<1>5. CASE NewCodes(a)
  BY <1>3, <1>5, NewCodesMove
<1>6. CASE recovery' = Supersedes
  BY <1>3, <1>6, SupersededMove DEF CodesMove
<1>7. UNCHANGED <<recovery, ended>> \/ NewCodes(a) \/ recovery' = Supersedes
  BY DEF BeginMfaEnrolment, ConfirmMfaEnrolment, RegenerateRecoveryCodes,
     CompleteWebauthnRegistration, DisableMfa, RemoveMfaForClient, Removes, Takes, factorRows,
     factorHistory
<1> QED
  BY <1>4, <1>5, <1>6, <1>7

\* Requests that are somewhere else have presented what they had.
LEMMA RemovedNext ==
    ASSUME RemovedInv, [FactorNext]_factorVars
    PROVE  /\ RemovedInv'
           /\ \A h \in ended, a \in Answers :
                 (answer'[a].on = h /\ CodeAccepted(answer'[a])) => answer'[a] = answer[a]
<1>1. FactorInv /\ FactorInv'
  BY FactorNextInv DEF RemovedInv
<1>2. CASE UNCHANGED <<answer, recovery, ended>>
  BY <1>1, <1>2 DEF RemovedInv, PresentedOK
<1>3. ASSUME NEW b \in Answers, CodesMove, MayTurn(b)
      PROVE  /\ RemovedInv'
             /\ \A h \in ended, a \in Answers :
                   (answer'[a].on = h /\ CodeAccepted(answer'[a])) => answer'[a] = answer[a]
  <2>0. PICK next : Turns(b, next) /\ TurnsOK(answer[b], next)
    BY <1>3 DEF MayTurn, TurnsAs
  <2>1. \A a \in Answers : answer'[a] = IF a = b THEN next ELSE answer[a]
    BY <1>1, <2>0, FactorTables DEF Turns
  <2>2. \A h \in ended : Over(h) /\ h \in Challenges
    BY <1>1, FactorTables DEF FactorInv, ByKeyOnce
  <2>3. \A a \in Answers : PresentedOK(answer[a])
    BY DEF RemovedInv
  <2>4. ASSUME NEW h \in ended, next.on = h, CodeAccepted(next) PROVE FALSE
    <3>1. PresentedOK(answer[b])
      BY <2>3
    <3> QED
      BY <2>0, <2>2, <2>4, <3>1 DEF TurnsOK, Elsewhere, CodeAccepted, PresentedOK
  <2>5. ASSUME NEW a \in Answers, a # b PROVE PresentedOK(answer[a])'
    <3>1. PresentedOK(answer[a]) /\ answer'[a] = answer[a]
      BY <2>1, <2>3, <2>5
    <3> QED
      BY <1>3, <3>1 DEF PresentedOK, CodesMove
  <2>6. PresentedOK(answer[b])'
    <3>1. answer'[b] = next
      BY <2>1
    <3>2. next.op = "recovering" =>
            /\ next.uses \in Codes /\ recovery[next.uses] # "none" /\ next.on \notin ended
      BY <2>0, <2>2 DEF TurnsOK, Elsewhere
    <3> QED
      BY <1>3, <3>1, <3>2 DEF PresentedOK, CodesMove
  <2>7. RemovedInv'
    BY <1>1, <2>5, <2>6 DEF RemovedInv
  <2> QED
    BY <2>1, <2>4, <2>7
<1>4. CASE FactorTime \/ UNCHANGED factorVars
  BY <1>2, <1>4 DEF FactorTime, factorVars, factorRows, factorHistory
<1> QED
  BY <1>1, <1>3, <1>4, SignInTurns, KeyTurns, SettingsTurn DEF FactorNext

-----------------------------------------------------------------------------
(***************************************************************************)
(* The account.  A request that begins has passed its checks against the   *)
(* row as it was (CallOK, StillAllowed), and a move that was barred never  *)
(* becomes pending again: cancelling leaves none, and asking takes a new   *)
(* row.                                                                    *)
(***************************************************************************)
AccountOps == {"free", "invite", "enrol", "authenticate", "issue", "create", "resolve",
               "revoke", "disable", "ask", "give", "reissue", "redeem", "change", "cancel",
               "switch_off", "switch_on", "remove", "restore", "ask_move", "desk_move", "move"}

AccountLocals == [op : AccountOps, on : Nat, password : Nat, attempts : Nat, good : BOOLEAN]

UserRows == [password : Passwords \union {0}, enrolled : BOOLEAN, disabled : BOOLEAN,
             passwordOff : BOOLEAN, removed : BOOLEAN, failed : Nat,
             locked : BOOLEAN, address : Moves \union {0}]

CallOK(k) ==
    /\ k.op \in {"enrol", "redeem", "change"} => k.password \in Passwords
    /\ k.op = "move" => k.on \in Moves

Dead(m) == move[m] \notin {"none", "pending"}

AccountInv ==
    /\ AccountTypeOK
    /\ call \in [Calls -> AccountLocals]
    /\ \A c \in Calls : CallOK(call[c])
    /\ \A m \in barred : Dead(m)

StillAllowed(k) ==
    /\ k.op = "resolve" => ~user.disabled
    /\ (k.op = "authenticate" /\ k.good) => ~user.removed
    /\ k.op = "move" => k.on \notin barred

\* What the step makes of a request it begins.
Allowed(c) == \E next \in AccountLocals : Goes(c, next) /\ StillAllowed(next)

LEMMA AccountTables ==
    ASSUME AccountInv
    PROVE  /\ user \in UserRows
           /\ invitation \in [Invitations -> {"none", "sent", "accepted", "expired"}]
           /\ reset \in [Resets -> {"none", "outstanding", "superseded", "consumed", "expired"}]
           /\ move \in [Moves -> {"none", "pending", "cancelled", "consumed", "expired"}]
           /\ session \in [Sessions -> {"none", "live", "lapsed", "revoked"}]
           /\ barred \subseteq Moves
           /\ call \in [Calls -> AccountLocals]
           /\ \A c \in Calls : call[c].on \in Nat /\ call[c].attempts \in Nat
BY DEF AccountInv, AccountTypeOK, UserRows, AccountLocals

LEMMA AccountNumbers ==
    /\ \A i \in Invitations : i \in Nat
    /\ \A r \in Resets : r \in Nat
    /\ \A m \in Moves : m \in Nat
    /\ \A x \in Sessions : x \in Nat
    /\ \A p \in Passwords : p \in Nat
<1>1. \A set \in {Invitations, Resets, Moves, Sessions, Passwords} :
        IsFiniteSet(set) /\ set = 1..Cardinality(set)
  BY AccountAssumption
<1>2. ASSUME NEW S, IsFiniteSet(S), S = 1..Cardinality(S) PROVE \A n \in S : n \in Nat
  <2>1. Cardinality(S) \in Nat
    BY <1>2, FS_CardinalityType
  <2> QED
    BY <1>2, <2>1
<1> QED
  BY <1>1, <1>2

LEMMA FreeIs == Free \in AccountLocals /\ Free.op = "free"
BY DEF Free, AccountLocals, AccountOps

LEMMA ReadIs ==
    ASSUME NEW op \in AccountOps, NEW on \in Nat, NEW p \in Nat
    PROVE  /\ Read(op, on, p) \in AccountLocals
           /\ Read(op, on, p).op = op /\ Read(op, on, p).on = on
           /\ Read(op, on, p).password = p
<1>1. ASSUME NEW r \in AccountLocals,
             NEW x, x = [r EXCEPT !.op = op, !.on = on, !.password = p]
      PROVE  x \in AccountLocals /\ x.op = op /\ x.on = on /\ x.password = p
  BY <1>1 DEF AccountLocals
<1> DEFINE x == Read(op, on, p)
<1>2. x = [Free EXCEPT !.op = op, !.on = on, !.password = p]
  BY DEF Read
<1> HIDE DEF x
<1>3. x \in AccountLocals /\ x.op = op /\ x.on = on /\ x.password = p
  BY <1>1, <1>2, FreeIs
<1> QED
  BY <1>3 DEF x

LEMMA AccountKeeps ==
    ASSUME AccountInv, NEW c \in Calls, NEW next \in AccountLocals, Goes(c, next),
           CallOK(next), StillAllowed(next), user' \in UserRows,
           invitation' \in [Invitations -> {"none", "sent", "accepted", "expired"}],
           reset' \in [Resets -> {"none", "outstanding", "superseded", "consumed", "expired"}],
           move' \in [Moves -> {"none", "pending", "cancelled", "consumed", "expired"}],
           \A m \in Moves : Dead(m) => Dead(m)',
           session' \in [Sessions -> {"none", "live", "lapsed", "revoked"}],
           barred' \subseteq Moves, \A m \in barred' \ barred : Dead(m)'
    PROVE  AccountInv' /\ Allowed(c)
<1>1. AccountTypeOK'
  BY DEF AccountTypeOK, UserRows
<1>2. /\ call' \in [Calls -> AccountLocals]
      /\ \A d \in Calls : call'[d] = IF d = c THEN next ELSE call[d]
  BY AccountTables DEF Goes
<1>3. \A d \in Calls : CallOK(call[d])'
  BY <1>2 DEF AccountInv, CallOK
<1>4. \A m \in barred' : Dead(m)'
  <2> HIDE DEF Dead
  <2> QED
    BY AccountTables DEF AccountInv
<1> QED
  BY <1>1, <1>2, <1>3, <1>4 DEF AccountInv, Allowed

LEMMA ReadsKeep ==
    ASSUME AccountInv, NEW c \in Calls, NEW next \in AccountLocals, Reads(c, next),
           CallOK(next), StillAllowed(next)
    PROVE  AccountInv' /\ Allowed(c)
<1>1. Goes(c, next) /\ UNCHANGED <<user, invitation, reset, move, session, barred>>
  BY DEF Reads, rows, Goes
<1> QED
  BY <1>1, AccountTables, AccountKeeps DEF Dead

LEMMA AccountBegins ==
    ASSUME AccountInv, NEW c \in Calls, NEW op \in AccountOps \ {"authenticate"},
           NEW on \in Nat, NEW p \in Nat, Reads(c, Read(op, on, p)),
           op \in {"enrol", "redeem", "change"} => p \in Passwords,
           op = "move" => on \in Moves \ barred, op = "resolve" => ~user.disabled
    PROVE  AccountInv' /\ Allowed(c)
<1>1. /\ Read(op, on, p) \in AccountLocals
      /\ Read(op, on, p).op = op /\ Read(op, on, p).on = on /\ Read(op, on, p).password = p
  BY ReadIs
<1> QED
  BY <1>1, ReadsKeep DEF CallOK, StillAllowed

\* The statements in the middle and at the end of a handler.
Plain == {"free", "issue", "create", "give", "reissue", "cancel"}

LEMMA PlainIs ==
    ASSUME NEW k, k.op \in Plain
    PROVE  CallOK(k) /\ StillAllowed(k)
BY DEF Plain, CallOK, StillAllowed

LEMMA GoesOnIs ==
    /\ Free \in AccountLocals /\ Free.op \in Plain
    /\ \A op \in Plain : Read(op, 0, 0) \in AccountLocals /\ Read(op, 0, 0).op \in Plain
BY FreeIs, ReadIs DEF Plain, AccountOps

\* What the tables of statuses become.
LEMMA TurnIs ==
    ASSUME NEW S, NEW V, NEW table \in [S -> V], NEW from, NEW to \in V
    PROVE  /\ Turn(table, from, to) \in [S -> V]
           /\ \A n \in S : Turn(table, from, to)[n] = IF table[n] = from THEN to ELSE table[n]
BY DEF Turn

LEMMA AddIs ==
    ASSUME NEW S, NEW V, NEW table \in [S -> V], NEW m, NEW status \in V
    PROVE  /\ Add(table, m, status) \in [S -> V]
           /\ \A n \in S : Add(table, m, status)[n] = IF n = m THEN status ELSE table[n]
BY DEF Add

LEMMA AccountInitInv == AccountInit => AccountInv
<1> SUFFICES ASSUME AccountInit PROVE AccountInv
  OBVIOUS
<1>1. PICK enrolled \in BOOLEAN :
         user = [password |-> IF enrolled THEN 1 ELSE 0, enrolled |-> enrolled,
                 disabled |-> FALSE, passwordOff |-> FALSE, removed |-> FALSE,
                 failed |-> 0, locked |-> FALSE, address |-> 0]
  BY DEF AccountInit
<1>2. 1 \in Passwords
  BY AccountAssumption
<1>3. user \in UserRows
  <2>1. CASE enrolled
    BY <1>1, <1>2, <2>1 DEF UserRows
  <2>2. CASE ~enrolled
    BY <1>1, <2>2 DEF UserRows
  <2> QED
    BY <2>1, <2>2
<1>4. AccountTypeOK
  BY <1>3 DEF AccountInit, AccountTypeOK, UserRows
<1>5. call \in [Calls -> AccountLocals] /\ \A c \in Calls : call[c].op = "free"
  BY FreeIs DEF AccountInit
<1> QED
  BY <1>4, <1>5 DEF AccountInv, AccountInit, CallOK

LEMMA InvitationsKeep ==
    ASSUME AccountInv, NEW c \in Calls, InviteClientUser(c) \/ EnrolClientUser(c)
    PROVE  AccountInv' /\ Allowed(c)
<1>1. CASE Reads(c, Read("invite", 0, 0))
  BY <1>1, AccountBegins DEF AccountOps
<1>2. CASE \E i \in Invitations, p \in Passwords : Reads(c, Read("enrol", i, p))
  BY <1>2, AccountBegins, AccountNumbers DEF AccountOps
<1>3. CASE /\ \E i \in Fresh(invitation) :
                 invitation' = Add(Turn(invitation, "sent", "expired"), i, "sent")
           /\ Ends(c) /\ Quiet /\ UNCHANGED <<user, reset, move, session, barred>>
  <2>1. invitation' \in [Invitations -> {"none", "sent", "accepted", "expired"}]
    <3> DEFINE T == Turn(invitation, "sent", "expired")
    <3>1. T \in [Invitations -> {"none", "sent", "accepted", "expired"}]
      BY AccountTables, TurnIs
    <3> HIDE DEF T
    <3>2. PICK i : invitation' = Add(T, i, "sent")
      BY <1>3 DEF T
    <3> QED
      BY <3>1, <3>2 DEF Add
  <2> QED
    BY <1>3, <2>1, GoesOnIs, PlainIs, AccountTables, AccountKeeps DEF Ends, Dead
<1>4. CASE /\ In(c, "enrol")
           /\ invitation' = Add(invitation, call[c].on, "accepted")
           /\ user' = [user EXCEPT !.password = call[c].password, !.enrolled = TRUE,
                                   !.failed = 0, !.locked = FALSE]
           /\ Ends(c) /\ Quiet /\ UNCHANGED <<reset, move, session, barred>>
  <2>1. PICK p \in Passwords : p = call[c].password
    BY <1>4 DEF In, AccountInv, CallOK
  <2>2. user' = [user EXCEPT !.password = p, !.enrolled = TRUE, !.failed = 0, !.locked = FALSE]
    BY <1>4, <2>1
  <2>3. user' \in UserRows
    BY <2>2, AccountTables DEF UserRows
  <2>4. invitation' \in [Invitations -> {"none", "sent", "accepted", "expired"}]
    BY <1>4, AccountTables DEF Add
  <2> QED
    BY <1>4, <2>3, <2>4, GoesOnIs, PlainIs, AccountTables, AccountKeeps DEF Ends, Dead
<1> QED
  BY <1>1, <1>2, <1>3, <1>4 DEF InviteClientUser, EnrolClientUser

\* The password is compared with a row that says whether it was removed.
LEMMA AuthenticateKeeps ==
    ASSUME AccountInv, NEW c \in Calls, AuthenticateClientUser(c)
    PROVE  AccountInv' /\ Allowed(c)
<1>1. ASSUME NEW p \in Passwords,
             Reads(c, [Read("authenticate", 0, p) EXCEPT
                          !.attempts = user.failed, !.good = SignsInWith(p)])
      PROVE  AccountInv' /\ Allowed(c)
  <2> DEFINE good == SignsInWith(p)
             r    == Read("authenticate", 0, p)
             next == [r EXCEPT !.attempts = user.failed, !.good = good]
  <2>1. good \in BOOLEAN
    BY Zenon DEF SignsInWith, Usable
  <2>2. good => ~user.removed
    BY DEF SignsInWith
  <2>3. r \in AccountLocals /\ r.op = "authenticate"
    BY ReadIs, AccountNumbers DEF AccountOps
  <2>4. Reads(c, next)
    BY <1>1
  <2>5. user.failed \in Nat
    BY AccountTables DEF UserRows
  <2> HIDE DEF good, r
  <2>6. next \in AccountLocals /\ next.op = "authenticate" /\ next.good = good
    BY <2>1, <2>3, <2>5 DEF AccountLocals
  <2> HIDE DEF next
  <2> QED
    BY <2>2, <2>4, <2>6, ReadsKeep DEF CallOK, StillAllowed
<1>2. ASSUME NEW n \in Nat, NEW locked \in BOOLEAN, NEW next, next \in {Free, Read("issue", 0, 0)},
             user' = [user EXCEPT !.failed = n, !.locked = locked],
             Goes(c, next), UNCHANGED <<invitation, reset, move, session, barred>>
      PROVE  AccountInv' /\ Allowed(c)
  <2>1. user' \in UserRows
    BY <1>2, AccountTables DEF UserRows
  <2>2. next \in AccountLocals /\ next.op \in Plain
    BY <1>2, GoesOnIs DEF Plain
  <2> QED
    BY <1>2, <2>1, <2>2, PlainIs, AccountTables, AccountKeeps DEF Dead
<1>3. CASE /\ IF call[c].good
              THEN /\ user' = [user EXCEPT !.failed = 0, !.locked = FALSE]
                   /\ Goes(c, Read("issue", 0, 0))
              ELSE /\ user' = [user EXCEPT
                                 !.failed = call[c].attempts + 1,
                                 !.locked = @ \/ call[c].attempts + 1 >= MaxFailedAttempts]
                   /\ Ends(c)
           /\ Quiet /\ UNCHANGED <<invitation, reset, move, session, barred>>
  <2>1. CASE call[c].good
    <3> DEFINE next == Read("issue", 0, 0)
    <3>1. /\ user' = [user EXCEPT !.failed = 0, !.locked = FALSE] /\ Goes(c, next)
          /\ UNCHANGED <<invitation, reset, move, session, barred>>
      BY <1>3, <2>1
    <3> HIDE DEF next
    <3>2. next = Read("issue", 0, 0)
      BY DEF next
    <3> QED
      BY <1>2, <3>1, <3>2
  <2>2. CASE ~call[c].good
    <3> DEFINE n == call[c].attempts + 1
               locked == user.locked \/ call[c].attempts + 1 >= MaxFailedAttempts
    <3>1. n \in Nat /\ Goes(c, Free)
      BY <1>3, <2>2, AccountTables DEF Ends
    <3>2. locked \in BOOLEAN
      BY Zenon
    <3>3. /\ user' = [user EXCEPT !.failed = n, !.locked = locked]
          /\ UNCHANGED <<invitation, reset, move, session, barred>>
      BY <1>3, <2>2
    <3> HIDE DEF n, locked
    <3> QED
      BY <1>2, <3>1, <3>2, <3>3
  <2> QED
    BY <2>1, <2>2
<1> QED
  BY <1>1, <1>3 DEF AuthenticateClientUser

\* Sessions: only one of a user who is not disabled is resolved.
LEMMA SessionsKeep ==
    ASSUME AccountInv, NEW c \in Calls,
           \/ IssueSession(c)  \/ ResolveSession(c)
           \/ RevokeSession(c) \/ DisableClientUser(c)
    PROVE  AccountInv' /\ Allowed(c)
<1>1. CASE \/ Reads(c, Read("issue", 0, 0)) \/ Reads(c, Read("disable", 0, 0))
           \/ \E s \in Sessions : \/ ~user.disabled /\ Reads(c, Read("resolve", s, 0))
                                  \/ Reads(c, Read("revoke", s, 0))
  BY <1>1, AccountBegins, AccountNumbers DEF AccountOps
<1>2. CASE /\ \/ Goes(c, IF Usable THEN Read("create", 0, 0) ELSE Free)
              \/ Ends(c)
           /\ UNCHANGED <<rows, barred>>
  <2>1. PICK next \in {Read("create", 0, 0), Free} : Goes(c, next)
    BY <1>2 DEF Ends
  <2>2. next \in AccountLocals /\ next.op \in Plain
    BY <2>1, GoesOnIs DEF Plain
  <2> QED
    BY <1>2, <2>1, <2>2, PlainIs, AccountTables, AccountKeeps DEF rows, Dead
<1>3. CASE /\ \/ \E s \in Fresh(session) : session' = Add(session, s, "live")
              \/ session' = Add(session, call[c].on, "revoked")
           /\ Ends(c) /\ UNCHANGED <<user, invitation, reset, move, barred>>
  <2>1. session' \in [Sessions -> {"none", "live", "lapsed", "revoked"}]
    BY <1>3, AccountTables DEF Add
  <2> QED
    BY <1>3, <2>1, GoesOnIs, PlainIs, AccountTables, AccountKeeps DEF Ends, Dead
<1>4. CASE /\ session' = Turn(Turn(session, "live", "revoked"), "lapsed", "revoked")
           /\ user' = [user EXCEPT !.disabled = TRUE]
           /\ Ends(c) /\ UNCHANGED <<invitation, reset, move, barred>>
  <2>1. session' \in [Sessions -> {"none", "live", "lapsed", "revoked"}]
    BY <1>4, AccountTables, TurnIs
  <2>2. user' \in UserRows
    BY <1>4, AccountTables DEF UserRows
  <2> QED
    BY <1>4, <2>1, <2>2, GoesOnIs, PlainIs, AccountTables, AccountKeeps DEF Ends, Dead
<1> QED
  BY <1>1, <1>2, <1>3, <1>4
     DEF IssueSession, ResolveSession, RevokeSession, DisableClientUser

LEMMA SupersedeIs ==
    ASSUME AccountInv
    PROVE  Supersede \in [Resets -> {"none", "outstanding", "superseded", "consumed", "expired"}]
BY AccountTables, TurnIs DEF Supersede

\* Cancelling leaves no address change pending.
LEMMA CancelPendingIs ==
    ASSUME AccountInv
    PROVE  /\ CancelPending \in [Moves -> {"none", "pending", "cancelled", "consumed", "expired"}]
           /\ \A m \in Moves : CancelPending[m] = IF move[m] = "pending" THEN "cancelled"
                                                  ELSE move[m]
<1>1. move \in [Moves -> {"none", "pending", "cancelled", "consumed", "expired"}]
  BY AccountTables
<1>2. CancelPending = [m \in Moves |-> IF move[m] = "pending" THEN "cancelled" ELSE move[m]]
  BY <1>1 DEF CancelPending, Turn
<1> QED
  BY <1>1, <1>2

LEMMA ResetsKeep ==
    ASSUME AccountInv, NEW c \in Calls, RequestPasswordReset(c) \/ IssuePasswordReset(c)
    PROVE  AccountInv' /\ Allowed(c)
<1>1. CASE Reads(c, Read("ask", 0, 0)) \/ Reads(c, Read("give", 0, 0))
  BY <1>1, AccountBegins DEF AccountOps
<1>2. CASE AddReset(c, Free)
  <2> DEFINE T == Supersede
  <2>1. T \in [Resets -> {"none", "outstanding", "superseded", "consumed", "expired"}]
    BY SupersedeIs
  <2>2. PICK r : reset' = Add(T, r, "outstanding")
    BY <1>2 DEF AddReset
  <2> HIDE DEF T
  <2>3. reset' \in [Resets -> {"none", "outstanding", "superseded", "consumed", "expired"}]
    BY <2>1, <2>2 DEF Add
  <2> QED
    BY <1>2, <2>3, GoesOnIs, PlainIs, AccountTables, AccountKeeps DEF AddReset, Dead
<1>3. CASE /\ UNCHANGED <<rows, barred>>
           /\ Goes(c, IF Usable /\ ~user.removed THEN Read("give", 0, 0) ELSE Free)
  <2>1. PICK next \in {Read("give", 0, 0), Free} : Goes(c, next)
    BY <1>3
  <2>2. next \in AccountLocals /\ next.op \in Plain
    BY <2>1, GoesOnIs DEF Plain
  <2> QED
    BY <1>3, <2>1, <2>2, PlainIs, AccountTables, AccountKeeps DEF rows, Dead
<1> QED
  BY <1>1, <1>2, <1>3 DEF RequestPasswordReset, IssuePasswordReset

\* A new password, by a reset link or from a session.
LEMMA PasswordsKeep ==
    ASSUME AccountInv, NEW c \in Calls, CompletePasswordReset(c) \/ ChangeClientPassword(c)
    PROVE  AccountInv' /\ Allowed(c)
<1>1. CASE \E n \in Resets \union Sessions, p \in Passwords :
             \/ Reads(c, Read("redeem", n, p))
             \/ Reads(c, Read("change", n, p))
  BY <1>1, AccountBegins, AccountNumbers DEF AccountOps
<1>2. CASE /\ In(c, "redeem") \/ In(c, "change")
           /\ \/ reset' = Add(Supersede, call[c].on, "consumed") \/ reset' = Supersede
           /\ \/ session' = Turn(Turn(session, "live", "revoked"), "lapsed", "revoked")
              \/ session' = [s \in Sessions |->
                    IF s # call[c].on /\ session[s] \in {"live", "lapsed"}
                    THEN "revoked" ELSE session[s]]
           /\ SetPassword(call[c].password)
           /\ Goes(c, Read("cancel", 0, 0))
           /\ Quiet /\ UNCHANGED <<invitation, move, barred>>
  <2>1. reset' \in [Resets -> {"none", "outstanding", "superseded", "consumed", "expired"}]
    <3> DEFINE T == Supersede
    <3>1. T \in [Resets -> {"none", "outstanding", "superseded", "consumed", "expired"}]
      BY SupersedeIs
    <3>2. reset' = Add(T, call[c].on, "consumed") \/ reset' = T
      BY <1>2
    <3> HIDE DEF T
    <3> QED
      BY <3>1, <3>2 DEF Add
  <2>2. session' \in [Sessions -> {"none", "live", "lapsed", "revoked"}]
    <3>1. CASE session' = Turn(Turn(session, "live", "revoked"), "lapsed", "revoked")
      BY <3>1, AccountTables, TurnIs
    <3>2. CASE session' = [s \in Sessions |->
                    IF s # call[c].on /\ session[s] \in {"live", "lapsed"}
                    THEN "revoked" ELSE session[s]]
      BY <3>2, AccountTables
    <3> QED
      BY <1>2, <3>1, <3>2
  <2>3. PICK p \in Passwords : p = call[c].password
    BY <1>2 DEF In, AccountInv, CallOK
  <2>4. user' = [user EXCEPT !.password = p, !.failed = 0, !.locked = FALSE]
    BY <1>2, <2>3 DEF SetPassword
  <2>5. user' \in UserRows
    BY <2>4, AccountTables DEF UserRows
  <2> DEFINE next == Read("cancel", 0, 0)
  <2>6. next \in AccountLocals /\ next.op \in Plain /\ Goes(c, next)
    BY <1>2, GoesOnIs DEF Plain
  <2> HIDE DEF next
  <2> QED
    BY <1>2, <2>1, <2>2, <2>5, <2>6, PlainIs, AccountTables, AccountKeeps DEF Dead
<1> QED
  BY <1>1, <1>2 DEF CompletePasswordReset, ChangeClientPassword

\* What is barred was pending, and has been cancelled, or was over.
LEMMA CancelKeeps ==
    ASSUME AccountInv, NEW c \in Calls, CancelPendingEmailChanges(c)
    PROVE  AccountInv' /\ Allowed(c)
<1>1. /\ move' = CancelPending /\ Goes(c, Free)
      /\ barred' = barred \union {m \in Moves : move[m] # "none"}
      /\ UNCHANGED <<user, invitation, reset, session>>
  BY DEF CancelPendingEmailChanges, Ends
<1>2. /\ move' \in [Moves -> {"none", "pending", "cancelled", "consumed", "expired"}]
      /\ \A m \in Moves : move[m] # "none" => Dead(m)'
  BY <1>1, CancelPendingIs DEF Dead
<1>3. \A m \in Moves : Dead(m) => Dead(m)'
  BY <1>2 DEF Dead
<1>4. barred' \subseteq Moves /\ \A m \in barred' \ barred : Dead(m)'
  BY <1>1, <1>2, AccountTables
<1> QED
  BY <1>1, <1>2, <1>3, <1>4, GoesOnIs, PlainIs, AccountTables, AccountKeeps

LEMMA SwitchesKeep ==
    ASSUME AccountInv, NEW c \in Calls,
           \/ DisablePasswordSignIn(c) \/ EnablePasswordSignIn(c)
           \/ RemovePassword(c)        \/ RestorePassword(c)
    PROVE  AccountInv' /\ Allowed(c)
<1>1. CASE \E op \in {"switch_off", "switch_on", "remove", "restore"} : Reads(c, Read(op, 0, 0))
  BY <1>1, AccountBegins DEF AccountOps
<1>2. CASE /\ \/ user' = [user EXCEPT !.passwordOff = TRUE]
              \/ user' = [user EXCEPT !.passwordOff = FALSE]
              \/ user' = [user EXCEPT !.removed = TRUE, !.password = 0]
              \/ user' = [user EXCEPT !.removed = FALSE, !.passwordOff = FALSE]
           /\ Ends(c) \/ Goes(c, Read("reissue", 0, 0))
           /\ UNCHANGED <<invitation, reset, move, session, barred>>
  <2>1. user' \in UserRows
    BY <1>2, AccountTables DEF UserRows
  <2>2. PICK next \in {Free, Read("reissue", 0, 0)} : Goes(c, next)
    BY <1>2 DEF Ends
  <2>3. next \in AccountLocals /\ next.op \in Plain
    BY <2>2, GoesOnIs DEF Plain
  <2> QED
    BY <1>2, <2>1, <2>2, <2>3, PlainIs, AccountTables, AccountKeeps DEF Dead
<1> QED
  BY <1>1, <1>2
     DEF DisablePasswordSignIn, EnablePasswordSignIn, RemovePassword, RestorePassword, Switch

\* The address: a link is followed only while its row is pending.
LEMMA MovesKeep ==
    ASSUME AccountInv, NEW c \in Calls,
           RequestEmailChange(c) \/ ChangeEmailForClient(c) \/ CompleteEmailChange(c)
    PROVE  AccountInv' /\ Allowed(c)
<1>1. CASE Reads(c, Read("ask_move", 0, 0)) \/ Reads(c, Read("desk_move", 0, 0))
  BY <1>1, AccountBegins DEF AccountOps
<1>2. CASE \E m \in Moves : move[m] = "pending" /\ Reads(c, Read("move", m, 0))
  <2>1. PICK m \in Moves : move[m] = "pending" /\ Reads(c, Read("move", m, 0))
    BY <1>2
  <2>2. m \notin barred
    BY <2>1 DEF AccountInv, Dead
  <2> QED
    BY <2>1, <2>2, AccountBegins, AccountNumbers DEF AccountOps
<1>3. CASE /\ In(c, "ask_move")
           /\ \E m \in Fresh(move) : move' = Add(CancelPending, m, "pending")
           /\ Ends(c) /\ Quiet /\ UNCHANGED <<user, invitation, reset, session, barred>>
  <2>1. PICK m \in Fresh(move) : move' = Add(CancelPending, m, "pending")
    BY <1>3
  <2>2. m \in Moves /\ move[m] = "none"
    BY AccountTables DEF Fresh
  <2> DEFINE T == CancelPending
  <2>3. /\ T \in [Moves -> {"none", "pending", "cancelled", "consumed", "expired"}]
        /\ \A n \in Moves : T[n] = IF move[n] = "pending" THEN "cancelled" ELSE move[n]
    BY CancelPendingIs
  <2>4. move' = [T EXCEPT ![m] = "pending"]
    BY <2>1 DEF Add
  <2> HIDE DEF T
  <2>5. move' \in [Moves -> {"none", "pending", "cancelled", "consumed", "expired"}]
    BY <2>3, <2>4
  <2>6. \A n \in Moves : Dead(n) => Dead(n)'
    BY <2>2, <2>3, <2>4 DEF Dead
  <2> QED
    BY <1>3, <2>5, <2>6, GoesOnIs, PlainIs, AccountTables, AccountKeeps DEF Ends
<1>4. CASE /\ In(c, "desk_move")
           /\ move' = CancelPending
           /\ user' = [user EXCEPT !.address = 0]
           /\ Ends(c) /\ Quiet /\ UNCHANGED <<invitation, reset, session, barred>>
  <2>1. /\ move' \in [Moves -> {"none", "pending", "cancelled", "consumed", "expired"}]
        /\ \A m \in Moves : Dead(m) => Dead(m)'
    BY <1>4, CancelPendingIs DEF Dead
  <2>2. user' \in UserRows
    BY <1>4, AccountTables DEF UserRows
  <2> QED
    BY <1>4, <2>1, <2>2, GoesOnIs, PlainIs, AccountTables, AccountKeeps DEF Ends
<1>5. CASE /\ In(c, "move")
           /\ move' = Add(move, call[c].on, "consumed")
           /\ user' = [user EXCEPT !.address = call[c].on]
           /\ Ends(c) /\ Quiet /\ UNCHANGED <<invitation, reset, session, barred>>
  <2>1. PICK m \in Moves : m = call[c].on
    BY <1>5 DEF In, AccountInv, CallOK
  <2>2. /\ move' \in [Moves -> {"none", "pending", "cancelled", "consumed", "expired"}]
        /\ \A n \in Moves : Dead(n) => Dead(n)'
    <3>1. move \in [Moves -> {"none", "pending", "cancelled", "consumed", "expired"}]
      BY AccountTables
    <3>2. move' = [move EXCEPT ![m] = "consumed"]
      BY <1>5, <2>1 DEF Add
    <3> QED
      BY <3>1, <3>2 DEF Dead
  <2>3. user' = [user EXCEPT !.address = m]
    BY <1>5, <2>1
  <2>4. user' \in UserRows
    BY <2>3, AccountTables DEF UserRows
  <2> QED
    BY <1>5, <2>2, <2>4, GoesOnIs, PlainIs, AccountTables, AccountKeeps DEF Ends
<1> QED
  BY <1>1, <1>2, <1>3, <1>4, <1>5
     DEF RequestEmailChange, ChangeEmailForClient, CompleteEmailChange

LEMMA LapsesKeep ==
    ASSUME AccountInv, Lapses \/ UNCHANGED accountVars
    PROVE  AccountInv' /\ UNCHANGED call
<1>1. UNCHANGED <<call, barred>>
  BY DEF Lapses, accountVars
<1>2. /\ user' \in UserRows
      /\ invitation' \in [Invitations -> {"none", "sent", "accepted", "expired"}]
      /\ reset' \in [Resets -> {"none", "outstanding", "superseded", "consumed", "expired"}]
      /\ session' \in [Sessions -> {"none", "live", "lapsed", "revoked"}]
  <2>1. user' = user \/ user' = [user EXCEPT !.locked = FALSE]
    BY DEF Lapses, accountVars, rows
  <2>2. user' \in UserRows
    BY <2>1, AccountTables DEF UserRows
  <2>3. invitation' = invitation \/ \E i \in Invitations : invitation' = Add(invitation, i, "expired")
    BY DEF Lapses, accountVars, rows
  <2>4. invitation' \in [Invitations -> {"none", "sent", "accepted", "expired"}]
    BY <2>3, AccountTables DEF Add
  <2>5. reset' = reset \/ \E r \in Resets : reset' = Add(reset, r, "expired")
    BY DEF Lapses, accountVars, rows
  <2>6. reset' \in [Resets -> {"none", "outstanding", "superseded", "consumed", "expired"}]
    BY <2>5, AccountTables DEF Add
  <2>7. session' = session \/ \E s \in Sessions : session' = Add(session, s, "lapsed")
    BY DEF Lapses, accountVars, rows
  <2>8. session' \in [Sessions -> {"none", "live", "lapsed", "revoked"}]
    BY <2>7, AccountTables DEF Add
  <2> QED
    BY <2>2, <2>4, <2>6, <2>8
<1>3. /\ move' \in [Moves -> {"none", "pending", "cancelled", "consumed", "expired"}]
      /\ \A m \in Moves : Dead(m) => Dead(m)'
  <2>1. move \in [Moves -> {"none", "pending", "cancelled", "consumed", "expired"}]
    BY AccountTables
  <2>2. \/ UNCHANGED move
        \/ \E m \in Moves : move' = [move EXCEPT ![m] = "expired"]
    BY DEF Lapses, accountVars, rows, Add
  <2> QED
    BY <2>1, <2>2 DEF Dead
<1>4. AccountTypeOK'
  BY <1>1, <1>2, <1>3, AccountTables DEF AccountTypeOK, UserRows
<1> QED
  BY <1>1, <1>3, <1>4, AccountTables DEF AccountInv, CallOK

LEMMA CallDiesKeeps ==
    ASSUME AccountInv, NEW c \in Calls, CallDies(c)
    PROVE  AccountInv' /\ Allowed(c)
BY GoesOnIs, PlainIs, AccountTables, AccountKeeps DEF CallDies, Ends, rows, Dead

LEMMA AccountNextInv ==
    ASSUME AccountInv, [AccountNext]_accountVars
    PROVE  AccountInv' /\ (UNCHANGED call \/ \E c \in Calls : Allowed(c))
BY InvitationsKeep, AuthenticateKeeps, SessionsKeep, ResetsKeep, PasswordsKeep, CancelKeeps,
   SwitchesKeep, MovesKeep, LapsesKeep, CallDiesKeeps DEF AccountNext

\* A request that enters a handler has passed the checks of that handler.
LEMMA EntersAllowed ==
    ASSUME AccountInv, [AccountNext]_accountVars, NEW c \in Calls, call'[c] # call[c]
    PROVE  StillAllowed(call'[c])
<1>1. PICK d \in Calls : Allowed(d)
  BY AccountNextInv
<1>2. PICK next \in AccountLocals : Goes(d, next) /\ StillAllowed(next)
  BY <1>1 DEF Allowed
<1>3. \A b \in Calls : call'[b] = IF b = d THEN next ELSE call[b]
  BY <1>2, AccountTables DEF Goes
<1>4. c = d /\ call'[c] = next
  BY <1>3
<1> QED
  BY <1>2, <1>4

\* The types of the limiter's rows, whatever the delay.
LEMMA LimiterTypeNext ==
    ASSUME LimiterTypeOK, [LimiterNext]_limiterVars
    PROVE  LimiterTypeOK'
<1>1. ASSUME NEW q \in Attempts, Arrives(q) PROVE LimiterTypeOK'
  BY <1>1 DEF Arrives, LimiterTypeOK
<1>2. ASSUME NEW now \in sweeping, SweepRateLimits(now) PROVE LimiterTypeOK'
  <2>1. NoCounter \in [attempts : Nat, started : 0..LastTick, updated : 0..LastTick]
    BY LimiterAssumption DEF NoCounter
  <2> QED
    BY <1>2, <2>1 DEF SweepRateLimits, LimiterTypeOK
<1>3. CASE TimePasses
  BY <1>3, LimiterAssumption DEF TimePasses, LimiterTypeOK
<1>4. CASE UNCHANGED limiterVars
  BY <1>4 DEF limiterVars, LimiterTypeOK
<1> QED
  BY <1>1, <1>2, <1>3, <1>4, CheckTyped DEF LimiterNext

\* In whatever order instances count and sweeps run, no span as long as a window
\* lets through more than two budgets, unless an attempt counted in it had
\* arrived more than a tick before, however late attempts elsewhere are
\* (rateLimit.ts, limiter.ts).
THEOREM BudgetIsHeld == IdentitySpec => []BudgetHolds
<1>1. IdentityInit => LimiterInv
  BY LimiterInitInv DEF IdentityInit
<1>2. LimiterInv /\ [IdentityNext]_identityVars => LimiterInv'
  <2>1. [IdentityNext]_identityVars => [LimiterNext]_limiterVars
    BY DEF IdentityNext, AtAccount, AtFactor, AtStaff, AtLimiter, identityVars
  <2> QED
    BY <2>1, LimiterNextInv
<1>3. LimiterInv => BudgetHolds
  <2> SUFFICES ASSUME LimiterInv, NEW t \in Ticks, lates \intersect SpanFrom(t) = {}
               PROVE  letThrough[t] <= 2 * MaxAttempts
    BY DEF BudgetHolds, Ticks
  <2>1. LimiterTypeOK
    BY DEF LimiterInv
  <2>2. ASSUME NEW u \in lates PROVE u < t \/ t + WindowTicks <= u
    <3>1. u \notin t..(t + WindowTicks - 1)
      BY DEF SpanFrom
    <3> QED
      BY <2>1, <3>1, LimiterTyped DEF Ticks
  <2> QED
    BY <2>2 DEF LimiterInv, SpansHold, Clean
<1> QED
  BY <1>1, <1>2, <1>3, PTL DEF IdentitySpec

-----------------------------------------------------------------------------
(***************************************************************************)
(* The four doors together.  They share no row, so the invariant of all    *)
(* of them is the conjunction of theirs.                                   *)
(***************************************************************************)
IdentityInv == AccountInv /\ RemovedInv /\ StaffInv /\ LimiterTypeOK

\* A step at one door is a step or a stutter at each.
LEMMA StepsAtEachDoor ==
    ASSUME [IdentityNext]_identityVars
    PROVE  /\ [AccountNext]_accountVars /\ [FactorNext]_factorVars
           /\ [StaffNext]_staffVars     /\ [LimiterNext]_limiterVars
BY DEF IdentityNext, AtAccount, AtFactor, AtStaff, AtLimiter, identityVars

LEMMA IdentityInvariant == IdentitySpec => []IdentityInv
<1>1. IdentityInit => IdentityInv
  <2>1. FactorInit => \A a \in Answers : PresentedOK(answer[a])
    BY DEF FactorInit, Waiting, PresentedOK
  <2> QED
    BY <2>1, AccountInitInv, FactorInitInv, StaffInitInv, LimiterInitInv
       DEF IdentityInit, IdentityInv, LimiterInv, RemovedInv
<1>2. IdentityInv /\ [IdentityNext]_identityVars => IdentityInv'
  BY StepsAtEachDoor, AccountNextInv, RemovedNext, StaffNextInv, LimiterTypeNext
     DEF IdentityInv
<1> QED
  BY <1>1, <1>2, PTL DEF IdentitySpec

\* In whatever order invitations, enrolments, sign-ins and settings of a client
\* or a staff member are served, the rows stay well formed, and a staff member's
\* password and authenticator come from one and the same enrolment: the
\* statement that accepts an invitation writes both (enrolStaffFromInvitation),
\* and confirming turns on what that one wrote (confirmStaffEnrolment).
THEOREM CredentialsAreWhole == IdentitySpec => []CredentialsAgree
<1>1. IdentityInv => CredentialsAgree
  BY DEF IdentityInv, AccountInv, RemovedInv, FactorInv, StaffInv, CredentialsAgree,
     IdentityTypeOK
<1> QED
  BY <1>1, IdentityInvariant, PTL

\* However many answers, requests and assertions present it together, a recovery
\* code is spent once, a key challenge takes one assertion, a sign-in challenge
\* is met by key once and a staff member's challenge admits once: each is taken
\* by one statement that finds it unspent (answerMfaChallenge, spendChallenge,
\* satisfyMfaChallenge, completeStaffPasskeySignIn).
THEOREM ProofsAreSpent == IdentitySpec => []SingleUse
<1>1. FactorInv => RecoveryCodeOnce /\ KeyChallengeOnce /\ SignsInByKeyOnce
  BY DEF FactorInv, CodesAreCounted, SignedOnce, ByKeyOnce, RecoveryCodeOnce,
     KeyChallengeOnce, SignsInByKeyOnce
<1>2. StaffInv => StaffChallengeOnce
  BY DEF StaffInv, AdmitsOnce, StaffChallengeOnce
<1>3. IdentityInv => SingleUse
  BY <1>1, <1>2 DEF IdentityInv, RemovedInv, SingleUse
<1> QED
  BY <1>3, IdentityInvariant, PTL

\* Once an account is disabled, an access withdrawn, a password removed or a move
\* barred by a reset, no request that begins gets past it, whatever sign-in or
\* link was under way when the door was shut: each reads the row as it begins
\* (resolveSession, resolveStaffSession, authenticateClientUser,
\* completeEmailChange), and a barred move is never pending again.  Once the desk
\* takes an authenticator away no code is accepted on a challenge it abandoned,
\* for it superseded every recovery code there was, and no key completes it: one
\* is counted over an open challenge only (removeMfaForClient,
\* satisfyMfaChallenge).
THEOREM OutIsOut == IdentitySpec => OutMeansOut
<1> DEFINE Disabled == \A c \in Calls : Enters(c, "resolve") => ~user.disabled
           Passwordless == \A c \in Calls :
                              (Enters(c, "authenticate") /\ call'[c].good) => ~user.removed
           Reset == \A c \in Calls : Enters(c, "move") => call'[c].on \notin barred
           Withdrawn == \A p \in Staffers :
                           (staffCall[p].op = "free" /\ staffCall'[p].op = "resolve")
                               => ~credential.disabled
           Removed == \A h \in ended :
                         /\ byKey'[h] = byKey[h]
                         /\ \A a \in Answers : (answer'[a].on = h /\ CodeAccepted(answer'[a]))
                                                 => answer'[a] = answer[a]
<1>1. IdentityInv /\ [IdentityNext]_identityVars => Disabled /\ Passwordless /\ Reset
  <2> SUFFICES ASSUME IdentityInv, [IdentityNext]_identityVars
               PROVE  Disabled /\ Passwordless /\ Reset
    OBVIOUS
  <2>1. ASSUME NEW c \in Calls, NEW op, Enters(c, op) PROVE StillAllowed(call'[c])
    <3>1. call'[c] # call[c]
      BY <2>1 DEF Enters
    <3> QED
      BY <3>1, StepsAtEachDoor, EntersAllowed DEF IdentityInv
  <2> QED
    BY <2>1 DEF StillAllowed, Enters
<1>2. IdentityInv /\ [IdentityNext]_identityVars => Withdrawn
  BY StepsAtEachDoor, WithdrawnStep DEF IdentityInv
<1>3. IdentityInv /\ [IdentityNext]_identityVars => Removed
  <2> SUFFICES ASSUME IdentityInv, [IdentityNext]_identityVars PROVE Removed
    OBVIOUS
  <2>1. RemovedInv /\ FactorInv /\ [FactorNext]_factorVars
    BY StepsAtEachDoor DEF IdentityInv, RemovedInv
  <2> QED
    BY <2>1, RemovalStep, RemovedNext
<1>4. IdentityInv /\ [IdentityNext]_identityVars =>
        /\ [Disabled]_accountVars /\ [Passwordless]_accountVars /\ [Reset]_accountVars
        /\ [Withdrawn]_staffVars  /\ [Removed]_factorVars
  BY <1>1, <1>2, <1>3
<1> HIDE DEF Disabled, Passwordless, Reset, Withdrawn, Removed
<1>5. IdentitySpec => /\ [][Disabled]_accountVars /\ [][Passwordless]_accountVars
                      /\ [][Reset]_accountVars
                      /\ [][Withdrawn]_staffVars  /\ [][Removed]_factorVars
  BY <1>4, IdentityInvariant, PTL DEF IdentitySpec
<1> USE DEF Disabled, Passwordless, Reset, Withdrawn, Removed
<1> QED
  BY <1>5 DEF OutMeansOut, DisabledMeansOut, PasswordlessStaysOut, ResetStopsOlderMoves,
     WithdrawnMeansOut, RemovalEndsSignIns
=============================================================================
