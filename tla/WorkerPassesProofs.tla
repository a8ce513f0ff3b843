-------------------------- MODULE WorkerPassesProofs --------------------------
(***************************************************************************)
(* Proofs about the passes a worker makes on every turn of its loop, the   *)
(* listener's, the scheduler's and the sweeps', for any workers, triggers, *)
(* schedules, crons, waits, tasks and deaths, and any ledger.              *)
(*                                                                         *)
(* The listener has two arguments.  What is done once rests on the         *)
(* database: a pair is in firings before its instance is started, and the  *)
(* pass that put it there is the only one to start it.  What is not skipped*)
(* rests on the order of a pass's reads: everything up to where a pass has *)
(* got is covered, and a trigger it does not know of was enabled after the *)
(* tail it read, so the cursor it leaves behind, stale or not, has nothing *)
(* uncovered behind it.                                                    *)
(*                                                                         *)
(* The scheduler's argument is that a row's nextRunAt is later than the    *)
(* clock of every claim made on it: what was claimed is behind it, so the  *)
(* conditional update cannot take the same occurrence again.  An operator's*)
(* edit breaks that when it is written after the occurrence it sets, so the*)
(* invariant says it of the other schedules.                               *)
(* The sweeps' is that a worker marks a task before it tells compliance,   *)
(* that a chase is recorded, in some worker's hand or gone with a death,   *)
(* and that a count of reminders goes past its cap only by records made on *)
(* a count another sweep had changed.                                      *)
(***************************************************************************)
EXTENDS MCWorkerPasses, SequenceTheorems, FiniteSetTheorems, TLAPS

(******************************* THE LISTENER ******************************)

Walking == {"event", "waits", "fire", "start"}

PassLocals == [at : 0..MaxEvents, upTo : 0..MaxEvents,
               triggers : SUBSET Triggers, todo : SUBSET (Triggers \union Waits),
               firing : Triggers \union {NoTrigger}]

\* Where a pass is and what it has in hand.
PassOK(w) ==
    /\ at[w] = "waits" => pass[w].todo \subseteq Waits
    /\ at[w] \in {"fire", "start"} => pass[w].todo \subseteq Triggers
    /\ at[w] \in {"waits", "fire", "start"} => pass[w].at > 0
    /\ pass[w].at <= LastSeq
    /\ at[w] \in {"triggers"} \union Walking =>
          pass[w].at <= pass[w].upTo /\ pass[w].upTo <= LastSeq

\* A pass about to start an instance claimed the pair, and it alone.
HoldsFiring(w) ==
    at[w] = "start" =>
        LET g == pass[w].firing  n == pass[w].at
        IN  /\ g \in Triggers /\ <<g, n>> \in firings /\ fired[g][n] = 0
            /\ \A v \in Workers : (/\ at[v] = "start" /\ pass[v].firing = g
                                   /\ pass[v].at = n) => v = w

FiredWereClaimed ==
    \A g \in Triggers : \A n \in Seqs :
        /\ fired[g][n] <= 1
        /\ <<g, n>> \notin firings => fired[g][n] = 0

ResumedAreDone ==
    \A k \in Waits : /\ resumes[k] <= 1
                     /\ wait[k] # "resumed" => resumes[k] = 0

\* What NoEventSkipped asks of one event, and of all up to the m-th.
Covered(n) ==
    \A g \in enabled : (n > sought /\ n > since[g] /\ TypeOf[g] = events[n])
                          => <<g, n>> \in firings \union unmet \union swallowed
CoveredTo(m) == \A n \in 1..m : Covered(n)

\* A pass has covered what it walked, and knows every trigger but those
\* enabled after the tail it read.
PassCovers(w) ==
    /\ at[w] \in {"tail", "triggers", "event"} => CoveredTo(pass[w].at)
    /\ at[w] \in {"waits", "fire", "start"} => CoveredTo(pass[w].at - 1)
    /\ at[w] \in Walking =>
          \A g \in enabled : g \in pass[w].triggers \/ since[g] >= pass[w].upTo
    /\ at[w] \in {"fire", "start"} =>
          \A g \in enabled :
             LET n == pass[w].at
             IN  (n > sought /\ n > since[g] /\ TypeOf[g] = events[n])
                    => \/ g \in pass[w].todo
                       \/ <<g, n>> \in firings \union unmet \union swallowed

ListenerInv ==
    /\ ListenerTypeOK /\ pass \in [Workers -> PassLocals]
    /\ cursor <= LastSeq
    /\ \A w \in Workers : PassOK(w)
    /\ \A w \in Workers : HoldsFiring(w)
    /\ FiredWereClaimed /\ ResumedAreDone
    /\ CoveredTo(cursor)
    /\ \A w \in Workers : PassCovers(w)

-----------------------------------------------------------------------------
LEMMA ListenerInitInv == ListenerInit => ListenerInv
<1> SUFFICES ASSUME ListenerInit PROVE ListenerInv
  OBVIOUS
<1> USE ListenerAssumption
<1>1. events = <<>> /\ LastSeq = 0 /\ cursor = 0
  BY DEF ListenerInit, LastSeq
<1>2. NewPass \in PassLocals /\ NewPass.at = 0
  BY DEF NewPass, PassLocals
<1>3. \A w \in Workers : at[w] = "idle" /\ pass[w] = NewPass
  BY DEF ListenerInit, PoolInit
<1>4. pass \in [Workers -> PassLocals]
  BY <1>2 DEF ListenerInit
<1>5. ListenerTypeOK
  BY <1>1 DEF ListenerTypeOK, LastSeq, ListenerInit, PoolInit, NewPass
<1>6. CoveredTo(cursor) /\ FiredWereClaimed /\ ResumedAreDone
  BY <1>1 DEF CoveredTo, FiredWereClaimed, ResumedAreDone, ListenerInit
<1>7. ASSUME NEW w \in Workers PROVE PassOK(w) /\ HoldsFiring(w) /\ PassCovers(w)
  BY <1>1, <1>2, <1>3 DEF PassOK, HoldsFiring, PassCovers, Walking
<1> QED
  BY <1>1, <1>4, <1>5, <1>6, <1>7 DEF ListenerInv

-----------------------------------------------------------------------------
(***************************************************************************)
(* What every step has in common: the ledger grows at its end, what was    *)
(* handled stays handled, and a trigger that was not enabled a moment ago  *)
(* is owed nothing that is in the ledger by now.                           *)
(***************************************************************************)
Onward ==
    /\ LastSeq' \in Nat /\ LastSeq <= LastSeq'
    /\ \A n \in 1..LastSeq : events'[n] = events[n]
    /\ firings \subseteq firings' /\ unmet \subseteq unmet' /\ swallowed \subseteq swallowed'
    /\ sought' \in Nat /\ (sought' = sought \/ sought' >= LastSeq)
    /\ enabled' \subseteq Triggers /\ since' \in [Triggers -> Nat]
    /\ \A g \in enabled' : \/ g \in enabled /\ since'[g] = since[g]
                           \/ since'[g] >= LastSeq

\* The ranges the arithmetic needs.
LEMMA Ranges ==
    ASSUME ListenerInv
    PROVE  /\ LastSeq \in Nat /\ LastSeq <= MaxEvents /\ MaxEvents \in Nat
           /\ cursor \in Nat /\ sought \in Nat
           /\ enabled \subseteq Triggers /\ since \in [Triggers -> Nat]
           /\ \A w \in Workers : pass[w] \in PassLocals /\ at[w] \in
                 {"idle", "tail", "triggers", "event", "waits", "fire", "start"}
BY ListenerAssumption DEF ListenerInv, ListenerTypeOK, LastSeq

LEMMA StepsGoOnward ==
    ASSUME ListenerInv, [ListenerNext]_listenerVars
    PROVE  Onward
<1>1. /\ LastSeq \in Nat /\ events \in Seq(EventTypes) /\ sought \in Nat
      /\ enabled \subseteq Triggers /\ since \in [Triggers -> Nat]
  BY Ranges DEF ListenerInv, ListenerTypeOK
<1>2. CASE Emit
  <2>1. PICK e \in EventTypes : events' = Append(events, e)
    BY <1>2 DEF Emit
  <2>2. /\ Len(events') = Len(events) + 1
        /\ \A n \in 1..Len(events) : events'[n] = events[n]
    BY <1>1, <2>1
  <2> QED
    BY <1>1, <1>2, <2>2 DEF Emit, Onward, LastSeq, triggerConfig, effects
<1>3. CASE SeekToLatest
  BY <1>1, <1>3 DEF SeekToLatest, Onward, LastSeq, effects
<1>4. ASSUME NEW g \in Triggers, UpsertTrigger(g) PROVE Onward
  BY <1>1, <1>4 DEF UpsertTrigger, Onward, LastSeq, effects, ListenerInv,
     ListenerTypeOK
<1>5. ASSUME NEW g \in Triggers, DisableTrigger(g) PROVE Onward
  BY <1>1, <1>5 DEF DisableTrigger, Onward, LastSeq, effects
<1>6. ASSUME NEW k \in Waits, ParkWait(k) PROVE Onward
  BY <1>1, <1>6 DEF ParkWait, Onward, LastSeq, triggerConfig
<1>7. ASSUME NEW w \in Workers, ListenerStep(w) \/ ListenerCrash(w) PROVE Onward
  <2>1. events' = events /\ sought' = sought /\ since' = since
    BY <1>7 DEF ListenerStep, ReadCursor, ReadTail, ReadTriggers, NextEvent,
       WriteCursor, ResolveWait, MatchTriggers, ConditionFails, InsertFiring,
       StartInstance, NoMoreTriggers, ListenerCrash, triggerConfig
  <2>2. enabled' \subseteq enabled
    BY <1>7 DEF ListenerStep, ReadCursor, ReadTail, ReadTriggers, NextEvent,
       WriteCursor, ResolveWait, MatchTriggers, ConditionFails, InsertFiring,
       StartInstance, NoMoreTriggers, ListenerCrash, triggerConfig
  <2>3. firings \subseteq firings' /\ unmet \subseteq unmet' /\ swallowed \subseteq swallowed'
    <3>1. CASE InsertFiring(w)
      BY <3>1 DEF InsertFiring
    <3>2. CASE ConditionFails(w)
      BY <3>2 DEF ConditionFails
    <3> QED
      BY <1>7, <3>1, <3>2 DEF ListenerStep, ReadCursor, ReadTail, ReadTriggers,
         NextEvent, WriteCursor, ResolveWait, MatchTriggers, StartInstance,
         NoMoreTriggers, ListenerCrash, effects
  <2> QED
    BY <1>1, <2>1, <2>2, <2>3 DEF Onward, LastSeq
<1>8. CASE UNCHANGED listenerVars
  BY <1>1, <1>8 DEF listenerVars, listenerState, triggerConfig, effects, Onward,
     LastSeq
<1> QED
  BY <1>2, <1>3, <1>4, <1>5, <1>6, <1>7, <1>8 DEF ListenerNext

\* What is covered stays covered.
LEMMA CoverStays ==
    ASSUME ListenerInv, Onward, NEW n \in 1..LastSeq, Covered(n)
    PROVE  Covered(n)'
<1> SUFFICES ASSUME NEW g \in enabled', n > sought', n > since'[g],
                    TypeOf[g] = events'[n]
             PROVE  <<g, n>> \in firings \union unmet \union swallowed
  BY DEF Covered, Onward
<1>1. n \in Nat /\ n <= LastSeq /\ LastSeq \in Nat /\ events'[n] = events[n]
  BY Ranges DEF Onward
<1>2. sought' = sought /\ g \in enabled /\ since'[g] = since[g]
  BY <1>1 DEF Onward
<1> QED
  BY <1>1, <1>2 DEF Covered

LEMMA CoverToStays ==
    ASSUME ListenerInv, Onward, NEW m \in Int, m <= LastSeq, CoveredTo(m)
    PROVE  \A n \in 1..m : Covered(n)'
BY Ranges, CoverStays DEF CoveredTo

\* A pass that does not move is as well off as before.
LEMMA IdlePassKeeps ==
    ASSUME ListenerInv, Onward, NEW w \in Workers,
           at'[w] = at[w], pass'[w] = pass[w]
    PROVE  PassOK(w)' /\ PassCovers(w)'
<1>1. PassOK(w)'
  BY Ranges DEF ListenerInv, PassOK, Onward, PassLocals
<1>2. /\ pass[w].at \in Nat /\ pass[w].at <= LastSeq
      /\ pass[w].upTo \in Nat
      /\ at[w] \in Walking => pass[w].upTo <= LastSeq
      /\ at[w] \in {"waits", "fire", "start"} => pass[w].at > 0
  BY Ranges DEF ListenerInv, PassOK, PassLocals
<1>3. PassCovers(w)
  BY DEF ListenerInv
<1>4. at[w] \in {"tail", "triggers", "event"} => \A n \in 1..pass[w].at : Covered(n)'
  BY <1>2, <1>3, CoverToStays DEF PassCovers
<1>5. at[w] \in {"waits", "fire", "start"}
        => \A n \in 1..(pass[w].at - 1) : Covered(n)'
  BY <1>2, <1>3, Ranges, CoverToStays DEF PassCovers
<1>6. at[w] \in Walking =>
        \A g \in enabled' : g \in pass[w].triggers \/ since'[g] >= pass[w].upTo
  <2> SUFFICES ASSUME at[w] \in Walking, NEW g \in enabled'
               PROVE  g \in pass[w].triggers \/ since'[g] >= pass[w].upTo
    OBVIOUS
  <2>1. CASE g \in enabled /\ since'[g] = since[g]
    BY <1>3, <2>1 DEF PassCovers
  <2>2. CASE since'[g] >= LastSeq
    BY <1>2, <2>2, Ranges DEF Onward
  <2> QED
    BY <2>1, <2>2 DEF Onward
<1>7. at[w] \in {"fire", "start"} =>
        \A g \in enabled' :
          (/\ pass[w].at > sought' /\ pass[w].at > since'[g]
           /\ TypeOf[g] = events'[pass[w].at])
             => \/ g \in pass[w].todo
                \/ <<g, pass[w].at>> \in firings' \union unmet' \union swallowed'
  <2> SUFFICES ASSUME at[w] \in {"fire", "start"}, NEW g \in enabled',
                      pass[w].at > sought', pass[w].at > since'[g],
                      TypeOf[g] = events'[pass[w].at]
               PROVE  \/ g \in pass[w].todo
                      \/ <<g, pass[w].at>> \in firings \union unmet \union swallowed
    BY DEF Onward
  <2>1. sought' = sought /\ g \in enabled /\ since'[g] = since[g]
    BY <1>2, Ranges DEF Onward
  <2>2. events'[pass[w].at] = events[pass[w].at]
    BY <1>2, Ranges DEF Onward
  <2> QED
    BY <1>3, <2>1, <2>2 DEF PassCovers
<1>8. PassCovers(w)'
  BY <1>4, <1>5, <1>6, <1>7 DEF PassCovers, CoveredTo
<1> QED
  BY <1>1, <1>8

-----------------------------------------------------------------------------
(***************************************************************************)
(* Steps of a pass.                                                        *)
(***************************************************************************)
Labels == {"idle", "tail", "triggers", "event", "waits", "fire", "start"}

LEMMA Moved ==
    ASSUME ListenerInv, NEW w \in Workers, NEW label \in Labels,
           NEW locals \in PassLocals, Continue(w, label, locals)
    PROVE  /\ at'[w] = label /\ pass'[w] = locals
           /\ \A v \in Workers \ {w} : at'[v] = at[v] /\ pass'[v] = pass[v]
           /\ at' \in [Workers -> Labels] /\ pass' \in [Workers -> PassLocals]
BY DEF ListenerInv, ListenerTypeOK, Continue, Goto, Labels

\* The other passes are left as they were, so a step of one pass keeps the
\* invariant when that pass and the tables are as they should be.
LEMMA MoveKeepsInv ==
    ASSUME ListenerInv, Onward, NEW w \in Workers, NEW label \in Labels,
           NEW locals \in PassLocals, Continue(w, label, locals),
           UNCHANGED <<events, since, sought, toggles>>,
           cursor' \in 0..MaxEvents, cursor' <= LastSeq,
           firings' \subseteq Triggers \X Seqs, reported' \subseteq Triggers \X Seqs,
           unmet' \subseteq Triggers \X Seqs, swallowed' \subseteq Triggers \X Seqs,
           fired' \in [Triggers -> [Seqs -> Nat]],
           wait' \in [Waits -> {"unreached", "waiting", "resumed"}],
           resumes' \in [Waits -> Nat],
           FiredWereClaimed', ResumedAreDone', CoveredTo(cursor)',
           PassOK(w)', PassCovers(w)', \A v \in Workers : HoldsFiring(v)'
    PROVE  ListenerInv'
<1>1. /\ \A v \in Workers \ {w} : at'[v] = at[v] /\ pass'[v] = pass[v]
      /\ at' \in [Workers -> Labels] /\ pass' \in [Workers -> PassLocals]
  BY Moved
<1>2. ListenerTypeOK'
  <2>1. \A v \in Workers : pass'[v].at \in 0..MaxEvents /\ pass'[v].upTo \in 0..MaxEvents
    BY <1>1 DEF PassLocals
  <2> QED
    BY <1>1, <2>1 DEF ListenerInv, ListenerTypeOK, Onward, Labels
<1>3. ASSUME NEW v \in Workers PROVE PassOK(v)' /\ PassCovers(v)'
  BY <1>1, IdlePassKeeps
<1>4. cursor' <= LastSeq'
  BY DEF LastSeq
<1> QED
  BY <1>1, <1>2, <1>3, <1>4 DEF ListenerInv

\* While nothing is claimed or started and no pass gets as far as a start,
\* claims stand as they did.
LEMMA HoldsFiringStays ==
    ASSUME ListenerInv, UNCHANGED <<firings, fired>>,
           \A v \in Workers : at'[v] = "start" => at[v] = "start" /\ pass'[v] = pass[v]
    PROVE  \A v \in Workers : HoldsFiring(v)'
<1>1. \A v \in Workers : HoldsFiring(v)
  BY DEF ListenerInv
<1> QED
  BY <1>1 DEF HoldsFiring

\* A step that only moves the pass on, or drops a trigger.
LEMMA QuietKeepsInv ==
    ASSUME ListenerInv, Onward, NEW w \in Workers, NEW label \in Labels \ {"start"},
           NEW locals \in PassLocals, Continue(w, label, locals),
           UNCHANGED <<events, cursor, since, sought, toggles, firings, fired,
                       wait, resumes, reported>>,
           unmet' \subseteq Triggers \X Seqs, swallowed' \subseteq Triggers \X Seqs,
           PassOK(w)', PassCovers(w)'
    PROVE  ListenerInv'
<1>1. /\ at'[w] = label
      /\ \A v \in Workers \ {w} : at'[v] = at[v] /\ pass'[v] = pass[v]
  BY Moved
<1>2. \A v \in Workers : HoldsFiring(v)'
  BY <1>1, HoldsFiringStays
<1>3. FiredWereClaimed' /\ ResumedAreDone'
  BY DEF ListenerInv, FiredWereClaimed, ResumedAreDone
<1>4. CoveredTo(cursor)'
  <2>1. \A n \in 1..cursor : Covered(n)'
    BY Ranges, CoverToStays DEF ListenerInv
  <2> QED
    BY <2>1 DEF CoveredTo
<1> QED
  BY <1>2, <1>3, <1>4, MoveKeepsInv DEF ListenerInv, ListenerTypeOK

\* Reading the cursor, the tail and the triggers; what a pass finds covered,
\* and that it knows every trigger it should.
LEMMA ReadingKeepsInv ==
    ASSUME ListenerInv, Onward, NEW w \in Workers,
           ReadCursor(w) \/ ReadTail(w) \/ ReadTriggers(w)
    PROVE  ListenerInv'
<1> USE Ranges
<1> DEFINE p == pass[w]
<1>1. NewPass \in PassLocals /\ p \in PassLocals
  BY ListenerAssumption DEF NewPass, PassLocals
<1>2. CASE ReadCursor(w)
  <2> DEFINE locals == [NewPass EXCEPT !.at = cursor]
  <2>1. locals \in PassLocals /\ locals.at = cursor
    BY <1>1 DEF PassLocals, ListenerInv, ListenerTypeOK
  <2>2. Continue(w, "tail", locals) /\ UNCHANGED <<events, cursor, since, sought,
            toggles, firings, fired, wait, resumes, reported, unmet, swallowed>>
    BY <1>2 DEF ReadCursor, triggerConfig, effects
  <2> HIDE DEF locals
  <2>3. at'[w] = "tail" /\ pass'[w] = locals
    BY <2>1, <2>2, Moved DEF Labels
  <2>4. PassOK(w)'
    BY <2>1, <2>2, <2>3 DEF PassOK, ListenerInv, LastSeq, Walking
  <2>5. \A n \in 1..cursor : Covered(n)'
    BY CoverToStays DEF ListenerInv
  <2>6. PassCovers(w)'
    BY <2>1, <2>3, <2>5 DEF PassCovers, CoveredTo, Walking
  <2> QED
    BY <2>1, <2>2, <2>4, <2>6, QuietKeepsInv DEF Labels, ListenerInv, ListenerTypeOK
<1>3. CASE ReadTail(w) /\ LastSeq <= p.at
  <2>1. Continue(w, "idle", NewPass) /\ UNCHANGED <<events, cursor, since, sought,
            toggles, firings, fired, wait, resumes, reported, unmet, swallowed>>
    BY <1>3 DEF ReadTail, triggerConfig, effects
  <2>2. at'[w] = "idle" /\ pass'[w] = NewPass
    BY <1>1, <2>1, Moved DEF Labels
  <2>3. PassOK(w)' /\ PassCovers(w)'
    BY <2>1, <2>2 DEF PassOK, PassCovers, LastSeq, Walking, NewPass
  <2> QED
    BY <1>1, <2>1, <2>3, QuietKeepsInv DEF Labels, ListenerInv, ListenerTypeOK
<1>4. CASE ReadTail(w) /\ ~(LastSeq <= p.at)
  <2> DEFINE locals == [p EXCEPT !.upTo = LastSeq]
  <2>1. locals \in PassLocals /\ locals.at = p.at /\ locals.upTo = LastSeq
    BY <1>1 DEF PassLocals
  <2>2. Continue(w, "triggers", locals) /\ UNCHANGED <<events, cursor, since, sought,
            toggles, firings, fired, wait, resumes, reported, unmet, swallowed>>
    BY <1>4 DEF ReadTail, triggerConfig, effects
  <2> HIDE DEF locals
  <2>3. at'[w] = "triggers" /\ pass'[w] = locals
    BY <2>1, <2>2, Moved DEF Labels
  <2>4. at[w] = "tail" /\ p.at \in Nat /\ p.at <= LastSeq /\ CoveredTo(p.at)
    BY <1>1, <1>4 DEF ReadTail, ListenerInv, PassCovers, PassLocals
  <2>5. PassOK(w)'
    BY <2>1, <2>2, <2>3, <2>4 DEF PassOK, LastSeq, Walking
  <2>6. \A n \in 1..p.at : Covered(n)'
    BY <2>4, CoverToStays
  <2>7. PassCovers(w)'
    BY <2>1, <2>3, <2>6 DEF PassCovers, CoveredTo, Walking
  <2> QED
    BY <2>1, <2>2, <2>5, <2>7, QuietKeepsInv DEF Labels, ListenerInv, ListenerTypeOK
<1>5. CASE ReadTriggers(w)
  <2> DEFINE locals == [p EXCEPT !.triggers = enabled]
  <2>1. /\ locals \in PassLocals /\ locals.at = p.at /\ locals.upTo = p.upTo
        /\ locals.triggers = enabled
    BY <1>1 DEF PassLocals
  <2>2. Continue(w, "event", locals) /\ UNCHANGED <<events, cursor, since, sought,
            toggles, firings, fired, wait, resumes, reported, unmet, swallowed, enabled>>
    BY <1>5 DEF ReadTriggers, triggerConfig, effects
  <2> HIDE DEF locals
  <2>3. at'[w] = "event" /\ pass'[w] = locals
    BY <2>1, <2>2, Moved DEF Labels
  <2>4. /\ at[w] = "triggers" /\ p.at \in Nat /\ p.at <= p.upTo /\ p.upTo <= LastSeq
        /\ p.at <= LastSeq /\ CoveredTo(p.at)
    BY <1>1, <1>5 DEF ReadTriggers, ListenerInv, PassCovers, PassOK, PassLocals
  <2>5. PassOK(w)'
    BY <2>1, <2>2, <2>3, <2>4 DEF PassOK, LastSeq, Walking
  <2>6. \A n \in 1..p.at : Covered(n)'
    BY <2>4, CoverToStays
  <2>7. PassCovers(w)'
    BY <2>1, <2>2, <2>3, <2>6 DEF PassCovers, CoveredTo, Walking
  <2> QED
    BY <2>1, <2>2, <2>5, <2>7, QuietKeepsInv DEF Labels, ListenerInv, ListenerTypeOK
<1> QED
  BY <1>2, <1>3, <1>4, <1>5

\* What a pass over an event may count on.
LEMMA WalkingFacts ==
    ASSUME ListenerInv, Onward, NEW w \in Workers, at[w] \in {"waits", "fire", "start"}
    PROVE  LET n == pass[w].at
           IN  /\ pass[w] \in PassLocals
               /\ n \in Seqs /\ n <= pass[w].upTo /\ n <= LastSeq
               /\ pass[w].upTo \in Nat /\ pass[w].upTo <= LastSeq
               /\ \A m \in 1..(n - 1) : Covered(m)'
<1> DEFINE n == pass[w].at
<1>1. /\ pass[w] \in PassLocals /\ n \in Nat /\ n > 0
      /\ n <= pass[w].upTo /\ pass[w].upTo <= LastSeq
      /\ n <= LastSeq /\ LastSeq \in Nat /\ pass[w].upTo \in Nat
      /\ n \in Seqs
  BY Ranges DEF ListenerInv, PassOK, PassLocals, Walking, Seqs
<1>2. CoveredTo(n - 1)
  BY DEF ListenerInv, PassCovers
<1>3. \A m \in 1..(n - 1) : Covered(m)'
  BY <1>1, <1>2, CoverToStays
<1> QED
  BY <1>1, <1>3

LEMMA NextEventKeepsInv ==
    ASSUME ListenerInv, Onward, NEW w \in Workers, NextEvent(w)
    PROVE  ListenerInv'
<1> DEFINE p == pass[w]
           n == p.at + 1
           wanted == {k \in Waits : wait[k] = "waiting" /\ Awaits[k] = events[n]}
           locals == [p EXCEPT !.at = n, !.todo = wanted]
<1>1. /\ at[w] = "event" /\ p.at < p.upTo /\ p \in PassLocals
      /\ p.at \in Nat /\ p.upTo \in Nat /\ p.upTo <= LastSeq
      /\ p.upTo <= MaxEvents /\ MaxEvents \in Nat /\ LastSeq \in Nat
      /\ CoveredTo(p.at)
  BY Ranges, ListenerAssumption
  DEF NextEvent, ListenerInv, PassOK, PassCovers, PassLocals, Walking
<1>2. n \in 0..MaxEvents /\ n <= p.upTo /\ n > 0 /\ n - 1 = p.at
  BY <1>1
<1>3. /\ locals \in PassLocals /\ locals.at = n /\ locals.upTo = p.upTo
      /\ locals.triggers = p.triggers /\ locals.todo = wanted
  <2> HIDE DEF n, wanted
  <2>1. wanted \in SUBSET (Triggers \union Waits)
    BY DEF wanted
  <2> QED
    BY <1>1, <1>2, <2>1 DEF PassLocals
<1>4. Continue(w, "waits", locals) /\ UNCHANGED <<events, cursor, since, sought,
          toggles, firings, fired, wait, resumes, reported, unmet, swallowed, enabled>>
  BY DEF NextEvent, triggerConfig, effects
<1>5. wanted \subseteq Waits
  OBVIOUS
<1> HIDE DEF locals, wanted
<1>6. at'[w] = "waits" /\ pass'[w] = locals
  BY <1>3, <1>4, Moved DEF Labels
<1>7. PassOK(w)'
  <2>1. events' = events /\ Len(events) \in Nat /\ p.upTo <= Len(events)
    BY <1>1, <1>4 DEF LastSeq
  <2>2. n <= Len(events)
    BY <1>1, <1>2, <2>1
  <2> QED
    BY <1>2, <1>3, <1>5, <1>6, <2>1, <2>2 DEF PassOK, LastSeq, Walking
<1>8. \A m \in 1..p.at : Covered(m)'
  BY <1>1, CoverToStays
<1>9. PassCovers(w)'
  BY <1>1, <1>2, <1>3, <1>4, <1>6, <1>8
  DEF PassCovers, CoveredTo, Walking, ListenerInv
<1> QED
  BY <1>3, <1>4, <1>7, <1>9, QuietKeepsInv DEF Labels, ListenerInv, ListenerTypeOK

\* A trigger an event is owed is in the snapshot: it was enabled before the
\* event was in the ledger, so before the tail was read.
LEMMA MatchKeepsInv ==
    ASSUME ListenerInv, Onward, NEW w \in Workers, MatchTriggers(w)
    PROVE  ListenerInv'
<1> DEFINE p == pass[w]
           wanted == {g \in p.triggers : TypeOf[g] = events[p.at]}
           locals == [p EXCEPT !.todo = wanted]
<1>1. /\ at[w] = "waits" /\ p \in PassLocals
      /\ p.at \in Nat /\ p.at > 0 /\ p.at <= p.upTo /\ p.upTo <= LastSeq
      /\ p.upTo \in Nat /\ p.at <= LastSeq /\ \A m \in 1..(p.at - 1) : Covered(m)'
  BY WalkingFacts, Ranges DEF MatchTriggers, Seqs
<1>2. wanted \subseteq Triggers
  BY <1>1 DEF PassLocals
<1>3. /\ locals \in PassLocals /\ locals.at = p.at /\ locals.upTo = p.upTo
      /\ locals.triggers = p.triggers /\ locals.todo = wanted
  <2> HIDE DEF wanted
  <2> QED
    BY <1>1, <1>2 DEF PassLocals
<1>4. Continue(w, "fire", locals) /\ UNCHANGED <<events, cursor, since, sought,
          toggles, firings, fired, wait, resumes, reported, unmet, swallowed, enabled>>
  BY DEF MatchTriggers, triggerConfig, effects
<1>5. ASSUME NEW g \in enabled, p.at > since[g], TypeOf[g] = events[p.at]
      PROVE  g \in wanted
  <2>1. g \in p.triggers \/ since[g] >= p.upTo
    BY <1>1 DEF ListenerInv, PassCovers, Walking
  <2>2. since[g] \in Nat
    BY Ranges
  <2> QED
    BY <1>1, <1>5, <2>1, <2>2
<1> HIDE DEF locals, wanted
<1>6. at'[w] = "fire" /\ pass'[w] = locals
  BY <1>3, <1>4, Moved DEF Labels
<1>7. PassOK(w)'
  BY <1>1, <1>2, <1>3, <1>4, <1>6 DEF PassOK, LastSeq, Walking
<1>8. PassCovers(w)'
  BY <1>1, <1>3, <1>4, <1>5, <1>6 DEF PassCovers, CoveredTo, Walking, ListenerInv
<1> QED
  BY <1>3, <1>4, <1>7, <1>8, QuietKeepsInv DEF Labels, ListenerInv, ListenerTypeOK

\* Firing goes from one trigger to the next: `rest` is what is left after a
\* trigger that is handled, dropped or disabled.
LEMMA RestOfFiring ==
    ASSUME ListenerInv, Onward, NEW w \in Workers, at[w] = "fire",
           NEW g \in pass[w].todo, NEW label \in {"fire", "start"},
           NEW locals \in PassLocals,
           locals.at = pass[w].at, locals.upTo = pass[w].upTo,
           locals.triggers = pass[w].triggers, locals.todo = pass[w].todo \ {g},
           Continue(w, label, locals),
           UNCHANGED <<events, sought, since>>, enabled' \subseteq enabled,
           \/ <<g, pass[w].at>> \in firings' \union unmet' \union swallowed'
           \/ g \notin enabled'
    PROVE  PassOK(w)' /\ PassCovers(w)' /\ locals.todo \subseteq Triggers
<1> DEFINE p == pass[w]
<1>1. /\ p \in PassLocals
      /\ p.at \in Nat /\ p.at > 0 /\ p.at <= p.upTo /\ p.upTo <= LastSeq
      /\ p.upTo \in Nat /\ p.at <= LastSeq /\ \A m \in 1..(p.at - 1) : Covered(m)'
      /\ p.todo \subseteq Triggers
  BY WalkingFacts, Ranges DEF Seqs, ListenerInv, PassOK
<1>2. at'[w] = label /\ pass'[w] = locals
  BY Moved DEF Labels
<1>3. PassOK(w)'
  BY <1>1, <1>2 DEF PassOK, LastSeq, Walking
<1>4. \A h \in enabled' : h \in p.triggers \/ since'[h] >= p.upTo
  BY DEF ListenerInv, PassCovers, Walking
<1>5. ASSUME NEW h \in enabled', p.at > sought, p.at > since[h],
             TypeOf[h] = events[p.at]
      PROVE  h \in p.todo \ {g} \/ <<h, p.at>> \in firings' \union unmet' \union swallowed'
  <2>1. h \in p.todo \/ <<h, p.at>> \in firings \union unmet \union swallowed
    BY <1>5 DEF ListenerInv, PassCovers
  <2> QED
    BY <2>1 DEF Onward
<1>6. PassCovers(w)'
  BY <1>1, <1>2, <1>4, <1>5 DEF PassCovers, CoveredTo, Walking
<1> QED
  BY <1>1, <1>3, <1>6

LEMMA ConditionFailsKeepsInv ==
    ASSUME ListenerInv, Onward, NEW w \in Workers, ConditionFails(w)
    PROVE  ListenerInv'
<1>1. PICK g \in pass[w].todo \intersect Conditional :
        /\ Continue(w, "fire", [pass[w] EXCEPT !.todo = @ \ {g}])
        /\ \/ enabled' = enabled \ {g} /\ UNCHANGED unmet
           \/ unmet' = unmet \union {<<g, pass[w].at>>} /\ UNCHANGED enabled
  BY DEF ConditionFails
<1> DEFINE locals == [pass[w] EXCEPT !.todo = @ \ {g}]
<1>2. at[w] = "fire" /\ pass[w] \in PassLocals /\ pass[w].at \in Seqs
  BY WalkingFacts DEF ConditionFails
<1>3. /\ locals \in PassLocals /\ locals.at = pass[w].at
      /\ locals.upTo = pass[w].upTo /\ locals.triggers = pass[w].triggers
      /\ locals.todo = pass[w].todo \ {g}
  BY <1>2 DEF PassLocals
<1>4. Continue(w, "fire", locals) /\ UNCHANGED <<events, cursor, since, sought,
          toggles, firings, fired, wait, resumes, reported, swallowed>>
  BY <1>1 DEF ConditionFails
<1> HIDE DEF locals
<1>5. g \in Triggers /\ enabled' \subseteq enabled
  BY <1>1, ListenerAssumption
<1>6. PassOK(w)' /\ PassCovers(w)'
  BY <1>1, <1>2, <1>3, <1>4, <1>5, RestOfFiring
<1>7. unmet' \subseteq Triggers \X Seqs /\ swallowed' \subseteq Triggers \X Seqs
  BY <1>1, <1>2, <1>4, <1>5 DEF ListenerInv, ListenerTypeOK
<1> QED
  BY <1>3, <1>4, <1>6, <1>7, QuietKeepsInv DEF Labels

\* With no trigger left, the event itself is covered.
LEMMA NoMoreTriggersKeepsInv ==
    ASSUME ListenerInv, Onward, NEW w \in Workers, NoMoreTriggers(w)
    PROVE  ListenerInv'
<1> DEFINE p == pass[w]
<1>1. /\ at[w] = "fire" /\ p.todo = {} /\ p \in PassLocals
      /\ p.at \in Nat /\ p.at > 0 /\ p.at <= p.upTo /\ p.upTo <= LastSeq
      /\ p.upTo \in Nat /\ p.at <= LastSeq /\ \A m \in 1..(p.at - 1) : Covered(m)'
  BY WalkingFacts, Ranges DEF NoMoreTriggers, Seqs
<1>2. Continue(w, "event", p) /\ UNCHANGED <<events, cursor, since, sought,
          toggles, firings, fired, wait, resumes, reported, unmet, swallowed, enabled>>
  BY DEF NoMoreTriggers, triggerConfig, effects
<1>3. at'[w] = "event" /\ pass'[w] = p
  BY <1>1, <1>2, Moved DEF Labels
<1>4. Covered(p.at)
  BY <1>1 DEF ListenerInv, PassCovers, Covered
<1>5. ASSUME NEW m \in 1..p.at PROVE Covered(m)'
  <2>1. CASE m = p.at
    BY <1>1, <1>4, <2>1, CoverStays, Ranges
  <2>2. CASE m \in 1..(p.at - 1)
    BY <1>1, <2>2
  <2> QED
    BY <1>1, <2>1, <2>2
<1>6. PassOK(w)'
  BY <1>1, <1>2, <1>3 DEF PassOK, LastSeq, Walking
<1>7. PassCovers(w)'
  BY <1>1, <1>2, <1>3, <1>5 DEF PassCovers, CoveredTo, Walking, ListenerInv
<1> QED
  BY <1>1, <1>2, <1>6, <1>7, QuietKeepsInv DEF Labels, ListenerInv, ListenerTypeOK

LEMMA CrashKeepsInv ==
    ASSUME ListenerInv, Onward, NEW w \in Workers, ListenerCrash(w)
    PROVE  ListenerInv'
<1>1. NewPass \in PassLocals /\ NewPass.at = 0
  BY ListenerAssumption DEF NewPass, PassLocals
<1>2. Continue(w, "idle", NewPass) /\ UNCHANGED <<events, cursor, since, sought,
          toggles, firings, fired, wait, resumes, reported, unmet, swallowed, enabled>>
  BY DEF ListenerCrash, Dies, Continue, triggerConfig, effects
<1>3. at'[w] = "idle" /\ pass'[w] = NewPass
  BY <1>1, <1>2, Moved DEF Labels
<1>4. PassOK(w)' /\ PassCovers(w)'
  BY <1>1, <1>2, <1>3, Ranges DEF PassOK, PassCovers, LastSeq, Walking
<1> QED
  BY <1>1, <1>2, <1>4, QuietKeepsInv DEF Labels, ListenerInv, ListenerTypeOK

\* The cursor takes the tail the pass read, and the pass covered all of it.
LEMMA WriteCursorKeepsInv ==
    ASSUME ListenerInv, Onward, NEW w \in Workers, WriteCursor(w)
    PROVE  ListenerInv'
<1> DEFINE m == pass[w].upTo
<1>1. /\ at[w] = "event" /\ m \in 0..MaxEvents /\ m \in Nat /\ m <= LastSeq
      /\ CoveredTo(m)
  BY Ranges DEF WriteCursor, ListenerInv, PassOK, PassCovers, PassLocals, Walking
<1>2. NewPass \in PassLocals /\ NewPass.at = 0
  BY ListenerAssumption DEF NewPass, PassLocals
<1>3. /\ Continue(w, "idle", NewPass) /\ cursor' = m
      /\ UNCHANGED <<events, since, sought, toggles, firings, fired, wait, resumes,
                     reported, unmet, swallowed, enabled>>
  BY DEF WriteCursor, triggerConfig, effects
<1>4. /\ at'[w] = "idle" /\ pass'[w] = NewPass
      /\ \A v \in Workers \ {w} : at'[v] = at[v] /\ pass'[v] = pass[v]
  BY <1>2, <1>3, Moved DEF Labels
<1>5. PassOK(w)' /\ PassCovers(w)'
  BY <1>2, <1>3, <1>4, Ranges DEF PassOK, PassCovers, LastSeq, Walking
<1>6. CoveredTo(cursor)'
  <2>1. \A n \in 1..m : Covered(n)'
    BY <1>1, CoverToStays
  <2> QED
    BY <1>3, <2>1 DEF CoveredTo
<1>7. FiredWereClaimed' /\ ResumedAreDone'
  BY <1>3 DEF ListenerInv, FiredWereClaimed, ResumedAreDone
<1>8. \A v \in Workers : HoldsFiring(v)'
  BY <1>3, <1>4, HoldsFiringStays
<1> QED
  BY <1>1, <1>2, <1>3, <1>5, <1>6, <1>7, <1>8, MoveKeepsInv
  DEF Labels, ListenerInv, ListenerTypeOK

\* The conditional update lets one pass in.
LEMMA ResolveWaitKeepsInv ==
    ASSUME ListenerInv, Onward, NEW w \in Workers, ResolveWait(w)
    PROVE  ListenerInv'
<1>1. PICK k \in pass[w].todo :
        /\ Continue(w, "waits", [pass[w] EXCEPT !.todo = @ \ {k}])
        /\ wait' = [wait EXCEPT ![k] = "resumed"]
        /\ resumes' = [resumes EXCEPT ![k] =
                          IF wait[k] = "waiting" THEN @ + 1 ELSE @]
  BY DEF ResolveWait
<1> DEFINE p == pass[w]
           locals == [p EXCEPT !.todo = @ \ {k}]
<1>2. /\ at[w] = "waits" /\ p \in PassLocals
      /\ p.at \in Nat /\ p.at > 0 /\ p.at <= p.upTo /\ p.upTo <= LastSeq
      /\ p.upTo \in Nat /\ p.at <= LastSeq /\ \A m \in 1..(p.at - 1) : Covered(m)'
      /\ p.todo \subseteq Waits
  BY WalkingFacts, Ranges DEF ResolveWait, Seqs, ListenerInv, PassOK
<1>3. /\ locals \in PassLocals /\ locals.at = p.at /\ locals.upTo = p.upTo
      /\ locals.triggers = p.triggers /\ locals.todo = p.todo \ {k}
  BY <1>2 DEF PassLocals
<1>4. Continue(w, "waits", locals) /\ UNCHANGED <<events, cursor, since, sought,
          toggles, firings, fired, reported, unmet, swallowed, enabled>>
  BY <1>1 DEF ResolveWait, triggerConfig
<1> HIDE DEF locals
<1>5. /\ at'[w] = "waits" /\ pass'[w] = locals
      /\ \A v \in Workers \ {w} : at'[v] = at[v] /\ pass'[v] = pass[v]
  BY <1>3, <1>4, Moved DEF Labels
<1>6. PassOK(w)'
  BY <1>2, <1>3, <1>4, <1>5 DEF PassOK, LastSeq, Walking
<1>7. PassCovers(w)'
  BY <1>2, <1>3, <1>4, <1>5 DEF PassCovers, CoveredTo, Walking, ListenerInv
<1>8. /\ wait' \in [Waits -> {"unreached", "waiting", "resumed"}]
      /\ resumes' \in [Waits -> Nat] /\ ResumedAreDone'
  <2>1. k \in Waits /\ resumes[k] \in Nat
    BY <1>2 DEF ListenerInv, ListenerTypeOK
  <2>2. wait' \in [Waits -> {"unreached", "waiting", "resumed"}]
        /\ resumes' \in [Waits -> Nat]
    BY <1>1, <2>1 DEF ListenerInv, ListenerTypeOK
  <2>3. wait[k] = "waiting" => resumes[k] = 0
    BY <2>1 DEF ListenerInv, ResumedAreDone
  <2>4. resumes'[k] <= 1
    BY <1>1, <2>1, <2>3 DEF ListenerInv, ListenerTypeOK, ResumedAreDone
  <2>5. ResumedAreDone'
    BY <1>1, <2>1, <2>4 DEF ListenerInv, ListenerTypeOK, ResumedAreDone
  <2> QED
    BY <2>2, <2>5
<1>9. FiredWereClaimed'
  BY <1>4 DEF ListenerInv, FiredWereClaimed
<1>10. \A v \in Workers : HoldsFiring(v)'
  BY <1>4, <1>5, HoldsFiringStays
<1>11. CoveredTo(cursor)'
  <2>1. \A n \in 1..cursor : Covered(n)'
    BY Ranges, CoverToStays DEF ListenerInv
  <2> QED
    BY <1>4, <2>1 DEF CoveredTo
<1> QED
  BY <1>3, <1>4, <1>6, <1>7, <1>8, <1>9, <1>10, <1>11, MoveKeepsInv
  DEF Labels, ListenerInv, ListenerTypeOK

\* A pair in firings was handled by somebody; one that is not is nobody's yet,
\* and this pass makes it its own.
LEMMA InsertFiringKeepsInv ==
    ASSUME ListenerInv, Onward, NEW w \in Workers, InsertFiring(w)
    PROVE  ListenerInv'
<1> DEFINE p == pass[w]
           n == p.at
<1>1. PICK g \in p.todo :
        \/ /\ <<g, n>> \notin firings /\ firings' = firings \union {<<g, n>>}
           /\ Continue(w, "start", [[p EXCEPT !.todo = @ \ {g}] EXCEPT !.firing = g])
           /\ UNCHANGED swallowed
        \/ /\ swallowed' = swallowed \union ({<<g, n>>} \ firings)
           /\ Continue(w, "fire", [p EXCEPT !.todo = @ \ {g}])
           /\ UNCHANGED firings
  BY DEF InsertFiring
<1> DEFINE rest == [p EXCEPT !.todo = @ \ {g}]
           begun == [rest EXCEPT !.firing = g]
<1>2. /\ at[w] = "fire" /\ p \in PassLocals /\ n \in Seqs
      /\ p.todo \subseteq Triggers /\ g \in Triggers
  BY <1>1, WalkingFacts DEF InsertFiring, ListenerInv, PassOK
<1>3. /\ rest \in PassLocals /\ begun \in PassLocals
      /\ rest.at = n /\ rest.upTo = p.upTo /\ rest.triggers = p.triggers
      /\ rest.todo = p.todo \ {g}
      /\ begun.at = n /\ begun.upTo = p.upTo /\ begun.triggers = p.triggers
      /\ begun.todo = p.todo \ {g} /\ begun.firing = g
  BY <1>2 DEF PassLocals
<1>4. UNCHANGED <<events, cursor, since, sought, toggles, enabled, fired, wait,
                  resumes, reported, unmet>>
  BY DEF InsertFiring, triggerConfig
<1> HIDE DEF begun
<1>5. CASE /\ swallowed' = swallowed \union ({<<g, n>>} \ firings)
           /\ Continue(w, "fire", rest) /\ firings' = firings
  <2> HIDE DEF rest
  <2>1. <<g, n>> \in firings' \union unmet' \union swallowed'
    BY <1>5
  <2>2. PassOK(w)' /\ PassCovers(w)'
    BY <1>2, <1>3, <1>4, <1>5, <2>1, RestOfFiring
  <2>3. swallowed' \subseteq Triggers \X Seqs
    BY <1>2, <1>5 DEF ListenerInv, ListenerTypeOK
  <2> QED
    BY <1>3, <1>4, <1>5, <2>2, <2>3, QuietKeepsInv
    DEF Labels, ListenerInv, ListenerTypeOK
<1>6. CASE /\ <<g, n>> \notin firings /\ firings' = firings \union {<<g, n>>}
           /\ Continue(w, "start", begun) /\ swallowed' = swallowed
  <2>1. /\ Continue(w, "start", begun) /\ firings' = firings \union {<<g, n>>}
        /\ swallowed' = swallowed
    BY <1>6
  <2>2. PassOK(w)' /\ PassCovers(w)'
    BY <1>2, <1>3, <1>4, <2>1, RestOfFiring
  <2>3. /\ at'[w] = "start" /\ pass'[w] = begun
        /\ \A v \in Workers \ {w} : at'[v] = at[v] /\ pass'[v] = pass[v]
    BY <1>3, <2>1, Moved DEF Labels
  <2>4. firings' \subseteq Triggers \X Seqs
    BY <1>2, <2>1 DEF ListenerInv, ListenerTypeOK
  <2>5. FiredWereClaimed'
    BY <1>4, <2>1 DEF ListenerInv, FiredWereClaimed
  <2>6. ResumedAreDone'
    BY <1>4 DEF ListenerInv, ResumedAreDone
  <2>7. ASSUME NEW v \in Workers PROVE HoldsFiring(v)'
    <3>1. \A u \in Workers : HoldsFiring(u)
      BY DEF ListenerInv
    <3>2. fired[g][n] = 0
      BY <1>2, <1>6 DEF ListenerInv, FiredWereClaimed
    <3>3. \A u \in Workers \ {w} :
            at[u] = "start" => <<pass[u].firing, pass[u].at>> # <<g, n>>
      BY <1>6, <3>1 DEF HoldsFiring
    <3>4. CASE v = w
      BY <1>2, <1>3, <1>4, <2>1, <2>3, <3>2, <3>3, <3>4 DEF HoldsFiring
    <3>5. CASE v # w
      BY <1>3, <1>4, <2>1, <2>3, <3>1, <3>3, <3>5 DEF HoldsFiring
    <3> QED
      BY <3>4, <3>5
  <2>8. CoveredTo(cursor)'
    <3>1. \A m \in 1..cursor : Covered(m)'
      BY Ranges, CoverToStays DEF ListenerInv
    <3> QED
      BY <1>4, <3>1 DEF CoveredTo
  <2> QED
    BY <1>3, <1>4, <2>1, <2>2, <2>4, <2>5, <2>6, <2>7, <2>8, MoveKeepsInv
    DEF Labels, ListenerInv, ListenerTypeOK
<1> QED
  BY <1>1, <1>5, <1>6 DEF begun

\* Counting one more at one place of a table.
LEMMA OneMore ==
    ASSUME NEW A, NEW B, NEW f \in [A -> [B -> Nat]], NEW a \in A, NEW b \in B
    PROVE  LET f1 == [f EXCEPT ![a][b] = @ + 1]
           IN  /\ f1 \in [A -> [B -> Nat]] /\ f1[a][b] = f[a][b] + 1
               /\ \A c \in A : \A d \in B : ~(c = a /\ d = b) => f1[c][d] = f[c][d]
OBVIOUS

LEMMA StartInstanceKeepsInv ==
    ASSUME ListenerInv, Onward, NEW w \in Workers, StartInstance(w)
    PROVE  ListenerInv'
<1> DEFINE p == pass[w]
           g == p.firing
           n == p.at
           locals == [p EXCEPT !.firing = NoTrigger]
<1>1. /\ at[w] = "start" /\ p \in PassLocals /\ n \in Seqs
      /\ n \in Nat /\ n > 0 /\ n <= p.upTo /\ p.upTo <= LastSeq
      /\ p.upTo \in Nat /\ n <= LastSeq /\ \A m \in 1..(n - 1) : Covered(m)'
      /\ p.todo \subseteq Triggers
  BY WalkingFacts, Ranges DEF StartInstance, Seqs, ListenerInv, PassOK
<1>2. /\ locals \in PassLocals /\ locals.at = n /\ locals.upTo = p.upTo
      /\ locals.triggers = p.triggers /\ locals.todo = p.todo
  BY <1>1 DEF PassLocals
<1>3. Continue(w, "fire", locals) /\ UNCHANGED <<events, cursor, since, sought,
          toggles, enabled, firings, wait, resumes, unmet, swallowed>>
  BY DEF StartInstance, triggerConfig
<1>4. /\ g \in Triggers /\ <<g, n>> \in firings /\ fired[g][n] = 0
      /\ \A v \in Workers : (at[v] = "start" /\ pass[v].firing = g /\ pass[v].at = n)
                               => v = w
  BY <1>1 DEF ListenerInv, HoldsFiring
<1>5. \/ fired' = [fired EXCEPT ![g][n] = @ + 1] /\ UNCHANGED reported
      \/ reported' = reported \union {<<g, n>>} /\ UNCHANGED fired
  BY DEF StartInstance
<1> HIDE DEF locals
<1>6. /\ at'[w] = "fire" /\ pass'[w] = locals
      /\ \A v \in Workers \ {w} : at'[v] = at[v] /\ pass'[v] = pass[v]
  BY <1>2, <1>3, Moved DEF Labels
<1>7. /\ fired' \in [Triggers -> [Seqs -> Nat]] /\ fired'[g][n] <= 1
      /\ \A h \in Triggers : \A m \in Seqs :
            ~(h = g /\ m = n) => fired'[h][m] = fired[h][m]
  <2>1. fired \in [Triggers -> [Seqs -> Nat]]
    BY DEF ListenerInv, ListenerTypeOK
  <2> HIDE DEF g, n
  <2>2. CASE fired' = [fired EXCEPT ![g][n] = @ + 1]
    BY <1>1, <1>4, <2>1, <2>2, OneMore
  <2>3. CASE fired' = fired
    BY <1>4, <2>1, <2>3
  <2> QED
    BY <1>5, <2>2, <2>3
<1>8. reported' \subseteq Triggers \X Seqs
  BY <1>1, <1>4, <1>5 DEF ListenerInv, ListenerTypeOK
<1>9. FiredWereClaimed'
  <2> SUFFICES ASSUME NEW h \in Triggers, NEW m \in Seqs
               PROVE  /\ fired'[h][m] <= 1
                      /\ <<h, m>> \notin firings => fired'[h][m] = 0
    BY <1>3 DEF FiredWereClaimed
  <2>1. CASE h = g /\ m = n
    BY <1>4, <1>7, <2>1
  <2>2. CASE ~(h = g /\ m = n)
    BY <1>7, <2>2 DEF ListenerInv, FiredWereClaimed
  <2> QED
    BY <2>1, <2>2
<1>10. ResumedAreDone'
  BY <1>3 DEF ListenerInv, ResumedAreDone
<1>11. ASSUME NEW v \in Workers PROVE HoldsFiring(v)'
  <2> SUFFICES ASSUME at'[v] = "start"
               PROVE  LET h == pass'[v].firing  m == pass'[v].at
                      IN  /\ h \in Triggers /\ <<h, m>> \in firings' /\ fired'[h][m] = 0
                          /\ \A u \in Workers : (/\ at'[u] = "start"
                                                 /\ pass'[u].firing = h
                                                 /\ pass'[u].at = m) => u = v
    BY DEF HoldsFiring
  <2>1. v # w /\ at[v] = "start" /\ pass'[v] = pass[v]
    BY <1>6
  <2>2. HoldsFiring(v)
    BY DEF ListenerInv
  <2>3. ~(pass[v].firing = g /\ pass[v].at = n) /\ pass[v].at \in Seqs
    BY <1>4, <2>1, WalkingFacts
  <2>4. \A u \in Workers : at'[u] = "start" => at[u] = "start" /\ pass'[u] = pass[u]
    BY <1>6
  <2>5. fired'[pass[v].firing][pass[v].at] = 0
    BY <1>7, <2>1, <2>2, <2>3 DEF HoldsFiring
  <2> QED
    BY <1>3, <2>1, <2>2, <2>4, <2>5 DEF HoldsFiring
<1>12. CoveredTo(cursor)'
  <2>1. \A m \in 1..cursor : Covered(m)'
    BY Ranges, CoverToStays DEF ListenerInv
  <2> QED
    BY <1>3, <2>1 DEF CoveredTo
<1>13. PassOK(w)'
  BY <1>1, <1>2, <1>3, <1>6 DEF PassOK, LastSeq, Walking
<1>14. PassCovers(w)'
  BY <1>1, <1>2, <1>3, <1>6 DEF PassCovers, CoveredTo, Walking, ListenerInv
<1> QED
  BY <1>2, <1>3, <1>7, <1>8, <1>9, <1>10, <1>11, <1>12, <1>13, <1>14, MoveKeepsInv
  DEF Labels, ListenerInv, ListenerTypeOK

-----------------------------------------------------------------------------
(***************************************************************************)
(* What others do to the tables: no pass moves.                            *)
(***************************************************************************)
LEMMA TablesKeepInv ==
    ASSUME ListenerInv, Onward, UNCHANGED <<at, pass, firings, fired>>,
           ListenerTypeOK', ResumedAreDone', CoveredTo(cursor)', cursor' <= LastSeq'
    PROVE  ListenerInv'
<1>1. \A w \in Workers : PassOK(w)' /\ PassCovers(w)'
  BY IdlePassKeeps
<1>2. FiredWereClaimed' /\ pass' \in [Workers -> PassLocals]
  BY DEF ListenerInv, FiredWereClaimed
<1>3. \A w \in Workers : HoldsFiring(w)'
  BY HoldsFiringStays
<1> QED
  BY <1>1, <1>2, <1>3 DEF ListenerInv

LEMMA OthersKeepInv ==
    ASSUME ListenerInv, Onward,
           \/ Emit \/ SeekToLatest
           \/ \E k \in Waits : ParkWait(k)
           \/ \E g \in Triggers : UpsertTrigger(g) \/ DisableTrigger(g)
    PROVE  ListenerInv'
<1> USE Ranges, ListenerAssumption
<1>1. \A n \in 1..cursor : Covered(n)'
  BY CoverToStays DEF ListenerInv
<1>2. CASE Emit
  <2>1. PICK e \in EventTypes : events' = Append(events, e)
    BY <1>2 DEF Emit
  <2>2. events' \in Seq(EventTypes) /\ LastSeq' = LastSeq + 1 /\ LastSeq' <= MaxEvents
    BY <1>2, <2>1 DEF ListenerInv, ListenerTypeOK, LastSeq, Emit
  <2>3. UNCHANGED <<cursor, sought, enabled, since, toggles, firings, fired, wait,
                    resumes, reported, unmet, swallowed, at, pass>>
    BY <1>2 DEF Emit, triggerConfig, effects
  <2>4. ListenerTypeOK'
    BY <2>2, <2>3 DEF ListenerInv, ListenerTypeOK, LastSeq
  <2>5. ResumedAreDone' /\ CoveredTo(cursor)'
    BY <1>1, <2>3 DEF ListenerInv, ResumedAreDone, CoveredTo
  <2>6. cursor' <= LastSeq'
    BY <2>2, <2>3 DEF ListenerInv
  <2> QED
    BY <2>3, <2>4, <2>5, <2>6, TablesKeepInv
<1>3. CASE SeekToLatest
  <2>1. /\ UNCHANGED <<events, enabled, since, firings, fired, wait, resumes,
                       reported, unmet, swallowed, at, pass>>
        /\ cursor' = LastSeq /\ sought' = LastSeq /\ LastSeq' = LastSeq
        /\ LastSeq \in 0..MaxEvents
    BY <1>3 DEF SeekToLatest, effects, LastSeq
  <2>2. toggles' \in 0..MaxToggles
    BY <1>3 DEF SeekToLatest, ListenerInv, ListenerTypeOK
  <2>3. ListenerTypeOK'
    BY <2>1, <2>2 DEF ListenerInv, ListenerTypeOK
  <2>4. CoveredTo(cursor)' /\ cursor' <= LastSeq'
    BY <2>1 DEF CoveredTo, Covered
  <2>5. ResumedAreDone'
    BY <2>1 DEF ListenerInv, ResumedAreDone
  <2> QED
    BY <2>1, <2>3, <2>4, <2>5, TablesKeepInv
<1>4. ASSUME NEW k \in Waits, ParkWait(k) PROVE ListenerInv'
  <2>1. ListenerTypeOK'
    BY <1>4 DEF ParkWait, ListenerInv, ListenerTypeOK, triggerConfig
  <2>2. ResumedAreDone' /\ CoveredTo(cursor)' /\ cursor' <= LastSeq'
    BY <1>1, <1>4 DEF ParkWait, ListenerInv, ListenerTypeOK, ResumedAreDone,
       CoveredTo, LastSeq
  <2> QED
    BY <1>4, <2>1, <2>2, TablesKeepInv DEF ParkWait
<1>5. ASSUME NEW g \in Triggers, UpsertTrigger(g) \/ DisableTrigger(g)
      PROVE  ListenerInv'
  <2>1. /\ UNCHANGED <<events, cursor, sought, firings, fired, wait, resumes,
                       reported, unmet, swallowed, at, pass>>
        /\ LastSeq' = LastSeq /\ LastSeq \in 0..MaxEvents
    BY <1>5 DEF UpsertTrigger, DisableTrigger, effects, LastSeq
  <2>2. toggles' \in 0..MaxToggles
    BY <1>5 DEF UpsertTrigger, DisableTrigger, ListenerInv, ListenerTypeOK
  <2>3. enabled' \subseteq Triggers /\ since' \in [Triggers -> 0..MaxEvents]
    <3>1. enabled \subseteq Triggers /\ since \in [Triggers -> 0..MaxEvents]
      BY DEF ListenerInv, ListenerTypeOK
    <3>2. CASE DisableTrigger(g)
      BY <3>1, <3>2 DEF DisableTrigger
    <3>3. CASE UpsertTrigger(g)
      <4>1. since' = [since EXCEPT ![g] = IF g \in enabled THEN since[g] ELSE LastSeq]
        BY <3>1, <3>3 DEF UpsertTrigger
      <4> QED
        BY <2>1, <3>1, <3>3, <4>1 DEF UpsertTrigger
    <3> QED
      BY <1>5, <3>2, <3>3
  <2>4. ListenerTypeOK'
    BY <2>1, <2>2, <2>3 DEF ListenerInv, ListenerTypeOK
  <2>5. ResumedAreDone' /\ CoveredTo(cursor)' /\ cursor' <= LastSeq'
    BY <1>1, <2>1 DEF ListenerInv, ResumedAreDone, CoveredTo
  <2> QED
    BY <2>1, <2>4, <2>5, TablesKeepInv
<1> QED
  BY <1>2, <1>3, <1>4, <1>5

LEMMA ListenerNextInv == ListenerInv /\ [ListenerNext]_listenerVars => ListenerInv'
<1> SUFFICES ASSUME ListenerInv, [ListenerNext]_listenerVars PROVE ListenerInv'
  OBVIOUS
<1>1. Onward
  BY StepsGoOnward
<1>2. ASSUME NEW w \in Workers, ListenerStep(w) \/ ListenerCrash(w) PROVE ListenerInv'
  BY <1>1, <1>2, ReadingKeepsInv, NextEventKeepsInv, MatchKeepsInv,
     ConditionFailsKeepsInv, NoMoreTriggersKeepsInv, CrashKeepsInv,
     WriteCursorKeepsInv, ResolveWaitKeepsInv, InsertFiringKeepsInv,
     StartInstanceKeepsInv DEF ListenerStep
<1>3. CASE UNCHANGED listenerVars
  BY <1>3 DEF listenerVars, listenerState, triggerConfig, effects, ListenerInv,
     ListenerTypeOK, LastSeq, PassOK, HoldsFiring, FiredWereClaimed,
     ResumedAreDone, CoveredTo, Covered, PassCovers
<1> QED
  BY <1>1, <1>2, <1>3, OthersKeepInv DEF ListenerNext

-----------------------------------------------------------------------------
LEMMA ListenerInvImplies ==
    ListenerInv => ListenerTypeOK /\ FiredAtMostOnce /\ ResumedOnce /\ NoEventSkipped
BY DEF ListenerInv, FiredWereClaimed, FiredAtMostOnce, ResumedAreDone, ResumedOnce,
   CoveredTo, Covered, NoEventSkipped

\* However many passes overlap, die and replay, and wherever a stale one leaves
\* the cursor, no event that an enabled trigger was owed is behind it
\* unhandled (listener.ts listenerPass, seekToLatest apart).
THEOREM NothingIsSkipped == ListenerSafetySpec => []NoEventSkipped
BY ListenerInitInv, ListenerNextInv, ListenerInvImplies, PTL DEF ListenerSafetySpec

\* A trigger starts at most one instance for an event and a wait is advanced at
\* most once (listener.ts fireTrigger and resolveWaits).
THEOREM ListenerActsOnce == ListenerSafetySpec => [](FiredAtMostOnce /\ ResumedOnce)
BY ListenerInitInv, ListenerNextInv, ListenerInvImplies, PTL DEF ListenerSafetySpec

(************************* THE SCHEDULER AND SWEEPS ************************)

Holding(w) == at[w] \in {"report", "start"}

\* The clocks: nothing is read from the future.
ClocksOK ==
    /\ \A w \in Workers : clock[w] <= now
    /\ edit # NoRow => edit \in Edits

\* What a pass read as due was a row, and was due by its clock.
DueWasDue ==
    \A w \in Workers : \A c \in due[w] :
        sched[c.sched] # NoRow /\ c.next <= clock[w]

\* What was claimed is behind the row's next occurrence, unless an edit came
\* too late for its own.
ClaimsAreBehind ==
    \A s \in Schedules : \A o \in Occurrences : claims[s][o] # NotClaimed =>
        /\ sched[s] # NoRow
        /\ o <= claims[s][o] /\ claims[s][o] <= now
        /\ s \notin overtaken => claims[s][o] < sched[s].next

\* A pass has an occurrence in hand from its claim to its start, alone but
\* for the same exception.
ClaimIsHeld ==
    \A w \in Workers :
        /\ Holding(w) <=> claimed[w] # NoRow
        /\ claimed[w] # NoRow =>
             LET c == claimed[w]
             IN  /\ claims[c.sched][c.next] # NotClaimed
                 /\ c.sched \notin overtaken =>
                      /\ starts[c.sched][c.next] = 0
                      /\ \A v \in Workers :
                           (/\ claimed[v] # NoRow /\ claimed[v].sched = c.sched
                            /\ claimed[v].next = c.next) => v = w

StartsWereClaimed ==
    \A s \in Schedules : \A o \in Occurrences :
        /\ s \notin overtaken => starts[s][o] <= 1
        /\ claims[s][o] = NotClaimed => starts[s][o] = 0

SchedulerInv ==
    /\ SchedulerTypeOK /\ ClocksOK /\ DueWasDue
    /\ ClaimsAreBehind /\ ClaimIsHeld /\ StartsWereClaimed
    /\ NoBacklog /\ ClaimedIsVisible

-----------------------------------------------------------------------------
SweepCopies == [task : Tasks, sent : Nat]

SweepLocalsOK ==
    /\ todo \in [Workers -> SUBSET SweepCopies]
    /\ current \in [Workers -> SweepCopies \union {NoCopy}]
    /\ crashes \in Nat

OneCopyEach ==
    \A w \in Workers : \A c, d \in todo[w] : c.task = d.task => c = d

\* Marked, then told: what a worker has left to mark it never told, and what
\* it has in hand is marked and not told by it yet.
MarkedFirst ==
    /\ \A w \in Workers : \A t \in Tasks :
          alerts[w][t] <= 1 /\ (~escalated[t] => alerts[w][t] = 0)
    /\ \A w \in Workers :
          /\ at[w] \in {"escalate", "alert"} =>
                \A c \in todo[w] : alerts[w][c.task] = 0
          /\ at[w] = "alert" =>
                /\ current[w] \in SweepCopies
                /\ escalated[current[w].task] /\ alerts[w][current[w].task] = 0
                /\ \A c \in todo[w] : c.task # current[w].task

\* What a sweep read of a reminder is still so while its count stands.
Current(c) == c.sent <= sent[c.task] /\ (c.sent = sent[c.task] => remind[c.task] = "due")

RemindersAreCurrent ==
    \A w \in Workers :
        /\ at[w] \in {"remind", "mark"} => \A c \in todo[w] : Current(c)
        /\ at[w] = "mark" => current[w] \in SweepCopies /\ Current(current[w])

\* A count goes past the cap only by records made on an outdated one.
CapOf(t) == MaxReminders + 2 * stale[t]
SentIsCapped ==
    \A t \in Tasks : /\ sent[t] <= CapOf(t)
                     /\ remind[t] # "none" => sent[t] < CapOf(t)

\* A chase raised and not recorded is in hand, or went with a death.
ChasesAreCounted ==
    \A t \in Tasks : chases[t] <= sent[t] + Cardinality(Recording(t)) + crashes

SweepInv ==
    /\ SweepTypeOK /\ SweepLocalsOK /\ OneCopyEach
    /\ MarkedFirst /\ RemindersAreCurrent /\ SentIsCapped /\ ChasesAreCounted

\* Of a part that is not followed, nothing has been taken.
RestIsUntouched ==
    /\ focus # "scheduler" => \A s \in Schedules : \A o \in Occurrences :
          starts[s][o] = 0 /\ claims[s][o] = NotClaimed
    /\ focus # "listener" =>
          /\ \A g \in Triggers : \A n \in Seqs : fired[g][n] = 0
          /\ \A k \in Waits : resumes[k] = 0
    /\ focus # "sweeps" =>
          /\ \A w \in Workers : \A t \in Tasks : alerts[w][t] = 0
          /\ \A t \in Tasks : chases[t] = 0 /\ sent[t] = 0 /\ stale[t] = 0

PassesInv ==
    /\ focus \in {"scheduler", "listener", "sweeps"}
    /\ focus = "scheduler" => SchedulerInv
    /\ focus = "listener"  => ListenerInv
    /\ focus = "sweeps"    => SweepInv
    /\ RestIsUntouched /\ crashes \in Nat

-----------------------------------------------------------------------------
(***************************************************************************)
(* The scheduler.                                                          *)
(***************************************************************************)
LEMMA OccurrencesAreTimes ==
    /\ \A o \in Occurrences : o \in Nat
    /\ \A c \in Crons, t \in Times : /\ NextOccurrence[c][t] \in Occurrences
                                    /\ NextOccurrence[c][t] > t
    /\ \A t \in Times : t \in Nat /\ t # NotClaimed
BY SchedulerAssumption DEF Occurrences, Times, NotClaimed

LEMMA ClaimsAreTimes ==
    ASSUME SchedulerTypeOK, NEW s \in Schedules, NEW o \in Occurrences,
           claims[s][o] # NotClaimed
    PROVE  claims[s][o] \in Nat
<1>1. claims[s] \in [Occurrences -> Times \union {NotClaimed}]
  BY DEF SchedulerTypeOK
<1>2. claims[s][o] \in Times
  BY <1>1
<1> QED
  BY <1>2, OccurrencesAreTimes

\* Writing one column of a row leaves a row, with the other columns as they were.
LEMMA RowsStay ==
    ASSUME NEW r \in Rows, NEW b \in BOOLEAN, NEW o \in Occurrences
    PROVE  /\ r # NoRow
           /\ [r EXCEPT !.enabled = b] \in Rows /\ [r EXCEPT !.enabled = b].next = r.next
           /\ [r EXCEPT !.valid = b] \in Rows /\ [r EXCEPT !.valid = b].next = r.next
           /\ [r EXCEPT !.next = o] \in Rows /\ [r EXCEPT !.next = o].next = o
           /\ [r EXCEPT !.enabled = b] # NoRow /\ [r EXCEPT !.valid = b] # NoRow
           /\ [r EXCEPT !.next = o] # NoRow
<1>1. [r EXCEPT !.enabled = b] \in Rows /\ [r EXCEPT !.enabled = b].next = r.next
  BY DEF Rows
<1>2. [r EXCEPT !.valid = b] \in Rows /\ [r EXCEPT !.valid = b].next = r.next
  BY DEF Rows
<1>3. [r EXCEPT !.next = o] \in Rows /\ [r EXCEPT !.next = o].next = o
  BY DEF Rows
<1> QED
  BY <1>1, <1>2, <1>3, NoRowAssumption

LEMMA SchedulerInitInv == SchedulerInit => SchedulerInv
<1> SUFFICES ASSUME SchedulerInit PROVE SchedulerInv
  OBVIOUS
<1> USE SchedulerAssumption, PoolAssumption DEF SchedulerInit, PoolInit
<1>1. SchedulerTypeOK
  BY DEF SchedulerTypeOK, Times
<1>2. ClocksOK /\ DueWasDue /\ ClaimsAreBehind /\ StartsWereClaimed
  BY DEF ClocksOK, DueWasDue, ClaimsAreBehind, StartsWereClaimed, Times
<1>3. ClaimIsHeld
  BY DEF ClaimIsHeld, Holding
<1>4. NoBacklog /\ ClaimedIsVisible
  BY DEF NoBacklog, ClaimedIsVisible
<1> QED
  BY <1>1, <1>2, <1>3, <1>4 DEF SchedulerInv

\* Steps that write no claim and no start, and leave each row's nextRunAt.
LEMMA ColumnsKeepInv ==
    ASSUME SchedulerInv, SchedulerTypeOK', now' = now,
           UNCHANGED <<edit, claims, starts, overtaken, claimed, crashes>>,
           visible \subseteq visible',
           \A s \in Schedules : sched[s] # NoRow =>
               sched'[s] # NoRow /\ sched'[s].next = sched[s].next,
           \A w \in Workers : Holding(w)' <=> Holding(w),
           \A w \in Workers : clock'[w] <= now,
           DueWasDue'
    PROVE  SchedulerInv'
<1>1. ClocksOK'
  BY DEF SchedulerInv, ClocksOK
<1>2. ClaimsAreBehind'
  <2> SUFFICES ASSUME NEW s \in Schedules, NEW o \in Occurrences,
                      claims[s][o] # NotClaimed
               PROVE  /\ sched'[s] # NoRow
                      /\ s \notin overtaken => claims[s][o] < sched'[s].next
                      /\ o <= claims[s][o] /\ claims[s][o] <= now
    BY DEF ClaimsAreBehind
  <2>1. /\ sched[s] # NoRow /\ (s \notin overtaken => claims[s][o] < sched[s].next)
        /\ o <= claims[s][o] /\ claims[s][o] <= now
    BY DEF SchedulerInv, ClaimsAreBehind
  <2>2. sched'[s] # NoRow /\ sched'[s].next = sched[s].next
    BY <2>1
  <2> QED
    BY <2>1, <2>2
<1>3. ClaimIsHeld'
  BY DEF SchedulerInv, ClaimIsHeld
<1>4. StartsWereClaimed' /\ NoBacklog' /\ ClaimedIsVisible'
  BY DEF SchedulerInv, StartsWereClaimed, NoBacklog, ClaimedIsVisible
<1> QED
  BY <1>1, <1>2, <1>3, <1>4 DEF SchedulerInv

LEMMA ReadDueKeepsInv ==
    ASSUME SchedulerInv, NEW w \in Workers, ReadDue(w)
    PROVE  SchedulerInv'
<1> USE DEF SchedulerInv, SchedulerTypeOK
<1> DEFINE D == {DueCopy(s) : s \in {r \in Schedules : IsDue(r)}}
<1>1. \A c \in D : c \in Copies /\ sched[c.sched] # NoRow /\ c.next <= now
  <2> SUFFICES ASSUME NEW s \in Schedules, IsDue(s)
               PROVE  LET c == DueCopy(s)
                      IN  c \in Copies /\ sched[c.sched] # NoRow /\ c.next <= now
    OBVIOUS
  <2>1. sched[s] \in Rows /\ sched[s] # NoRow
    BY DEF IsDue, Exists
  <2> QED
    BY <2>1 DEF DueCopy, Copies, Rows, IsDue
<1> HIDE DEF D
<1>2. /\ due' = [due EXCEPT ![w] = D] /\ clock' = [clock EXCEPT ![w] = now]
      /\ at[w] = "idle" /\ at' = [at EXCEPT ![w] = "rows"]
      /\ UNCHANGED <<sched, now, claimed, edit, claims, starts, visible, overtaken,
                     edits, crashes>>
  BY DEF ReadDue, D, Goto, occurred
<1>3. SchedulerTypeOK'
  BY <1>1, <1>2
<1>4. DueWasDue'
  BY <1>1, <1>2 DEF DueWasDue
<1>5. \A v \in Workers : (Holding(v)' <=> Holding(v)) /\ clock'[v] <= now
  BY <1>2, OccurrencesAreTimes DEF Holding, ClocksOK
<1> QED
  BY <1>2, <1>3, <1>4, <1>5, ColumnsKeepInv

LEMMA EndPassKeepsInv ==
    ASSUME SchedulerInv, NEW w \in Workers, EndSchedulerPass(w)
    PROVE  SchedulerInv'
<1> USE DEF SchedulerInv, SchedulerTypeOK
<1>1. /\ at[w] = "rows" /\ at' = [at EXCEPT ![w] = "idle"]
      /\ UNCHANGED <<sched, now, clock, due, claimed, edit, claims, starts, visible,
                     overtaken, edits, crashes>>
  BY DEF EndSchedulerPass, Goto, occurred
<1>2. SchedulerTypeOK' /\ DueWasDue'
  BY <1>1 DEF DueWasDue
<1>3. \A v \in Workers : (Holding(v)' <=> Holding(v)) /\ clock'[v] <= now
  BY <1>1 DEF Holding, ClocksOK
<1> QED
  BY <1>1, <1>2, <1>3, ColumnsKeepInv

LEMMA ReportKeepsInv ==
    ASSUME SchedulerInv, NEW w \in Workers, ReportLate(w)
    PROVE  SchedulerInv'
<1> USE DEF SchedulerInv, SchedulerTypeOK
<1>1. /\ at[w] = "report" /\ at' = [at EXCEPT ![w] = "start"]
      /\ UNCHANGED <<sched, now, clock, due, claimed, edit, claims, starts, overtaken,
                     edits, crashes>>
      /\ visible' \in {visible, visible \union {<<claimed[w].sched, claimed[w].next>>}}
  BY DEF ReportLate, Goto
<1>2. claimed[w] \in Copies
  BY <1>1 DEF ClaimIsHeld, Holding
<1>3. visible \subseteq visible' /\ visible' \subseteq Schedules \X Occurrences
  BY <1>1, <1>2 DEF Copies
<1>4. SchedulerTypeOK' /\ DueWasDue'
  BY <1>1, <1>3 DEF DueWasDue
<1>5. \A v \in Workers : (Holding(v)' <=> Holding(v)) /\ clock'[v] <= now
  BY <1>1 DEF Holding, ClocksOK
<1> QED
  BY <1>1, <1>3, <1>4, <1>5, ColumnsKeepInv

LEMMA DisableKeepsInv ==
    ASSUME SchedulerInv, NEW w \in Workers, DisableBroken(w)
    PROVE  SchedulerInv'
<1> USE DEF SchedulerInv, SchedulerTypeOK
<1>1. PICK c \in due[w] :
        /\ sched' = [sched EXCEPT ![c.sched].enabled = FALSE]
        /\ visible' = visible \union {<<c.sched, c.next>>}
        /\ due' = [due EXCEPT ![w] = @ \ {c}]
  BY DEF DisableBroken
<1>2. UNCHANGED <<now, at, clock, claimed, edit, claims, starts, overtaken, edits, crashes>>
  BY DEF DisableBroken
<1> DEFINE s == c.sched
<1>3. c \in Copies /\ s \in Schedules /\ sched[s] \in Rows /\ sched[s] # NoRow
  BY DEF DueWasDue, Copies
<1>4. /\ [sched[s] EXCEPT !.enabled = FALSE] \in Rows
      /\ [sched[s] EXCEPT !.enabled = FALSE].next = sched[s].next
      /\ [sched[s] EXCEPT !.enabled = FALSE] # NoRow
  <2>1. Occurrences # {}
    BY <1>3 DEF Rows
  <2> QED
    BY <1>3, <2>1, RowsStay
<1>5. sched' = [sched EXCEPT ![s] = [sched[s] EXCEPT !.enabled = FALSE]]
  BY <1>1, <1>3
<1>6. visible' \subseteq Schedules \X Occurrences /\ visible \subseteq visible'
  BY <1>1, <1>3 DEF Copies
<1> HIDE DEF s
<1>7. /\ sched' \in [Schedules -> Rows \union {NoRow}]
      /\ \A r \in Schedules : sched[r] # NoRow =>
            sched'[r] # NoRow /\ sched'[r].next = sched[r].next
  BY <1>3, <1>4, <1>5
<1>8. due' \in [Workers -> SUBSET Copies] /\ \A v \in Workers : due'[v] \subseteq due[v]
  BY <1>1
<1>9. SchedulerTypeOK'
  BY <1>2, <1>6, <1>7, <1>8
<1>10. DueWasDue'
  <2> SUFFICES ASSUME NEW v \in Workers, NEW d \in due'[v]
               PROVE  sched'[d.sched] # NoRow /\ d.next <= clock'[v]
    BY DEF DueWasDue
  <2>1. d \in due[v] /\ d.sched \in Schedules
    BY <1>8 DEF Copies
  <2> QED
    BY <1>2, <1>7, <2>1 DEF DueWasDue
<1>11. \A v \in Workers : (Holding(v)' <=> Holding(v)) /\ clock'[v] <= now
  BY <1>2 DEF Holding, ClocksOK
<1> QED
  BY <1>2, <1>6, <1>7, <1>9, <1>10, <1>11, ColumnsKeepInv

\* Writing one cell of a table of tables.
LEMMA OneCell ==
    ASSUME NEW A, NEW B, NEW C, NEW f \in [A -> [B -> C]],
           NEW a \in A, NEW b \in B, NEW x \in C
    PROVE  LET f1 == [f EXCEPT ![a][b] = x]
           IN  /\ f1 \in [A -> [B -> C]] /\ f1[a][b] = x
               /\ \A c \in A : \A d \in B : ~(c = a /\ d = b) => f1[c][d] = f[c][d]
OBVIOUS

\* A claim that wins takes an occurrence nobody claimed, and leaves the row
\* later than the clock it is recorded with.
LEMMA TakeKeepsInv ==
    ASSUME SchedulerInv, NEW w \in Workers, at[w] = "rows", NEW c \in due[w],
           due' = [due EXCEPT ![w] = @ \ {c}],
           sched[c.sched].next = c.next,
           Take(w, c, NextOccurrence[c.cron][clock[w]]),
           UNCHANGED <<now, clock, edit, starts, visible, overtaken, edits, crashes>>
    PROVE  SchedulerInv'
<1> USE DEF SchedulerInv, SchedulerTypeOK
<1> DEFINE s == c.sched
           o == c.next
           t == clock[w]
           n == NextOccurrence[c.cron][t]
<1>1. /\ c \in Copies /\ s \in Schedules /\ o \in Occurrences /\ t \in Times
      /\ n \in Occurrences /\ n > t /\ o <= t /\ t <= now
      /\ sched[s] \in Rows /\ sched[s] # NoRow /\ sched[s].next = o
      /\ n \in Nat /\ t \in Nat /\ o \in Nat /\ now \in Nat /\ t # NotClaimed
  BY OccurrencesAreTimes DEF DueWasDue, ClocksOK, Copies
<1>2. /\ sched' = [sched EXCEPT ![s] = [sched[s] EXCEPT !.next = n]]
      /\ claims' = [claims EXCEPT ![s][o] = t]
      /\ claimed' = [claimed EXCEPT ![w] = c]
      /\ at' = [at EXCEPT ![w] = "report"]
  BY <1>1 DEF Take, Goto
<1>3. /\ [sched[s] EXCEPT !.next = n] \in Rows
      /\ [sched[s] EXCEPT !.next = n].next = n
      /\ [sched[s] EXCEPT !.next = n] # NoRow
  <2>1. ASSUME NEW r \in Rows, NEW q \in Occurrences
        PROVE  [r EXCEPT !.next = q] \in Rows /\ [r EXCEPT !.next = q].next = q
               /\ [r EXCEPT !.next = q] # NoRow
    <3>1. TRUE \in BOOLEAN
      OBVIOUS
    <3> QED
      BY <3>1, RowsStay
  <2>2. sched[s] \in Rows /\ n \in Occurrences
    BY <1>1
  <2> HIDE DEF s, n
  <2> QED
    BY <2>1, <2>2
<1>4. c # NoRow
  BY <1>1, NoRowAssumption
<1> HIDE DEF s, o, t, n
<1>5. /\ claims' \in [Schedules -> [Occurrences -> Times \union {NotClaimed}]]
      /\ claims'[s][o] = t
      /\ \A r \in Schedules : \A q \in Occurrences :
            ~(r = s /\ q = o) => claims'[r][q] = claims[r][q]
  BY <1>1, <1>2, OneCell
<1>6. /\ sched' \in [Schedules -> Rows \union {NoRow}]
      /\ sched'[s].next = n /\ sched'[s] # NoRow
      /\ \A r \in Schedules \ {s} : sched'[r] = sched[r]
  BY <1>1, <1>2, <1>3
<1>7. /\ claimed' \in [Workers -> Copies \union {NoRow}] /\ claimed'[w] = c
      /\ \A v \in Workers \ {w} : claimed'[v] = claimed[v]
      /\ \A v \in Workers : Holding(v)' <=> (v = w \/ Holding(v))
      /\ due' \in [Workers -> SUBSET Copies] /\ \A v \in Workers : due'[v] \subseteq due[v]
  BY <1>1, <1>2 DEF Holding
<1>8. SchedulerTypeOK'
  BY <1>2, <1>5, <1>6, <1>7
<1>9. ClocksOK'
  BY DEF ClocksOK
<1>10. DueWasDue'
  <2> SUFFICES ASSUME NEW v \in Workers, NEW d \in due'[v]
               PROVE  sched'[d.sched] # NoRow /\ d.next <= clock[v]
    BY DEF DueWasDue
  <2>1. d \in due[v] /\ d.sched \in Schedules
    BY <1>7 DEF Copies
  <2> QED
    BY <1>6, <2>1 DEF DueWasDue
\* Nobody claimed this one: the row would have left it behind.
<1>11. s \notin overtaken => claims[s][o] = NotClaimed
  <2> SUFFICES ASSUME s \notin overtaken, claims[s][o] # NotClaimed PROVE FALSE
    OBVIOUS
  <2>1. o <= claims[s][o] /\ claims[s][o] < o
    BY <1>1 DEF ClaimsAreBehind
  <2>2. claims[s][o] \in Nat
    BY <1>1, ClaimsAreTimes
  <2> QED
    BY <1>1, <2>1, <2>2
<1>12. ClaimsAreBehind'
  <2> SUFFICES ASSUME NEW r \in Schedules, NEW q \in Occurrences,
                      claims'[r][q] # NotClaimed
               PROVE  /\ sched'[r] # NoRow /\ q <= claims'[r][q] /\ claims'[r][q] <= now
                      /\ r \notin overtaken => claims'[r][q] < sched'[r].next
    BY DEF ClaimsAreBehind
  <2>1. CASE r = s /\ q = o
    BY <1>1, <1>5, <1>6, <2>1
  <2>2. CASE r = s /\ q # o
    <3>1. /\ s \notin overtaken => claims[s][q] < o
          /\ q <= claims[s][q] /\ claims[s][q] <= now
      BY <1>1, <1>5, <2>2 DEF ClaimsAreBehind
    <3>2. claims[s][q] \in Nat
      BY <1>1, <1>5, <2>2, ClaimsAreTimes
    <3> QED
      BY <1>1, <1>5, <1>6, <2>2, <3>1, <3>2
  <2>3. CASE r # s
    BY <1>5, <1>6, <2>3 DEF ClaimsAreBehind
  <2> QED
    BY <2>1, <2>2, <2>3
<1>13. /\ claimed[w] = NoRow
       /\ s \notin overtaken =>
            /\ starts[s][o] = 0
            /\ \A v \in Workers : claimed[v] # NoRow =>
                 ~(claimed[v].sched = s /\ claimed[v].next = o)
  BY <1>1, <1>11 DEF ClaimIsHeld, StartsWereClaimed, Holding
<1>14. ClaimIsHeld'
  <2>1. c.sched = s /\ c.next = o
    BY DEF s, o
  <2>2. ASSUME NEW v \in Workers
        PROVE  Holding(v)' <=> claimed'[v] # NoRow
    BY <1>4, <1>7 DEF ClaimIsHeld
  <2>3. ASSUME NEW v \in Workers, claimed'[v] # NoRow
        PROVE  /\ claims'[claimed'[v].sched][claimed'[v].next] # NotClaimed
               /\ claimed'[v].sched \notin overtaken =>
                    starts[claimed'[v].sched][claimed'[v].next] = 0
    <3>1. CASE v = w
      BY <1>1, <1>5, <1>7, <1>13, <2>1, <3>1
    <3>2. CASE v # w
      <4>1. claimed'[v] = claimed[v] /\ claimed[v] \in Copies
        BY <1>7, <2>3, <3>2
      <4>2. claimed[v].sched \in Schedules /\ claimed[v].next \in Occurrences
        BY <4>1 DEF Copies
      <4>3. /\ claims[claimed[v].sched][claimed[v].next] # NotClaimed
            /\ claimed[v].sched \notin overtaken =>
                 starts[claimed[v].sched][claimed[v].next] = 0
        BY <2>3, <4>1 DEF ClaimIsHeld
      <4>4. claims'[claimed[v].sched][claimed[v].next] # NotClaimed
        BY <1>1, <1>5, <4>2, <4>3
      <4> QED
        BY <4>1, <4>3, <4>4
    <3> QED
      BY <3>1, <3>2
  <2>4. ASSUME NEW v \in Workers, NEW u \in Workers, claimed'[v] # NoRow,
               claimed'[u] # NoRow, claimed'[u].sched = claimed'[v].sched,
               claimed'[u].next = claimed'[v].next, claimed'[v].sched \notin overtaken
        PROVE  u = v
    <3>1. CASE v = w \/ u = w
      BY <1>7, <1>13, <2>1, <2>4, <3>1
    <3>2. CASE v # w /\ u # w
      BY <1>7, <2>4, <3>2 DEF ClaimIsHeld
    <3> QED
      BY <3>1, <3>2
  <2> QED
    BY <2>2, <2>3, <2>4 DEF ClaimIsHeld
<1>15. StartsWereClaimed'
  BY <1>1, <1>5 DEF StartsWereClaimed
<1>16. NoBacklog'
  <2> SUFFICES ASSUME NEW r \in Schedules \ overtaken,
                      NEW o1 \in Occurrences, NEW o2 \in Occurrences,
                      o1 < o2, claims'[r][o1] # NotClaimed, claims'[r][o2] # NotClaimed
               PROVE  o2 > claims'[r][o1]
    BY DEF NoBacklog
  <2>0. o1 \in Nat /\ o2 \in Nat
    BY OccurrencesAreTimes
  <2>1. CASE r = s /\ o2 = o
    <3>1. claims'[r][o1] = claims[s][o1] /\ claims[s][o1] < o
      BY <1>1, <1>5, <2>0, <2>1 DEF ClaimsAreBehind
    <3>2. claims[s][o1] \in Nat
      BY <1>1, <2>1, <3>1, ClaimsAreTimes
    <3> QED
      BY <1>1, <2>1, <3>1, <3>2
  <2>2. CASE r = s /\ o1 = o
    <3>1. claims[s][o2] # NotClaimed
      BY <1>1, <1>5, <2>0, <2>2
    <3>2. o2 <= claims[s][o2] /\ claims[s][o2] < o
      BY <1>1, <2>2, <3>1 DEF ClaimsAreBehind
    <3>3. claims[s][o2] \in Nat
      BY <1>1, <3>1, ClaimsAreTimes
    <3> QED
      BY <1>1, <2>0, <2>2, <3>2, <3>3
  <2>3. CASE ~(r = s /\ o1 = o) /\ ~(r = s /\ o2 = o)
    BY <1>5, <2>3 DEF NoBacklog
  <2> QED
    BY <2>1, <2>2, <2>3
<1>17. ClaimedIsVisible'
  <2> DEFINE Held(r, q) == \E v \in Workers : claimed[v] # NoRow /\ claimed[v].sched = r
                                                /\ claimed[v].next = q
  <2> SUFFICES ASSUME NEW r \in Schedules, NEW q \in Occurrences, claims'[r][q] # NotClaimed
               PROVE  <<r, q>> \in visible' \/ Held(r, q)' \/ crashes' > 0
    <3> HIDE DEF SchedulerInv, SchedulerTypeOK
    <3> QED
      BY DEF ClaimedIsVisible
  <2> SUFFICES ASSUME claims'[r][q] # NotClaimed, ~(crashes > 0), <<r, q>> \notin visible
               PROVE  Held(r, q)'
    <3>1. UNCHANGED <<crashes, visible>>
      OBVIOUS
    <3> HIDE DEF Held
    <3> QED
      BY <3>1
  <2>1. CASE r = s /\ q = o
    BY <1>4, <1>7, <2>1 DEF s, o
  <2>2. CASE ~(r = s /\ q = o)
    <3>1. claims[r][q] # NotClaimed
      BY <1>5, <2>2
    <3>2. PICK v \in Workers : /\ claimed[v] # NoRow /\ claimed[v].sched = r
                               /\ claimed[v].next = q
      BY <3>1 DEF ClaimedIsVisible
    <3> QED
      BY <1>7, <1>13, <3>2
  <2> QED
    BY <2>1, <2>2
<1> QED
  BY <1>8, <1>9, <1>10, <1>12, <1>14, <1>15, <1>16, <1>17

LEMMA ClaimKeepsInv ==
    ASSUME SchedulerInv, NEW w \in Workers, ClaimOccurrence(w)
    PROVE  SchedulerInv'
<1> USE DEF SchedulerInv, SchedulerTypeOK
<1>1. PICK c \in due[w] :
        /\ due' = [due EXCEPT ![w] = @ \ {c}]
        /\ IF sched[c.sched].next = c.next
           THEN Take(w, c, NextOccurrence[c.cron][clock[w]])
           ELSE UNCHANGED <<sched, claims, claimed, at>>
  BY DEF ClaimOccurrence
<1>2. at[w] = "rows" /\ UNCHANGED <<now, clock, edit, starts, visible, overtaken, edits, crashes>>
  BY DEF ClaimOccurrence
<1>3. CASE sched[c.sched].next = c.next
  BY <1>1, <1>2, <1>3, TakeKeepsInv
<1>4. CASE sched[c.sched].next # c.next
  <2>1. UNCHANGED <<sched, claims, claimed, at>>
    BY <1>1, <1>4
  <2>2. due' \in [Workers -> SUBSET Copies] /\ \A v \in Workers : due'[v] \subseteq due[v]
    BY <1>1
  <2>3. SchedulerTypeOK' /\ DueWasDue'
    BY <1>2, <2>1, <2>2 DEF DueWasDue
  <2>4. \A v \in Workers : (Holding(v)' <=> Holding(v)) /\ clock'[v] <= now
    BY <1>2, <2>1 DEF Holding, ClocksOK
  <2> QED
    BY <1>2, <2>1, <2>3, <2>4, ColumnsKeepInv
<1> QED
  BY <1>3, <1>4

\* The start that follows a claim is the occurrence's only one, and says so.
LEMMA StartKeepsInv ==
    ASSUME SchedulerInv, NEW w \in Workers, StartPlaybook(w)
    PROVE  SchedulerInv'
<1> USE DEF SchedulerInv, SchedulerTypeOK
<1> DEFINE s == claimed[w].sched
           o == claimed[w].next
<1>1. /\ at[w] = "start" /\ Start(claimed[w])
      /\ visible' = visible \union {<<s, o>>}
      /\ claimed' = [claimed EXCEPT ![w] = NoRow]
      /\ at' = [at EXCEPT ![w] = "rows"]
      /\ UNCHANGED <<sched, now, clock, due, edit, claims, overtaken, edits, crashes>>
  BY DEF StartPlaybook, Goto
<1>2. claimed[w] \in Copies /\ claimed[w] # NoRow
  BY <1>1 DEF ClaimIsHeld, Holding
<1>3. /\ s \in Schedules /\ o \in Occurrences /\ claims[s][o] # NotClaimed
      /\ starts[s][o] \in Nat /\ (s \notin overtaken => starts[s][o] = 0)
  BY <1>2 DEF Copies, ClaimIsHeld
<1>4. /\ starts' \in [Schedules -> [Occurrences -> Nat]]
      /\ s \notin overtaken => starts'[s][o] \in {0, 1}
      /\ \A r \in Schedules : \A q \in Occurrences :
            ~(r = s /\ q = o) => starts'[r][q] = starts[r][q]
  <2>1. CASE starts' = [starts EXCEPT ![s][o] = @ + 1]
    BY <1>3, <2>1, OneMore
  <2>2. CASE starts' = starts
    BY <1>3, <2>2
  <2> QED
    BY <1>1, <2>1, <2>2 DEF Start
<1>5. /\ claimed' \in [Workers -> Copies \union {NoRow}] /\ claimed'[w] = NoRow
      /\ \A v \in Workers \ {w} : claimed'[v] = claimed[v]
      /\ \A v \in Workers : Holding(v)' <=> (v # w /\ Holding(v))
  BY <1>1 DEF Holding
<1>6. s \notin overtaken => \A v \in Workers \ {w} : claimed[v] # NoRow =>
          ~(claimed[v].sched = s /\ claimed[v].next = o)
  BY <1>2 DEF ClaimIsHeld
<1> HIDE DEF s, o
<1>7. SchedulerTypeOK'
  BY <1>1, <1>3, <1>4, <1>5
<1>8. ClocksOK' /\ DueWasDue' /\ ClaimsAreBehind' /\ NoBacklog'
  BY <1>1 DEF ClocksOK, DueWasDue, ClaimsAreBehind, NoBacklog
<1>9. ClaimIsHeld'
  <2>1. ASSUME NEW v \in Workers
        PROVE  Holding(v)' <=> claimed'[v] # NoRow
    BY <1>5 DEF ClaimIsHeld
  <2>2. ASSUME NEW v \in Workers, claimed'[v] # NoRow
        PROVE  /\ claims[claimed'[v].sched][claimed'[v].next] # NotClaimed
               /\ claimed'[v].sched \notin overtaken =>
                    starts'[claimed'[v].sched][claimed'[v].next] = 0
    <3>1. v # w /\ claimed'[v] = claimed[v] /\ claimed[v] \in Copies
      BY <1>5, <2>2
    <3>2. claimed[v].sched \in Schedules /\ claimed[v].next \in Occurrences
      BY <3>1 DEF Copies
    <3>3. /\ claims[claimed[v].sched][claimed[v].next] # NotClaimed
          /\ claimed[v].sched \notin overtaken =>
               starts[claimed[v].sched][claimed[v].next] = 0
      BY <2>2, <3>1 DEF ClaimIsHeld
    <3>4. CASE claimed[v].sched = s /\ claimed[v].next = o
      BY <1>6, <2>2, <3>1, <3>3, <3>4
    <3>5. CASE ~(claimed[v].sched = s /\ claimed[v].next = o)
      BY <1>4, <3>1, <3>2, <3>3, <3>5
    <3> QED
      BY <3>4, <3>5
  <2>3. ASSUME NEW v \in Workers, NEW u \in Workers, claimed'[v] # NoRow,
               claimed'[u] # NoRow, claimed'[u].sched = claimed'[v].sched,
               claimed'[u].next = claimed'[v].next, claimed'[v].sched \notin overtaken
        PROVE  u = v
    BY <1>5, <2>3 DEF ClaimIsHeld
  <2> QED
    BY <1>1, <2>1, <2>2, <2>3 DEF ClaimIsHeld
<1>10. StartsWereClaimed'
  <2> SUFFICES ASSUME NEW r \in Schedules, NEW q \in Occurrences
               PROVE  /\ r \notin overtaken => starts'[r][q] <= 1
                      /\ claims[r][q] = NotClaimed => starts'[r][q] = 0
    BY <1>1 DEF StartsWereClaimed
  <2>1. CASE r = s /\ q = o
    BY <1>3, <1>4, <2>1
  <2>2. CASE ~(r = s /\ q = o)
    BY <1>4, <2>2 DEF StartsWereClaimed
  <2> QED
    BY <2>1, <2>2
<1>11. ClaimedIsVisible'
  <2> DEFINE Held(r, q) == \E v \in Workers : claimed[v] # NoRow /\ claimed[v].sched = r
                                                /\ claimed[v].next = q
  <2> SUFFICES ASSUME NEW r \in Schedules, NEW q \in Occurrences, claims'[r][q] # NotClaimed
               PROVE  <<r, q>> \in visible' \/ Held(r, q)' \/ crashes' > 0
    <3> HIDE DEF SchedulerInv, SchedulerTypeOK
    <3> QED
      BY DEF ClaimedIsVisible
  <2> SUFFICES ASSUME claims[r][q] # NotClaimed, ~(crashes > 0), <<r, q>> \notin visible'
               PROVE  Held(r, q)'
    <3>1. UNCHANGED <<claims, crashes>>
      BY <1>1
    <3> HIDE DEF Held
    <3> QED
      BY <3>1
  <2>1. <<r, q>> \notin visible /\ ~(r = s /\ q = o)
    BY <1>1
  <2>2. PICK v \in Workers : /\ claimed[v] # NoRow /\ claimed[v].sched = r
                             /\ claimed[v].next = q
    BY <2>1 DEF ClaimedIsVisible
  <2>3. v # w
    BY <2>1, <2>2 DEF s, o
  <2> QED
    BY <1>5, <2>2, <2>3
<1> QED
  BY <1>7, <1>8, <1>9, <1>10, <1>11

\* A death leaves what was claimed claimed, and counts.
LEMMA SchedulerCrashKeepsInv ==
    ASSUME SchedulerInv, NEW w \in Workers, SchedulerCrash(w)
    PROVE  SchedulerInv'
<1> USE DEF SchedulerInv, SchedulerTypeOK
<1>1. /\ crashes < MaxCrashes /\ crashes' = crashes + 1
      /\ at' = [at EXCEPT ![w] = "idle"]
      /\ due' = [due EXCEPT ![w] = {}]
      /\ claimed' = [claimed EXCEPT ![w] = NoRow]
      /\ UNCHANGED <<sched, now, clock, edit, claims, starts, visible, overtaken, edits>>
  BY DEF SchedulerCrash, Dies, Goto, occurred
<1>2. crashes' \in 0..MaxCrashes /\ crashes' > 0
  BY <1>1, PoolAssumption
<1>3. /\ claimed' \in [Workers -> Copies \union {NoRow}] /\ claimed'[w] = NoRow
      /\ \A v \in Workers \ {w} : claimed'[v] = claimed[v]
      /\ \A v \in Workers : Holding(v)' <=> (v # w /\ Holding(v))
      /\ due' \in [Workers -> SUBSET Copies] /\ \A v \in Workers : due'[v] \subseteq due[v]
  BY <1>1 DEF Holding
<1>4. SchedulerTypeOK'
  BY <1>1, <1>2, <1>3
<1>5. ClocksOK' /\ DueWasDue' /\ ClaimsAreBehind' /\ StartsWereClaimed' /\ NoBacklog'
  BY <1>1, <1>3 DEF ClocksOK, DueWasDue, ClaimsAreBehind, StartsWereClaimed, NoBacklog
<1>6. ClaimIsHeld'
  BY <1>1, <1>3 DEF ClaimIsHeld
<1>7. ClaimedIsVisible'
  BY <1>2 DEF ClaimedIsVisible
<1> QED
  BY <1>4, <1>5, <1>6, <1>7

-----------------------------------------------------------------------------
\* Operators' steps.  What a pass holds is no part of them.
LEMMA EditKeepsInv ==
    ASSUME SchedulerInv, NEW s \in Schedules, NEW c \in Crons, ComputeEdit(s, c)
    PROVE  SchedulerInv'
<1> USE DEF SchedulerInv, SchedulerTypeOK
<1>1. /\ edits < MaxEdits /\ edits' = edits + 1
      /\ edit' = [sched |-> s, cron |-> c, next |-> NextOccurrence[c][now]]
      /\ UNCHANGED <<sched, now, at, clock, due, claimed, claims, starts, visible,
                     overtaken, crashes>>
  BY DEF ComputeEdit, passVars, occurred
<1>2. edits' \in 0..MaxEdits
  BY <1>1, SchedulerAssumption
<1>3. ClocksOK'
  BY <1>1, OccurrencesAreTimes DEF ClocksOK, Edits
<1>4. SchedulerTypeOK' /\ DueWasDue' /\ ClaimsAreBehind'
  BY <1>1, <1>2 DEF DueWasDue, ClaimsAreBehind
<1>5. ClaimIsHeld' /\ StartsWereClaimed' /\ NoBacklog' /\ ClaimedIsVisible'
  BY <1>1 DEF ClaimIsHeld, Holding, StartsWereClaimed, NoBacklog, ClaimedIsVisible
<1> QED
  BY <1>3, <1>4, <1>5

\* An edit written in time puts the row's next occurrence after now, and so
\* after every claim; of a schedule it overtakes nothing is said any more.
LEMMA WriteEditKeepsInv ==
    ASSUME SchedulerInv, WriteEdit
    PROVE  SchedulerInv'
<1> USE DEF SchedulerInv, SchedulerTypeOK
<1> DEFINE s == edit.sched
           r1 == [cron |-> edit.cron, next |-> edit.next, valid |-> TRUE,
                  enabled |-> IF sched[s] = NoRow THEN TRUE ELSE sched[s].enabled]
<1>1. edit # NoRow /\ edit \in Edits
  BY DEF WriteEdit, ClocksOK
<1>2. s \in Schedules /\ edit.next \in Occurrences /\ edit.next \in Nat /\ now \in Nat
  BY <1>1, OccurrencesAreTimes DEF Edits
<1>3. r1 \in Rows /\ r1.next = edit.next
  BY <1>1, <1>2 DEF Rows, Edits
<1>4. r1 # NoRow
  BY <1>3, NoRowAssumption
<1>5. /\ sched' = [sched EXCEPT ![s] = r1] /\ edit' = NoRow
      /\ overtaken' = IF edit.next <= now THEN overtaken \union {s} ELSE overtaken
      /\ UNCHANGED <<now, at, clock, due, claimed, claims, starts, visible, edits,
                     crashes>>
  BY <1>2 DEF WriteEdit, passVars
<1> HIDE DEF s, r1
<1>6. /\ sched' \in [Schedules -> Rows \union {NoRow}]
      /\ sched'[s] = r1 /\ \A r \in Schedules \ {s} : sched'[r] = sched[r]
  BY <1>2, <1>3, <1>5
<1>6a. overtaken' \subseteq Schedules /\ overtaken \subseteq overtaken'
  BY <1>2, <1>5
<1>7. SchedulerTypeOK' /\ ClocksOK'
  BY <1>5, <1>6, <1>6a DEF ClocksOK
<1>8. DueWasDue'
  <2> SUFFICES ASSUME NEW v \in Workers, NEW d \in due[v]
               PROVE  sched'[d.sched] # NoRow /\ d.next <= clock[v]
    BY <1>5 DEF DueWasDue
  <2>1. d.sched \in Schedules
    BY DEF Copies
  <2> QED
    BY <1>4, <1>6, <2>1 DEF DueWasDue
<1>9. ClaimsAreBehind'
  <2> SUFFICES ASSUME NEW r \in Schedules, NEW q \in Occurrences,
                      claims[r][q] # NotClaimed
               PROVE  /\ sched'[r] # NoRow
                      /\ r \notin overtaken' => claims[r][q] < sched'[r].next
                      /\ q <= claims[r][q] /\ claims[r][q] <= now
    BY <1>5 DEF ClaimsAreBehind
  <2>1. claims[r][q] \in Nat /\ q <= claims[r][q] /\ claims[r][q] <= now
    BY ClaimsAreTimes DEF ClaimsAreBehind
  <2>2. CASE r = s
    <3>1. r \notin overtaken' => edit.next > now
      BY <1>2, <1>5, <2>2
    <3> QED
      BY <1>2, <1>3, <1>4, <1>6, <2>1, <2>2, <3>1
  <2>3. CASE r # s
    BY <1>6, <1>6a, <2>3 DEF ClaimsAreBehind
  <2> QED
    BY <2>1, <2>2, <2>3
<1>10. ClaimIsHeld' /\ StartsWereClaimed' /\ NoBacklog' /\ ClaimedIsVisible'
  BY <1>5, <1>6a DEF ClaimIsHeld, Holding, StartsWereClaimed, NoBacklog, ClaimedIsVisible
<1> QED
  BY <1>7, <1>8, <1>9, <1>10

\* An operator enables or disables a schedule, or its expression stops
\* evaluating: one column.
LEMMA ColumnKeepsInv ==
    ASSUME SchedulerInv, NEW s \in Schedules,
           \/ \E b \in BOOLEAN : SetScheduleEnabled(s, b)
           \/ StopsEvaluating(s)
    PROVE  SchedulerInv'
<1> USE DEF SchedulerInv, SchedulerTypeOK
<1>1. /\ edits < MaxEdits /\ edits' = edits + 1 /\ sched[s] # NoRow
      /\ UNCHANGED <<now, at, clock, due, claimed, edit, claims, starts, visible,
                     overtaken, crashes>>
      /\ \/ \E b \in BOOLEAN : sched' = [sched EXCEPT ![s].enabled = b]
         \/ sched' = [sched EXCEPT ![s].valid = FALSE]
  BY DEF SetScheduleEnabled, StopsEvaluating, passVars, occurred, Exists
<1>2. sched[s] \in Rows /\ Occurrences # {}
  BY <1>1 DEF Rows
<1>3. PICK r1 \in Rows : /\ sched' = [sched EXCEPT ![s] = r1] /\ r1 # NoRow
                         /\ r1.next = sched[s].next
  <2>1. ASSUME NEW b \in BOOLEAN, sched' = [sched EXCEPT ![s].enabled = b]
        PROVE  \E r \in Rows : /\ sched' = [sched EXCEPT ![s] = r] /\ r # NoRow
                               /\ r.next = sched[s].next
    <3>1. /\ [sched[s] EXCEPT !.enabled = b] \in Rows
          /\ [sched[s] EXCEPT !.enabled = b].next = sched[s].next
          /\ [sched[s] EXCEPT !.enabled = b] # NoRow
      BY <1>2, RowsStay
    <3>2. sched' = [sched EXCEPT ![s] = [sched[s] EXCEPT !.enabled = b]]
      BY <2>1
    <3> QED
      BY <3>1, <3>2
  <2>2. ASSUME sched' = [sched EXCEPT ![s].valid = FALSE]
        PROVE  \E r \in Rows : /\ sched' = [sched EXCEPT ![s] = r] /\ r # NoRow
                               /\ r.next = sched[s].next
    <3>1. /\ [sched[s] EXCEPT !.valid = FALSE] \in Rows
          /\ [sched[s] EXCEPT !.valid = FALSE].next = sched[s].next
          /\ [sched[s] EXCEPT !.valid = FALSE] # NoRow
      BY <1>2, RowsStay
    <3>2. sched' = [sched EXCEPT ![s] = [sched[s] EXCEPT !.valid = FALSE]]
      BY <2>2
    <3> QED
      BY <3>1, <3>2
  <2> QED
    BY <1>1, <2>1, <2>2
<1>4. /\ sched' \in [Schedules -> Rows \union {NoRow}]
      /\ \A r \in Schedules : sched[r] # NoRow =>
            sched'[r] # NoRow /\ sched'[r].next = sched[r].next
  BY <1>1, <1>3
<1>5. edits' \in 0..MaxEdits
  BY <1>1, SchedulerAssumption
<1>6. SchedulerTypeOK'
  BY <1>1, <1>4, <1>5
<1>7. DueWasDue'
  <2> SUFFICES ASSUME NEW v \in Workers, NEW d \in due[v]
               PROVE  sched'[d.sched] # NoRow /\ d.next <= clock[v]
    BY <1>1 DEF DueWasDue
  <2>1. d.sched \in Schedules
    BY DEF Copies
  <2> QED
    BY <1>4, <2>1 DEF DueWasDue
<1>8. \A v \in Workers : (Holding(v)' <=> Holding(v)) /\ clock'[v] <= now
  BY <1>1 DEF Holding, ClocksOK
<1> QED
  BY <1>1, <1>4, <1>6, <1>7, <1>8, ColumnsKeepInv

LEMMA TimeKeepsInv ==
    ASSUME SchedulerInv, TimePasses
    PROVE  SchedulerInv'
<1> USE DEF SchedulerInv, SchedulerTypeOK
<1>1. /\ now < MaxTime /\ now' = now + 1
      /\ UNCHANGED <<sched, at, clock, due, claimed, edit, claims, starts, visible,
                     overtaken, edits, crashes>>
  BY DEF TimePasses, passVars, occurred
<1>2. now' \in Times /\ now \in Nat /\ now < now'
  BY <1>1, SchedulerAssumption DEF Times
<1>3. SchedulerTypeOK'
  BY <1>1, <1>2
<1>4. ClocksOK'
  <2>1. \A v \in Workers : clock[v] \in Nat /\ clock[v] <= now
    BY OccurrencesAreTimes DEF ClocksOK
  <2> QED
    BY <1>1, <1>2, <2>1 DEF ClocksOK
<1>5. ClaimsAreBehind'
  <2> SUFFICES ASSUME NEW r \in Schedules, NEW q \in Occurrences,
                      claims[r][q] # NotClaimed
               PROVE  /\ sched[r] # NoRow
                      /\ r \notin overtaken => claims[r][q] < sched[r].next
                      /\ q <= claims[r][q] /\ claims[r][q] <= now'
    BY <1>1 DEF ClaimsAreBehind
  <2> QED
    BY <1>2, ClaimsAreTimes DEF ClaimsAreBehind
<1>6. DueWasDue' /\ ClaimIsHeld' /\ StartsWereClaimed' /\ NoBacklog' /\ ClaimedIsVisible'
  BY <1>1 DEF DueWasDue, ClaimIsHeld, Holding, StartsWereClaimed, NoBacklog, ClaimedIsVisible
<1> QED
  BY <1>3, <1>4, <1>5, <1>6

LEMMA SchedulerStutter ==
    ASSUME SchedulerInv, UNCHANGED schedulerVars
    PROVE  SchedulerInv'
<1>1. UNCHANGED <<sched, now, clock, due, claimed, edit, claims, starts, visible,
                  overtaken, edits, at, crashes>>
  BY DEF schedulerVars, schedulerState, occurred
<1>2. SchedulerTypeOK'
  BY <1>1 DEF SchedulerInv, SchedulerTypeOK
<1>3. ClocksOK' /\ DueWasDue' /\ ClaimsAreBehind'
  BY <1>1 DEF SchedulerInv, ClocksOK, DueWasDue, ClaimsAreBehind
<1>4. ClaimIsHeld' /\ StartsWereClaimed'
  BY <1>1 DEF SchedulerInv, ClaimIsHeld, Holding, StartsWereClaimed
<1>5. NoBacklog' /\ ClaimedIsVisible'
  BY <1>1 DEF SchedulerInv, NoBacklog, ClaimedIsVisible
<1> QED
  BY <1>2, <1>3, <1>4, <1>5 DEF SchedulerInv

LEMMA SchedulerNextInv ==
    ASSUME SchedulerInv, [SchedulerNext]_schedulerVars
    PROVE  SchedulerInv'
<1>1. ASSUME NEW w \in Workers, SchedulerStep(w) \/ SchedulerCrash(w)
      PROVE  SchedulerInv'
  BY <1>1, ReadDueKeepsInv, DisableKeepsInv, ClaimKeepsInv, ReportKeepsInv,
     StartKeepsInv, EndPassKeepsInv, SchedulerCrashKeepsInv DEF SchedulerStep
<1>2. ASSUME NEW s \in Schedules, NEW c \in Crons, ComputeEdit(s, c)
      PROVE  SchedulerInv'
  BY <1>2, EditKeepsInv
<1>3. ASSUME NEW s \in Schedules,
             (\E b \in BOOLEAN : SetScheduleEnabled(s, b)) \/ StopsEvaluating(s)
      PROVE  SchedulerInv'
  BY <1>3, ColumnKeepsInv
<1>4. CASE WriteEdit \/ TimePasses
  BY <1>4, WriteEditKeepsInv, TimeKeepsInv
<1>5. CASE UNCHANGED schedulerVars
  BY <1>5, SchedulerStutter
<1> QED
  BY <1>1, <1>2, <1>3, <1>4, <1>5 DEF SchedulerNext

\* The catch-up policy's promise: of every claimed occurrence there is a word,
\* or one on its way, or a death; and an occurrence starts once, with no backlog
\* behind it, on every schedule but those an edit was written to too late.
THEOREM ScheduleIsAccounted ==
    SchedulerSafetySpec => [](ClaimedIsVisible /\ OccurrenceFiresOnce /\ NoBacklog)
<1>1. SchedulerInv => ClaimedIsVisible /\ OccurrenceFiresOnce /\ NoBacklog
  BY DEF SchedulerInv, StartsWereClaimed, OccurrenceFiresOnce
<1>2. SchedulerInv /\ [SchedulerNext]_schedulerVars => SchedulerInv'
  BY SchedulerNextInv
<1> QED
  BY SchedulerInitInv, <1>1, <1>2, PTL DEF SchedulerSafetySpec

-----------------------------------------------------------------------------
(***************************************************************************)
(* The sweeps.                                                             *)
(***************************************************************************)
LEMMA SweepInitInv == SweepInit => SweepInv
<1> SUFFICES ASSUME SweepInit PROVE SweepInv
  OBVIOUS
<1> USE SweepAssumption DEF SweepInit, PoolInit
<1>1. SweepTypeOK /\ SweepLocalsOK /\ OneCopyEach
  BY DEF SweepTypeOK, SweepLocalsOK, OneCopyEach
<1>2. MarkedFirst /\ RemindersAreCurrent /\ SentIsCapped
  BY DEF MarkedFirst, RemindersAreCurrent, SentIsCapped, CapOf
<1>3. ChasesAreCounted
  <2>1. \A t \in Tasks : Recording(t) = {}
    BY DEF Recording
  <2>2. \A t \in Tasks : Cardinality(Recording(t)) = 0
    BY <2>1, FS_EmptySet
  <2> QED
    BY <2>2 DEF ChasesAreCounted
<1> QED
  BY <1>1, <1>2, <1>3 DEF SweepInv

\* A list of rows read: one copy of each, as the row is.
LEMMA CopiesOfRows ==
    ASSUME SweepInv, NEW U \in SUBSET Tasks
    PROVE  LET C == {SweepCopy(t) : t \in U}
           IN  /\ C \subseteq SweepCopies
               /\ \A c \in C : c.task \in U /\ c.sent = sent[c.task]
               /\ \A c, d \in C : c.task = d.task => c = d
BY DEF SweepInv, SweepTypeOK, SweepCopy, SweepCopies

LEMMA RecordersAreFew ==
    ASSUME NEW t
    PROVE  /\ IsFiniteSet(Recording(t)) /\ Cardinality(Recording(t)) \in Nat
           /\ Recording(t) \subseteq Workers
<1>1. Recording(t) \subseteq Workers
  BY DEF Recording
<1> QED
  BY <1>1, PoolAssumption, FS_Subset, FS_CardinalityType

LEMMA OneOut ==
    ASSUME NEW S, NEW x, IsFiniteSet(S)
    PROVE  /\ Cardinality(S \ {x}) \in Nat /\ Cardinality(S) <= Cardinality(S \ {x}) + 1
           /\ x \in S => Cardinality(S \ {x}) = Cardinality(S) - 1
<1>1. Cardinality(S) \in Nat /\ Cardinality(S \ {x}) \in Nat
  BY FS_RemoveElement, FS_CardinalityType
<1>2. Cardinality(S \ {x}) = IF x \in S THEN Cardinality(S) - 1 ELSE Cardinality(S)
  BY FS_RemoveElement
<1> DEFINE m == Cardinality(S)
           n == Cardinality(S \ {x})
<1> HIDE DEF m, n
<1>3. m \in Nat /\ n \in Nat /\ n = IF x \in S THEN m - 1 ELSE m
  BY <1>1, <1>2 DEF m, n
<1>4. n \in Nat /\ m <= n + 1 /\ (x \in S => n = m - 1)
  BY <1>3
<1> QED
  BY <1>4 DEF m, n

\* Steps that leave the counts alone and take nobody from a record in hand.
LEMMA CountsStand ==
    ASSUME SweepInv, UNCHANGED <<sent, chases, crashes>>,
           \A t \in Tasks : Recording(t)' = Recording(t)
    PROVE  ChasesAreCounted'
BY DEF SweepInv, ChasesAreCounted

LEMMA ReadBreachesKeepsInv ==
    ASSUME SweepInv, NEW w \in Workers, ReadBreaches(w)
    PROVE  SweepInv'
<1> DEFINE U == {u \in Tasks : waiting[u] /\ overdue[u] /\ ~escalated[u]}
           C == {SweepCopy(t) : t \in U}
<1>1. /\ C \subseteq SweepCopies
      /\ \A c \in C : c.task \in Tasks /\ ~escalated[c.task]
      /\ \A c, d \in C : c.task = d.task => c = d
  BY CopiesOfRows
<1>2. /\ at[w] = "idle" /\ at' = [at EXCEPT ![w] = "escalate"]
      /\ todo' = [todo EXCEPT ![w] = C]
      /\ UNCHANGED <<waiting, overdue, escalated, remind, sent, declares, current, alerts,
                     chases, stale, crashes>>
  BY DEF ReadBreaches, Goto, taskVars
<1> HIDE DEF U, C
<1> USE DEF SweepInv, SweepTypeOK, SweepLocalsOK
<1>4. /\ at' \in [Workers -> {"idle", "escalate", "alert", "remind", "mark"}]
      /\ at'[w] = "escalate" /\ \A v \in Workers \ {w} : at'[v] = at[v]
      /\ todo' \in [Workers -> SUBSET SweepCopies]
      /\ todo'[w] = C /\ \A v \in Workers \ {w} : todo'[v] = todo[v]
  BY <1>1, <1>2
<1>5. SweepTypeOK' /\ SweepLocalsOK'
  BY <1>2, <1>4 DEF SweepCopies
<1>6. OneCopyEach'
  BY <1>1, <1>4 DEF OneCopyEach
<1>7. MarkedFirst'
  <2>1. \A c \in C : alerts[w][c.task] = 0
    BY <1>1 DEF MarkedFirst
  <2> QED
    BY <1>2, <1>4, <2>1 DEF MarkedFirst
<1>8. RemindersAreCurrent' /\ SentIsCapped'
  BY <1>2, <1>4 DEF RemindersAreCurrent, SentIsCapped, Current, CapOf
<1>9. ChasesAreCounted'
  BY <1>2, <1>4, CountsStand DEF Recording
<1> QED
  BY <1>5, <1>6, <1>7, <1>8, <1>9

LEMMA MarkEscalatedKeepsInv ==
    ASSUME SweepInv, NEW w \in Workers, MarkEscalated(w)
    PROVE  SweepInv'
<1> USE DEF SweepInv, SweepTypeOK, SweepLocalsOK
<1>1. PICK c \in todo[w] : /\ escalated' = [escalated EXCEPT ![c.task] = TRUE]
                           /\ current' = [current EXCEPT ![w] = c]
                           /\ todo' = [todo EXCEPT ![w] = @ \ {c}]
  BY DEF MarkEscalated
<1>2. /\ at[w] = "escalate" /\ at' = [at EXCEPT ![w] = "alert"]
      /\ UNCHANGED <<waiting, overdue, remind, sent, declares, alerts, chases, stale,
                     crashes>>
  BY DEF MarkEscalated, Goto
<1>4. /\ c \in SweepCopies /\ c.task \in Tasks /\ alerts[w][c.task] = 0
      /\ \A d \in todo[w] \ {c} : d.task # c.task /\ alerts[w][d.task] = 0
  BY <1>2 DEF SweepCopies, MarkedFirst, OneCopyEach
<1>5. /\ at' \in [Workers -> {"idle", "escalate", "alert", "remind", "mark"}]
      /\ at'[w] = "alert" /\ \A v \in Workers \ {w} : at'[v] = at[v]
      /\ todo' \in [Workers -> SUBSET SweepCopies]
      /\ todo'[w] = todo[w] \ {c} /\ \A v \in Workers \ {w} : todo'[v] = todo[v]
      /\ current' \in [Workers -> SweepCopies \union {NoCopy}] /\ current'[w] = c
      /\ \A v \in Workers \ {w} : current'[v] = current[v]
      /\ escalated' \in [Tasks -> BOOLEAN] /\ escalated'[c.task]
      /\ \A t \in Tasks : t # c.task => escalated'[t] = escalated[t]
  BY <1>1, <1>2, <1>4
<1>6. SweepTypeOK' /\ SweepLocalsOK'
  BY <1>2, <1>5 DEF SweepCopies
<1>7. OneCopyEach'
  BY <1>5 DEF OneCopyEach
<1>8. MarkedFirst'
  <2>1. ASSUME NEW v \in Workers, NEW t \in Tasks
        PROVE  alerts[v][t] <= 1 /\ (~escalated'[t] => alerts[v][t] = 0)
    BY <1>5 DEF MarkedFirst
  <2>2. ASSUME NEW v \in Workers
        PROVE  /\ at'[v] \in {"escalate", "alert"} =>
                     \A d \in todo'[v] : alerts[v][d.task] = 0
               /\ at'[v] = "alert" =>
                     /\ current'[v] \in SweepCopies
                     /\ escalated'[current'[v].task] /\ alerts[v][current'[v].task] = 0
                     /\ \A d \in todo'[v] : d.task # current'[v].task
    <3>1. CASE v = w
      BY <1>4, <1>5, <3>1
    <3>2. CASE v # w
      BY <1>5, <3>2 DEF MarkedFirst, SweepCopies
    <3> QED
      BY <3>1, <3>2
  <2> QED
    BY <1>2, <2>1, <2>2 DEF MarkedFirst
<1>9. RemindersAreCurrent' /\ SentIsCapped'
  BY <1>2, <1>5 DEF RemindersAreCurrent, SentIsCapped, Current, CapOf
<1>10. ChasesAreCounted'
  BY <1>2, <1>5, CountsStand DEF Recording
<1> QED
  BY <1>6, <1>7, <1>8, <1>9, <1>10

LEMMA RaiseAlertKeepsInv ==
    ASSUME SweepInv, NEW w \in Workers, RaiseAlert(w)
    PROVE  SweepInv'
<1> USE DEF SweepInv, SweepTypeOK, SweepLocalsOK
<1> DEFINE t == current[w].task
<1>1. /\ at[w] = "alert" /\ at' = [at EXCEPT ![w] = "escalate"]
      /\ alerts' = [alerts EXCEPT ![w][t] = @ + 1]
      /\ current' = [current EXCEPT ![w] = NoCopy]
      /\ UNCHANGED <<waiting, overdue, escalated, remind, sent, declares, todo, chases,
                     stale, crashes>>
  BY DEF RaiseAlert, Goto, taskVars
<1>3. /\ t \in Tasks /\ escalated[t] /\ alerts[w][t] = 0
      /\ \A c \in todo[w] : c.task # t /\ c.task \in Tasks
  BY <1>1 DEF MarkedFirst, SweepCopies
<1> HIDE DEF t
<1>4. /\ alerts' \in [Workers -> [Tasks -> Nat]] /\ alerts'[w][t] = 1
      /\ \A v \in Workers : \A u \in Tasks :
            ~(v = w /\ u = t) => alerts'[v][u] = alerts[v][u]
  BY <1>1, <1>3, OneMore
<1>5. /\ at' \in [Workers -> {"idle", "escalate", "alert", "remind", "mark"}]
      /\ at'[w] = "escalate" /\ \A v \in Workers \ {w} : at'[v] = at[v]
      /\ current' \in [Workers -> SweepCopies \union {NoCopy}]
      /\ \A v \in Workers \ {w} : current'[v] = current[v]
  BY <1>1
<1>6. SweepTypeOK' /\ SweepLocalsOK' /\ OneCopyEach'
  BY <1>1, <1>4, <1>5 DEF OneCopyEach
<1>7. MarkedFirst'
  <2>1. ASSUME NEW v \in Workers, NEW u \in Tasks
        PROVE  alerts'[v][u] <= 1 /\ (~escalated[u] => alerts'[v][u] = 0)
    BY <1>3, <1>4 DEF MarkedFirst
  <2>2. ASSUME NEW v \in Workers
        PROVE  /\ at'[v] \in {"escalate", "alert"} =>
                     \A d \in todo[v] : alerts'[v][d.task] = 0
               /\ at'[v] = "alert" =>
                     /\ current'[v] \in SweepCopies
                     /\ escalated[current'[v].task] /\ alerts'[v][current'[v].task] = 0
                     /\ \A d \in todo[v] : d.task # current'[v].task
    <3>1. CASE v = w
      BY <1>1, <1>3, <1>4, <1>5, <3>1 DEF MarkedFirst
    <3>2. CASE v # w
      BY <1>4, <1>5, <3>2 DEF MarkedFirst, SweepCopies
    <3> QED
      BY <3>1, <3>2
  <2> QED
    BY <1>1, <2>1, <2>2 DEF MarkedFirst
<1>8. RemindersAreCurrent' /\ SentIsCapped'
  BY <1>1, <1>5 DEF RemindersAreCurrent, SentIsCapped, Current, CapOf
<1>9. ChasesAreCounted'
  BY <1>1, <1>5, CountsStand DEF Recording
<1> QED
  BY <1>6, <1>7, <1>8, <1>9

LEMMA ReadRemindersKeepsInv ==
    ASSUME SweepInv, NEW w \in Workers, ReadReminders(w)
    PROVE  SweepInv'
<1> DEFINE U == {u \in Tasks : waiting[u] /\ remind[u] = "due"}
           C == {SweepCopy(t) : t \in U}
<1>1. /\ C \subseteq SweepCopies
      /\ \A c \in C : /\ c.task \in Tasks /\ remind[c.task] = "due"
                      /\ c.sent = sent[c.task]
      /\ \A c, d \in C : c.task = d.task => c = d
  BY CopiesOfRows
<1>2. /\ at[w] = "escalate" /\ at' = [at EXCEPT ![w] = "remind"]
      /\ todo' = [todo EXCEPT ![w] = C]
      /\ UNCHANGED <<waiting, overdue, escalated, remind, sent, declares, current, alerts,
                     chases, stale, crashes>>
  BY DEF ReadReminders, Goto, taskVars
<1> HIDE DEF U, C
<1> USE DEF SweepInv, SweepTypeOK, SweepLocalsOK
<1>4. /\ at' \in [Workers -> {"idle", "escalate", "alert", "remind", "mark"}]
      /\ at'[w] = "remind" /\ \A v \in Workers \ {w} : at'[v] = at[v]
      /\ todo' \in [Workers -> SUBSET SweepCopies]
      /\ todo'[w] = C /\ \A v \in Workers \ {w} : todo'[v] = todo[v]
  BY <1>1, <1>2
<1>5. SweepTypeOK' /\ SweepLocalsOK'
  BY <1>2, <1>4 DEF SweepCopies
<1>6. OneCopyEach'
  BY <1>1, <1>4 DEF OneCopyEach
<1>7. MarkedFirst' /\ SentIsCapped'
  BY <1>2, <1>4 DEF MarkedFirst, SentIsCapped, CapOf
<1>8. RemindersAreCurrent'
  <2>1. \A c \in C : Current(c)
    BY <1>1 DEF Current
  <2> QED
    BY <1>2, <1>4, <2>1 DEF RemindersAreCurrent, Current
<1>9. ChasesAreCounted'
  BY <1>2, <1>4, CountsStand DEF Recording
<1> QED
  BY <1>5, <1>6, <1>7, <1>8, <1>9

\* markReminded, of what a sweep had read: one more sent.  On a count that
\* still stands the schedule goes on only under the cap; on an outdated one
\* the cap moves by two.  No copy that others hold becomes wrong by it.
LEMMA MarkRemindedKeepsCap ==
    ASSUME SweepInv, NEW c \in SweepCopies, Current(c),
           NEW next \in {"none", "scheduled"},
           next # "none" => c.sent + 1 < MaxReminders, MarkReminded(c, next)
    PROVE  /\ remind' \in [Tasks -> {"none", "scheduled", "due"}]
           /\ sent' \in [Tasks -> Nat] /\ stale' \in [Tasks -> Nat]
           /\ sent'[c.task] = sent[c.task] + 1
           /\ \A u \in Tasks : u # c.task => sent'[u] = sent[u] /\ remind'[u] = remind[u]
           /\ SentIsCapped'
           /\ \A d \in SweepCopies : Current(d) => Current(d)'
<1> DEFINE t == c.task
<1>1. /\ c.sent \in Nat /\ t \in Tasks /\ MaxReminders \in Nat
      /\ sent[t] \in Nat /\ stale[t] \in Nat
      /\ sent \in [Tasks -> Nat] /\ stale \in [Tasks -> Nat]
      /\ remind \in [Tasks -> {"none", "scheduled", "due"}]
  BY SweepAssumption DEF SweepInv, SweepTypeOK, SweepCopies
<1>2. /\ sent' = [sent EXCEPT ![t] = sent[t] + 1]
      /\ remind' = [remind EXCEPT ![t] = next]
      /\ stale' = IF c.sent = sent[t] THEN stale
                  ELSE [stale EXCEPT ![t] = stale[t] + 1]
  BY <1>1 DEF MarkReminded
<1>3. c.sent <= sent[t] /\ (c.sent = sent[t] => remind[t] = "due")
  BY DEF Current
<1>4. /\ sent[t] <= MaxReminders + 2 * stale[t]
      /\ remind[t] # "none" => sent[t] < MaxReminders + 2 * stale[t]
  BY <1>1 DEF SweepInv, SentIsCapped, CapOf
<1>5. \A d \in SweepCopies : d.task \in Tasks /\ d.sent \in Nat
  BY DEF SweepCopies
<1>6. next # "none" => c.sent + 1 < MaxReminders
  OBVIOUS
<1> HIDE DEF t
<1>7. /\ remind' \in [Tasks -> {"none", "scheduled", "due"}] /\ remind'[t] = next
      /\ sent' \in [Tasks -> Nat] /\ sent'[t] = sent[t] + 1 /\ stale' \in [Tasks -> Nat]
      /\ stale'[t] = IF c.sent = sent[t] THEN stale[t] ELSE stale[t] + 1
      /\ \A u \in Tasks : u # t => /\ sent'[u] = sent[u] /\ remind'[u] = remind[u]
                                   /\ stale'[u] = stale[u]
  BY <1>1, <1>2
<1>8. SentIsCapped'
  <2> SUFFICES ASSUME NEW u \in Tasks
               PROVE  /\ sent'[u] <= MaxReminders + 2 * stale'[u]
                      /\ remind'[u] # "none" => sent'[u] < MaxReminders + 2 * stale'[u]
    BY DEF SentIsCapped, CapOf
  <2>1. CASE u = t /\ c.sent = sent[t]
    BY <1>1, <1>3, <1>4, <1>6, <1>7, <2>1
  <2>2. CASE u = t /\ c.sent # sent[t]
    <3>1. sent[t] + 1 < MaxReminders + 2 * (stale[t] + 1)
      BY <1>1, <1>4
    <3> QED
      BY <1>1, <1>7, <2>2, <3>1
  <2>3. CASE u # t
    BY <1>7, <2>3 DEF SweepInv, SentIsCapped, CapOf
  <2> QED
    BY <2>1, <2>2, <2>3
<1>9. ASSUME NEW d \in SweepCopies, Current(d) PROVE Current(d)'
  <2>1. CASE d.task = t
    <3>1. d.sent <= sent[t] /\ d.sent \in Nat
      BY <1>5, <1>9, <2>1 DEF Current
    <3>2. d.sent <= sent'[t] /\ d.sent # sent'[t]
      BY <1>1, <1>7, <3>1
    <3> QED
      BY <2>1, <3>2 DEF Current
  <2>2. CASE d.task # t
    BY <1>5, <1>7, <1>9, <2>2 DEF Current
  <2> QED
    BY <2>1, <2>2
<1> QED
  BY <1>7, <1>8, <1>9 DEF t

LEMMA ClearReminderKeepsInv ==
    ASSUME SweepInv, NEW w \in Workers, ClearReminder(w)
    PROVE  SweepInv'
<1> USE DEF SweepInv, SweepTypeOK, SweepLocalsOK
<1>1. PICK c \in todo[w] : /\ MarkReminded(c, "none")
                           /\ todo' = [todo EXCEPT ![w] = @ \ {c}]
  BY DEF ClearReminder
<1>2. /\ at[w] = "remind"
      /\ UNCHANGED <<waiting, overdue, escalated, declares, at, current, alerts, chases,
                     crashes>>
  BY DEF ClearReminder
<1>3. c \in SweepCopies /\ Current(c) /\ c.task \in Tasks
  BY <1>2 DEF RemindersAreCurrent, SweepCopies
<1>4. /\ remind' \in [Tasks -> {"none", "scheduled", "due"}]
      /\ sent' \in [Tasks -> Nat] /\ stale' \in [Tasks -> Nat]
      /\ sent'[c.task] = sent[c.task] + 1
      /\ \A u \in Tasks : u # c.task => sent'[u] = sent[u] /\ remind'[u] = remind[u]
      /\ SentIsCapped'
      /\ \A d \in SweepCopies : Current(d) => Current(d)'
  BY <1>1, <1>3, MarkRemindedKeepsCap
<1>5. /\ todo' \in [Workers -> SUBSET SweepCopies]
      /\ \A v \in Workers : todo'[v] \subseteq todo[v]
  BY <1>1
<1>6. SweepTypeOK' /\ SweepLocalsOK' /\ OneCopyEach'
  BY <1>2, <1>4, <1>5 DEF SweepCopies, OneCopyEach
<1>7. MarkedFirst'
  BY <1>2, <1>5 DEF MarkedFirst
<1>8. RemindersAreCurrent'
  <2> SUFFICES ASSUME NEW v \in Workers
               PROVE  /\ at[v] \in {"remind", "mark"} => \A d \in todo'[v] : Current(d)'
                      /\ at[v] = "mark" => current[v] \in SweepCopies /\ Current(current[v])'
    BY <1>2 DEF RemindersAreCurrent
  <2>1. at[v] \in {"remind", "mark"} => \A d \in todo'[v] : d \in SweepCopies /\ Current(d)
    BY <1>5 DEF RemindersAreCurrent
  <2>2. at[v] = "mark" => current[v] \in SweepCopies /\ Current(current[v])
    BY DEF RemindersAreCurrent
  <2> QED
    BY <1>2, <1>4, <2>1, <2>2 DEF Current
<1>9. ChasesAreCounted'
  <2> SUFFICES ASSUME NEW u \in Tasks
               PROVE  chases[u] <= sent'[u] + Cardinality(Recording(u)) + crashes
    BY <1>2 DEF ChasesAreCounted, Recording
  <2>1. chases[u] <= sent[u] + Cardinality(Recording(u)) + crashes
    BY DEF ChasesAreCounted
  <2>2. sent'[u] \in {sent[u], sent[u] + 1} /\ Cardinality(Recording(u)) \in Nat
    BY <1>4, RecordersAreFew
  <2> QED
    BY <2>1, <2>2
<1> QED
  BY <1>4, <1>6, <1>7, <1>8, <1>9

LEMMA RaiseChaseKeepsInv ==
    ASSUME SweepInv, NEW w \in Workers, RaiseChase(w)
    PROVE  SweepInv'
<1> USE DEF SweepInv, SweepTypeOK, SweepLocalsOK
<1>1. PICK c \in todo[w] : /\ chases' = [chases EXCEPT ![c.task] = @ + 1]
                           /\ current' = [current EXCEPT ![w] = c]
                           /\ todo' = [todo EXCEPT ![w] = @ \ {c}]
  BY DEF RaiseChase
<1>2. /\ at[w] = "remind" /\ at' = [at EXCEPT ![w] = "mark"]
      /\ UNCHANGED <<waiting, overdue, escalated, remind, sent, declares, alerts, stale,
                     crashes>>
  BY DEF RaiseChase, Goto, taskVars
<1>3. c \in SweepCopies /\ c.task \in Tasks /\ Current(c)
  BY <1>2 DEF SweepCopies, RemindersAreCurrent
<1>3a. PICK t \in Tasks : t = c.task
  BY <1>3
<1>4. /\ at' \in [Workers -> {"idle", "escalate", "alert", "remind", "mark"}]
      /\ at'[w] = "mark" /\ \A v \in Workers \ {w} : at'[v] = at[v]
      /\ todo' \in [Workers -> SUBSET SweepCopies]
      /\ \A v \in Workers : todo'[v] \subseteq todo[v]
      /\ current' \in [Workers -> SweepCopies \union {NoCopy}] /\ current'[w] = c
      /\ \A v \in Workers \ {w} : current'[v] = current[v]
  BY <1>1, <1>2, <1>3
<1>5. /\ chases' \in [Tasks -> Nat] /\ chases'[t] = chases[t] + 1
      /\ \A u \in Tasks : u # t => chases'[u] = chases[u]
  BY <1>1, <1>3, <1>3a
<1>6. SweepTypeOK' /\ SweepLocalsOK' /\ OneCopyEach'
  BY <1>2, <1>4, <1>5 DEF SweepCopies, OneCopyEach
<1>7. MarkedFirst' /\ SentIsCapped'
  BY <1>2, <1>4 DEF MarkedFirst, SentIsCapped, CapOf
<1>8. RemindersAreCurrent'
  <2>1. \A d : Current(d)' <=> Current(d)
    BY <1>2 DEF Current
  <2>2. ASSUME NEW v \in Workers
        PROVE  /\ at'[v] \in {"remind", "mark"} => \A d \in todo'[v] : Current(d)
               /\ at'[v] = "mark" => current'[v] \in SweepCopies /\ Current(current'[v])
    <3>1. CASE v = w
      BY <1>2, <1>3, <1>4, <3>1 DEF RemindersAreCurrent
    <3>2. CASE v # w
      BY <1>4, <3>2 DEF RemindersAreCurrent
    <3> QED
      BY <3>1, <3>2
  <2> QED
    BY <1>2, <2>2 DEF RemindersAreCurrent, Current
<1>9. ChasesAreCounted'
  <2>1. /\ w \notin Recording(t) /\ Recording(t)' = Recording(t) \union {w}
        /\ \A u \in Tasks : u # t => Recording(u)' = Recording(u)
    BY <1>2, <1>3a, <1>4 DEF Recording
  <2>2. Cardinality(Recording(t)') = Cardinality(Recording(t)) + 1
    <3>1. Cardinality(Recording(t) \union {w}) = Cardinality(Recording(t)) + 1
      BY <2>1, RecordersAreFew, FS_AddElement
    <3> QED
      BY <2>1, <3>1, Zenon
  <2>3. \A u \in Tasks : chases[u] <= sent[u] + Cardinality(Recording(u)) + crashes
    BY DEF ChasesAreCounted
  <2> SUFFICES ASSUME NEW u \in Tasks
               PROVE  chases'[u] <= sent[u] + Cardinality(Recording(u)') + crashes
    BY <1>2 DEF ChasesAreCounted
  <2>4. CASE u = t
    <3>1. Cardinality(Recording(t)) \in Nat /\ sent[t] \in Nat /\ chases[t] \in Nat
      BY <1>3, RecordersAreFew
    <3> QED
      BY <1>3, <1>5, <2>2, <2>3, <2>4, <3>1
  <2>5. CASE u # t
    BY <1>5, <2>1, <2>3, <2>5
  <2> QED
    BY <2>4, <2>5
<1> QED
  BY <1>6, <1>7, <1>8, <1>9

LEMMA RecordChaseKeepsInv ==
    ASSUME SweepInv, NEW w \in Workers, RecordChase(w)
    PROVE  SweepInv'
<1> USE DEF SweepInv, SweepTypeOK, SweepLocalsOK
<1> DEFINE c == current[w]
           next == IF c.sent + 1 >= MaxReminders THEN "none" ELSE "scheduled"
<1>1. /\ at[w] = "mark" /\ at' = [at EXCEPT ![w] = "remind"]
      /\ MarkReminded(c, next) /\ current' = [current EXCEPT ![w] = NoCopy]
      /\ UNCHANGED <<waiting, overdue, escalated, declares, todo, alerts, chases, crashes>>
  BY DEF RecordChase, Goto
<1>2. c \in SweepCopies /\ c.task \in Tasks /\ Current(c) /\ c.sent \in Nat
  BY <1>1 DEF SweepCopies, RemindersAreCurrent
<1>2a. PICK t \in Tasks : t = c.task
  BY <1>2
<1>3. next \in {"none", "scheduled"} /\ (next # "none" => c.sent + 1 < MaxReminders)
  BY <1>2, SweepAssumption
<1>4. /\ at' \in [Workers -> {"idle", "escalate", "alert", "remind", "mark"}]
      /\ at'[w] = "remind" /\ \A v \in Workers \ {w} : at'[v] = at[v]
      /\ current' \in [Workers -> SweepCopies \union {NoCopy}]
      /\ \A v \in Workers \ {w} : current'[v] = current[v]
  BY <1>1
<1>5. /\ w \in Recording(t) /\ Recording(t)' = Recording(t) \ {w}
      /\ \A u \in Tasks : u # t => Recording(u)' = Recording(u)
  BY <1>1, <1>2a, <1>4 DEF Recording
<1> HIDE DEF c, next
<1>6. /\ remind' \in [Tasks -> {"none", "scheduled", "due"}]
      /\ sent' \in [Tasks -> Nat] /\ stale' \in [Tasks -> Nat]
      /\ sent'[t] = sent[t] + 1
      /\ \A u \in Tasks : u # t => sent'[u] = sent[u] /\ remind'[u] = remind[u]
      /\ SentIsCapped'
      /\ \A d \in SweepCopies : Current(d) => Current(d)'
  BY <1>1, <1>2, <1>2a, <1>3, MarkRemindedKeepsCap
<1>7. SweepTypeOK' /\ SweepLocalsOK' /\ OneCopyEach'
  BY <1>1, <1>4, <1>6 DEF OneCopyEach
<1>8. MarkedFirst'
  BY <1>1, <1>4 DEF MarkedFirst
<1>9. RemindersAreCurrent'
  <2> SUFFICES ASSUME NEW v \in Workers
               PROVE  /\ at'[v] \in {"remind", "mark"} => \A d \in todo[v] : Current(d)'
                      /\ at'[v] = "mark" => /\ current'[v] \in SweepCopies
                                            /\ Current(current[v])'
    BY <1>1, <1>4 DEF RemindersAreCurrent, Current
  <2>1. at'[v] \in {"remind", "mark"} => \A d \in todo[v] : d \in SweepCopies /\ Current(d)
    BY <1>1, <1>4 DEF RemindersAreCurrent
  <2>2. at'[v] = "mark" => /\ current'[v] = current[v] /\ current[v] \in SweepCopies
                           /\ Current(current[v])
    BY <1>4 DEF RemindersAreCurrent
  <2>3. \A d \in SweepCopies : Current(d) => /\ d.sent <= sent'[d.task]
                                             /\ d.sent = sent'[d.task] => remind'[d.task] = "due"
    BY <1>6 DEF Current
  <2> QED
    BY <1>1, <1>4, <2>1, <2>2, <2>3 DEF Current
<1>10. ChasesAreCounted'
  <2>1. Cardinality(Recording(t)') = Cardinality(Recording(t)) - 1
    <3>1. Cardinality(Recording(t) \ {w}) = Cardinality(Recording(t)) - 1
      BY <1>5, RecordersAreFew, OneOut
    <3> QED
      BY <1>5, <3>1, Zenon
  <2>2. \A u \in Tasks : chases[u] <= sent[u] + Cardinality(Recording(u)) + crashes
    BY DEF ChasesAreCounted
  <2> SUFFICES ASSUME NEW u \in Tasks
               PROVE  chases[u] <= sent'[u] + Cardinality(Recording(u)') + crashes
    BY <1>1 DEF ChasesAreCounted
  <2>3. CASE u = t
    <3>1. Cardinality(Recording(t)) \in Nat /\ sent[t] \in Nat /\ chases[t] \in Nat
      BY <1>2, RecordersAreFew
    <3> QED
      BY <1>6, <2>1, <2>2, <2>3, <3>1
  <2>4. CASE u # t
    BY <1>5, <1>6, <2>2, <2>4
  <2> QED
    BY <2>3, <2>4
<1> QED
  BY <1>6, <1>7, <1>8, <1>9, <1>10

LEMMA EndSweepKeepsInv ==
    ASSUME SweepInv, NEW w \in Workers, EndSweep(w)
    PROVE  SweepInv'
<1> USE DEF SweepInv, SweepTypeOK, SweepLocalsOK
<1>1. /\ at[w] = "remind" /\ at' = [at EXCEPT ![w] = "idle"]
      /\ UNCHANGED <<waiting, overdue, escalated, remind, sent, declares, todo, current,
                     alerts, chases, stale, crashes>>
  BY DEF EndSweep, Goto, taskVars
<1>2. SweepTypeOK' /\ SweepLocalsOK' /\ OneCopyEach'
  BY <1>1 DEF OneCopyEach
<1>3. MarkedFirst' /\ RemindersAreCurrent' /\ SentIsCapped'
  BY <1>1 DEF MarkedFirst, RemindersAreCurrent, SentIsCapped, Current, CapOf
<1>4. ChasesAreCounted'
  BY <1>1, CountsStand DEF Recording
<1> QED
  BY <1>2, <1>3, <1>4

\* A death: a chase raised and not recorded is counted with it.
LEMMA SweepCrashKeepsInv ==
    ASSUME SweepInv, NEW w \in Workers, SweepCrash(w)
    PROVE  SweepInv'
<1> USE DEF SweepInv, SweepTypeOK, SweepLocalsOK
<1>1. /\ at' = [at EXCEPT ![w] = "idle"] /\ crashes' = crashes + 1
      /\ todo' = [todo EXCEPT ![w] = {}] /\ current' = [current EXCEPT ![w] = NoCopy]
      /\ UNCHANGED <<waiting, overdue, escalated, remind, sent, declares, alerts, chases,
                     stale>>
  BY DEF SweepCrash, Dies, Goto, taskVars
<1>2. /\ at' \in [Workers -> {"idle", "escalate", "alert", "remind", "mark"}]
      /\ at'[w] = "idle" /\ \A v \in Workers \ {w} : at'[v] = at[v]
      /\ todo' \in [Workers -> SUBSET SweepCopies]
      /\ \A v \in Workers : todo'[v] \subseteq todo[v]
      /\ current' \in [Workers -> SweepCopies \union {NoCopy}] /\ crashes' \in Nat
      /\ \A v \in Workers \ {w} : current'[v] = current[v]
  BY <1>1
<1>3. SweepTypeOK' /\ SweepLocalsOK' /\ OneCopyEach'
  BY <1>1, <1>2 DEF OneCopyEach
<1>4. MarkedFirst' /\ RemindersAreCurrent' /\ SentIsCapped'
  BY <1>1, <1>2 DEF MarkedFirst, RemindersAreCurrent, SentIsCapped, Current, CapOf
<1>5. ChasesAreCounted'
  <2> SUFFICES ASSUME NEW u \in Tasks
               PROVE  chases[u] <= sent[u] + Cardinality(Recording(u)') + (crashes + 1)
    BY <1>1 DEF ChasesAreCounted
  <2>1. Recording(u)' = Recording(u) \ {w}
    BY <1>1, <1>2 DEF Recording
  <2>2. Cardinality(Recording(u)') \in Nat
        /\ Cardinality(Recording(u)) <= Cardinality(Recording(u)') + 1
    <3>1. /\ Cardinality(Recording(u) \ {w}) \in Nat
          /\ Cardinality(Recording(u)) <= Cardinality(Recording(u) \ {w}) + 1
      BY RecordersAreFew, OneOut
    <3> QED
      BY <2>1, <3>1, Zenon
  <2>3. /\ chases[u] <= sent[u] + Cardinality(Recording(u)) + crashes
        /\ chases[u] \in Nat /\ sent[u] \in Nat /\ Cardinality(Recording(u)) \in Nat
    BY RecordersAreFew DEF ChasesAreCounted
  <2> QED
    BY <2>2, <2>3
<1> QED
  BY <1>3, <1>4, <1>5

\* Answers, time and playbook versions touch no mark and no count.
LEMMA OutsideKeepsInv ==
    ASSUME SweepInv,
           \/ \E t \in Tasks : Answer(t) \/ SlaPasses(t) \/ ReminderComesDue(t)
           \/ Redefine \/ UNCHANGED sweepVars
    PROVE  SweepInv'
<1> USE DEF SweepInv, SweepTypeOK, SweepLocalsOK
<1>1. UNCHANGED <<escalated, sent, at, todo, current, alerts, chases, stale, crashes>>
  BY DEF Answer, SlaPasses, ReminderComesDue, Redefine, sweepVars, sweepState, taskVars
<1>2. /\ waiting' \in [Tasks -> BOOLEAN] /\ overdue' \in [Tasks -> BOOLEAN]
      /\ declares' \in BOOLEAN
  BY DEF Answer, SlaPasses, ReminderComesDue, Redefine, sweepVars, sweepState, taskVars
<1>3. /\ remind' \in [Tasks -> {"none", "scheduled", "due"}]
      /\ \A t \in Tasks : /\ remind[t] = "due" => remind'[t] = "due"
                          /\ remind'[t] # "none" => remind[t] # "none"
  BY DEF Answer, SlaPasses, ReminderComesDue, Redefine, sweepVars, sweepState, taskVars
<1>4. SweepTypeOK' /\ SweepLocalsOK' /\ OneCopyEach' /\ MarkedFirst'
  BY <1>1, <1>2, <1>3 DEF OneCopyEach, MarkedFirst
<1>5. RemindersAreCurrent'
  BY <1>1, <1>3 DEF RemindersAreCurrent, SweepCopies, Current
<1>6. SentIsCapped'
  BY <1>1, <1>3 DEF SentIsCapped, CapOf
<1>7. ChasesAreCounted'
  BY <1>1, CountsStand DEF Recording
<1> QED
  BY <1>4, <1>5, <1>6, <1>7

LEMMA SweepNextInv ==
    ASSUME SweepInv, SweepNext
    PROVE  SweepInv'
<1>1. ASSUME NEW w \in Workers, SweepStep(w) \/ SweepCrash(w)
      PROVE  SweepInv'
  BY <1>1, ReadBreachesKeepsInv, MarkEscalatedKeepsInv, RaiseAlertKeepsInv,
     ReadRemindersKeepsInv, ClearReminderKeepsInv, RaiseChaseKeepsInv,
     RecordChaseKeepsInv, EndSweepKeepsInv, SweepCrashKeepsInv DEF SweepStep
<1> QED
  BY <1>1, OutsideKeepsInv DEF SweepNext

LEMMA SweepInvImplies == SweepInv => EscalatedOnce /\ ChaseBounded
BY DEF SweepInv, MarkedFirst, SentIsCapped, CapOf, ChasesAreCounted,
       EscalatedOnce, ChaseBounded

-----------------------------------------------------------------------------
(***************************************************************************)
(* The three together.                                                     *)
(***************************************************************************)
LEMMA PassesInitInv == PassesInit => PassesInv
<1> SUFFICES ASSUME PassesInit PROVE PassesInv
  OBVIOUS
<1>1. SchedulerInv /\ ListenerInv /\ SweepInv
  BY SchedulerInitInv, ListenerInitInv, SweepInitInv DEF PassesInit
<1>2. RestIsUntouched
  BY DEF RestIsUntouched, PassesInit, SchedulerInit, ListenerInit, SweepInit
<1> QED
  BY <1>1, <1>2 DEF PassesInit, PassesInv, SweepInv, SweepLocalsOK

LEMMA ListenerDeathsCount ==
    ASSUME crashes \in Nat, ListenerNext
    PROVE  crashes' \in Nat
<1>1. ASSUME NEW w \in Workers, ListenerStep(w) \/ ListenerCrash(w)
      PROVE  crashes' \in Nat
  <2>1. CASE ListenerCrash(w)
    BY <2>1 DEF ListenerCrash, Dies
  <2>2. CASE ReadCursor(w) \/ ReadTail(w) \/ ReadTriggers(w) \/ NextEvent(w)
    BY <2>2 DEF ReadCursor, ReadTail, ReadTriggers, NextEvent
  <2>3. CASE WriteCursor(w) \/ ResolveWait(w) \/ MatchTriggers(w) \/ ConditionFails(w)
    BY <2>3 DEF WriteCursor, ResolveWait, MatchTriggers, ConditionFails
  <2>4. CASE InsertFiring(w) \/ StartInstance(w) \/ NoMoreTriggers(w)
    BY <2>4 DEF InsertFiring, StartInstance, NoMoreTriggers
  <2> QED
    BY <1>1, <2>1, <2>2, <2>3, <2>4 DEF ListenerStep
<1>2. CASE Emit \/ SeekToLatest
  BY <1>2 DEF Emit, SeekToLatest
<1>3. CASE \E k \in Waits : ParkWait(k)
  BY <1>3 DEF ParkWait
<1>4. CASE \E g \in Triggers : UpsertTrigger(g) \/ DisableTrigger(g)
  BY <1>4 DEF UpsertTrigger, DisableTrigger
<1> QED
  BY <1>1, <1>2, <1>3, <1>4 DEF ListenerNext

LEMMA PassesNextInv ==
    ASSUME PassesInv, [PassesNext]_passesVars
    PROVE  PassesInv'
<1>1. ASSUME Scheduling(SchedulerNext)
      PROVE  PassesInv'
  <2>1. focus = "scheduler" /\ focus' = focus /\ SchedulerInv'
    BY <1>1, SchedulerNextInv DEF Scheduling, PassesInv
  <2>2. UNCHANGED <<fired, resumes, alerts, chases, sent, stale>>
    BY <1>1 DEF Scheduling, listenerState, sweepState, taskVars, effects
  <2>3. crashes' \in Nat
    BY <2>1 DEF SchedulerInv, SchedulerTypeOK
  <2> QED
    BY <2>1, <2>2, <2>3 DEF PassesInv, RestIsUntouched
<1>2. ASSUME Listening(ListenerNext)
      PROVE  PassesInv'
  <2>1. focus = "listener" /\ focus' = focus /\ ListenerInv'
    BY <1>2, ListenerNextInv DEF Listening, PassesInv
  <2>2. UNCHANGED <<starts, claims, alerts, chases, sent, stale>>
    BY <1>2 DEF Listening, schedulerState, sweepState, taskVars, occurred
  <2>3. crashes' \in Nat
    BY <1>2, ListenerDeathsCount DEF Listening, PassesInv
  <2> QED
    BY <2>1, <2>2, <2>3 DEF PassesInv, RestIsUntouched
<1>3. ASSUME Sweeping(SweepNext)
      PROVE  PassesInv'
  <2>1. focus = "sweeps" /\ focus' = focus /\ SweepInv'
    BY <1>3, SweepNextInv DEF Sweeping, PassesInv
  <2>2. UNCHANGED <<starts, claims, fired, resumes>>
    BY <1>3 DEF Sweeping, schedulerState, listenerState, occurred, effects
  <2> QED
    BY <2>1, <2>2 DEF PassesInv, RestIsUntouched, SweepInv, SweepLocalsOK
<1>4. ASSUME UNCHANGED passesVars
      PROVE  PassesInv'
  <2>1. UNCHANGED schedulerVars /\ UNCHANGED listenerVars /\ UNCHANGED sweepVars
    BY <1>4 DEF passesVars, schedulerVars, listenerVars, sweepVars
  <2>2. UNCHANGED <<focus, starts, claims, fired, resumes, alerts, chases, sent, stale,
                       crashes>>
    BY <1>4 DEF passesVars, schedulerState, listenerState, sweepState, taskVars, occurred,
                effects
  <2>3. /\ focus = "scheduler" => SchedulerInv'
        /\ focus = "listener"  => ListenerInv'
        /\ focus = "sweeps"    => SweepInv'
    BY <2>1, SchedulerStutter, ListenerNextInv, OutsideKeepsInv DEF PassesInv
  <2> QED
    BY <2>2, <2>3 DEF PassesInv, RestIsUntouched
<1> QED
  BY <1>1, <1>2, <1>3, <1>4 DEF PassesNext

LEMMA PassesInvImplies == PassesInv => TakenOnce
<1> SUFFICES ASSUME PassesInv PROVE TakenOnce
  OBVIOUS
<1>1. PassesTypeOK
  BY ListenerInvImplies DEF PassesInv, PassesTypeOK, SchedulerInv, SweepInv
<1>2. OccurrenceFiresOnce /\ NoBacklog
  BY DEF PassesInv, SchedulerInv, StartsWereClaimed, RestIsUntouched,
         OccurrenceFiresOnce, NoBacklog
<1>3. FiredAtMostOnce /\ ResumedOnce
  BY ListenerInvImplies DEF PassesInv, RestIsUntouched, FiredAtMostOnce, ResumedOnce
<1>4. EscalatedOnce /\ ChaseBounded
  <2>1. CASE focus = "sweeps"
    BY <2>1, SweepInvImplies DEF PassesInv
  <2>2. CASE focus # "sweeps"
    <3>1. \A t \in Tasks : Cardinality(Recording(t)) \in Nat
      BY RecordersAreFew
    <3> QED
      BY <2>2, <3>1, SweepAssumption DEF PassesInv, RestIsUntouched, EscalatedOnce,
                                         ChaseBounded
  <2> QED
    BY <2>1, <2>2
<1> QED
  BY <1>1, <1>2, <1>3, <1>4 DEF TakenOnce

\* Whatever the passes of a worker's turn race over is taken once: an
\* occurrence, unless an edit came too late for it, a trigger's event, a wait,
\* and by each worker a breach; and a wait is chased beyond its cap only as far
\* as deaths and records on an outdated count explain (engine.ts tick,
\* scheduler.ts, listener.ts).
THEOREM PassesTakeOnce ==
    PassesSpec => []TakenOnce
<1>1. PassesInv /\ [PassesNext]_passesVars => PassesInv'
  BY PassesNextInv
<1> QED
  BY PassesInitInv, <1>1, PassesInvImplies, PTL DEF PassesSpec
=============================================================================
