--------------------------- MODULE EventListener ---------------------------
(***************************************************************************)
(* The Event Ledger listener, packages/workflow/src/listener.ts, for one   *)
(* tenant: a pass reads the cursor, then the tail, then the triggers; it   *)
(* walks the events in between, resumes the waits and starts an instance   *)
(* for each trigger an event matches, and moves the cursor to the tail it  *)
(* read.  Passes of several workers overlap, and a worker may die between  *)
(* any two statements.  The ledger is the one EventLedger describes: its   *)
(* seqs are contiguous and a committed event is seen by every later read.  *)
(***************************************************************************)
EXTENDS WorkerPool, Sequences

CONSTANTS EventTypes, Triggers,
          TypeOf,          \* TypeOf[g]: the event type a trigger matches
          Conditional,     \* triggers with a condition
          Waits,           \* tasks of kind wait
          Awaits,          \* Awaits[k]: the event type a wait is for
          MaxEvents,       \* model bound on the tenant's ledger
          MaxToggles,      \* model bound on changes of configuration
          NoTrigger

ASSUME ListenerAssumption ==
    /\ TypeOf \in [Triggers -> EventTypes] /\ Conditional \subseteq Triggers
    /\ Awaits \in [Waits -> EventTypes]
    /\ MaxEvents \in Nat /\ MaxToggles \in Nat
    /\ NoTrigger \notin Triggers

VARIABLES events,     \* the ledger: the type of each event, by seq
          cursor,     \* ledger_cursors.lastSeq
          enabled,    \* the enabled workflow_triggers
          firings,    \* workflow_trigger_firings: (trigger, seq) pairs
          fired,      \* fired[g][n]: instances started for the pair
          wait,       \* wait[k]: "unreached", "waiting" or "resumed"
          resumes,    \* resumes[k]: times the wait was advanced
          reported,   \* history: pairs whose start was refused and reported
          unmet,      \* history: pairs whose condition did not hold
          swallowed,  \* history: pairs whose claim failed otherwise than on
                      \* its unique key
          since,      \* history: since[g], the tail when g was last enabled
          sought,     \* history: the tail at the last seekToLatest
          pass,       \* pass[w]: the locals of worker w's pass
          toggles

triggerConfig == <<enabled, since, toggles>>
effects       == <<firings, fired, wait, resumes, reported, unmet, swallowed>>
listenerState == <<events, cursor, triggerConfig, effects, sought, pass>>
listenerVars  == <<listenerState, at, crashes>>

Seqs == 1..MaxEvents
LastSeq == Len(events)
NewPass == [at |-> 0, upTo |-> 0, triggers |-> {}, todo |-> {}, firing |-> NoTrigger]

ListenerInit ==
    /\ events = <<>> /\ cursor = 0 /\ sought = 0
    /\ enabled = {} /\ since = [g \in Triggers |-> 0] /\ toggles = 0
    /\ firings = {} /\ reported = {} /\ unmet = {} /\ swallowed = {}
    /\ fired = [g \in Triggers |-> [n \in Seqs |-> 0]]
    /\ wait = [k \in Waits |-> "unreached"]
    /\ resumes = [k \in Waits |-> 0]
    /\ PoolInit
    /\ pass = [w \in Workers |-> NewPass]

Continue(w, label, locals) ==
    /\ Goto(w, label)
    /\ pass' = [pass EXCEPT ![w] = locals]

-----------------------------------------------------------------------------
(***************************************************************************)
(* listenerPass.                                                           *)
(***************************************************************************)
ReadCursor(w) ==
    /\ at[w] = "idle"
    /\ Continue(w, "tail", [NewPass EXCEPT !.at = cursor])
    /\ UNCHANGED <<events, cursor, triggerConfig, effects, sought, crashes>>

\* Nothing after the cursor: no more to do for this tenant.
ReadTail(w) ==
    /\ at[w] = "tail"
    /\ IF LastSeq <= pass[w].at
       THEN Continue(w, "idle", NewPass)
       ELSE Continue(w, "triggers", [pass[w] EXCEPT !.upTo = LastSeq])
    /\ UNCHANGED <<events, cursor, triggerConfig, effects, sought, crashes>>

ReadTriggers(w) ==
    /\ at[w] = "triggers"
    /\ Continue(w, "event", [pass[w] EXCEPT !.triggers = enabled])
    /\ UNCHANGED <<events, cursor, triggerConfig, effects, sought, crashes>>

\* The next event: resolveWaits lists the waits parked by now; after the
\* last one, the cursor takes the tail the pass read.
NextEvent(w) ==
    /\ at[w] = "event" /\ pass[w].at < pass[w].upTo
    /\ LET n == pass[w].at + 1
       IN  Continue(w, "waits", [pass[w] EXCEPT !.at = n,
              !.todo = {k \in Waits : wait[k] = "waiting" /\ Awaits[k] = events[n]}])
    /\ UNCHANGED <<events, cursor, triggerConfig, effects, sought, crashes>>

\* Mutant: the cursor is moved to the tail of the moment.
WriteCursorToLatest(w) ==
    /\ at[w] = "event" /\ pass[w].at = pass[w].upTo
    /\ cursor' = LastSeq
    /\ Continue(w, "idle", NewPass)
    /\ UNCHANGED <<events, triggerConfig, effects, sought, crashes>>

\* Mutant: the cursor is not written.
ForgetCursor(w) ==
    /\ at[w] = "event" /\ pass[w].at = pass[w].upTo
    /\ Continue(w, "idle", NewPass)
    /\ UNCHANGED <<events, cursor, triggerConfig, effects, sought, crashes>>

WriteCursor(w) ==
    /\ at[w] = "event" /\ pass[w].at = pass[w].upTo
    /\ cursor' = pass[w].upTo
    /\ Continue(w, "idle", NewPass)
    /\ UNCHANGED <<events, triggerConfig, effects, sought, crashes>>

\* resolveEventWait's update is conditional on 'waiting'.
ResolveWait(w) ==
    /\ at[w] = "waits"
    /\ \E k \in pass[w].todo :
         /\ Continue(w, "waits", [pass[w] EXCEPT !.todo = @ \ {k}])
         /\ wait' = [wait EXCEPT ![k] = "resumed"]
         /\ resumes' = [resumes EXCEPT ![k] =
                          IF wait[k] = "waiting" THEN @ + 1 ELSE @]
    /\ UNCHANGED <<events, cursor, triggerConfig, firings, fired, reported, unmet,
                   swallowed, sought, crashes>>

MatchTriggers(w) ==
    /\ at[w] = "waits" /\ pass[w].todo = {}
    /\ Continue(w, "fire", [pass[w] EXCEPT !.todo =
          {g \in pass[w].triggers : TypeOf[g] = events[pass[w].at]}])
    /\ UNCHANGED <<events, cursor, triggerConfig, effects, sought, crashes>>

\* fireTrigger: a condition that does not evaluate disables its trigger,
\* which the snapshot keeps for the rest of the pass; one that does not hold
\* leaves nothing behind.
ConditionFails(w) ==
    /\ at[w] = "fire"
    /\ \E g \in pass[w].todo \intersect Conditional :
         /\ Continue(w, "fire", [pass[w] EXCEPT !.todo = @ \ {g}])
         /\ \/ enabled' = enabled \ {g} /\ UNCHANGED unmet
            \/ unmet' = unmet \union {<<g, pass[w].at>>} /\ UNCHANGED enabled
    /\ UNCHANGED <<events, cursor, since, toggles, firings, fired, wait,
                   resumes, reported, swallowed, sought, crashes>>

\* Mutant: no unique index on (trigger, seq).
InsertFiringAgain(w) ==
    /\ at[w] = "fire"
    /\ \E g \in pass[w].todo :
         /\ firings' = firings \union {<<g, pass[w].at>>}
         /\ Continue(w, "start", [pass[w] EXCEPT !.todo = @ \ {g}, !.firing = g])
    /\ UNCHANGED <<events, cursor, triggerConfig, fired, wait, resumes, reported,
                   unmet, swallowed, sought, crashes>>

\* Claim the pair.  Whatever the insert throws is read as "handled before":
\* the unique violation, and any other error as well.
InsertFiring(w) ==
    /\ at[w] = "fire"
    /\ \E g \in pass[w].todo :
         LET pair == <<g, pass[w].at>>
             rest == [pass[w] EXCEPT !.todo = @ \ {g}]
         IN  \/ /\ pair \notin firings /\ firings' = firings \union {pair}
                /\ Continue(w, "start", [rest EXCEPT !.firing = g])
                /\ UNCHANGED swallowed
             \/ /\ swallowed' = swallowed \union ({pair} \ firings)
                /\ Continue(w, "fire", rest)
                /\ UNCHANGED firings
    /\ UNCHANGED <<events, cursor, triggerConfig, fired, wait, resumes, reported,
                   unmet, sought, crashes>>

\* start creates the instance, or finds no active playbook, which is
\* reported; the pair stays claimed either way.
StartInstance(w) ==
    /\ at[w] = "start"
    /\ LET g == pass[w].firing  n == pass[w].at
       IN  \/ fired' = [fired EXCEPT ![g][n] = @ + 1] /\ UNCHANGED reported
           \/ reported' = reported \union {<<g, n>>} /\ UNCHANGED fired
    /\ Continue(w, "fire", [pass[w] EXCEPT !.firing = NoTrigger])
    /\ UNCHANGED <<events, cursor, triggerConfig, firings, wait, resumes, unmet,
                   swallowed, sought, crashes>>

NoMoreTriggers(w) ==
    /\ at[w] = "fire" /\ pass[w].todo = {}
    /\ Continue(w, "event", pass[w])
    /\ UNCHANGED <<events, cursor, triggerConfig, effects, sought, crashes>>

-----------------------------------------------------------------------------
(***************************************************************************)
(* What the listener shares its tables with.                               *)
(***************************************************************************)
\* Any append: a client's act, or the engine's own report of what it started.
Emit ==
    /\ LastSeq < MaxEvents
    /\ \E e \in EventTypes : events' = Append(events, e)
    /\ UNCHANGED <<cursor, triggerConfig, effects, sought, at, pass, crashes>>

ParkWait(k) ==
    /\ wait[k] = "unreached"
    /\ wait' = [wait EXCEPT ![k] = "waiting"]
    /\ UNCHANGED <<events, cursor, triggerConfig, firings, fired, resumes, reported,
                   unmet, swallowed, sought, at, pass, crashes>>

\* upsertTrigger enables, whatever was there before.
UpsertTrigger(g) ==
    /\ toggles < MaxToggles /\ toggles' = toggles + 1
    /\ enabled' = enabled \union {g}
    /\ since' = [since EXCEPT ![g] = IF g \in enabled THEN @ ELSE LastSeq]
    /\ UNCHANGED <<events, cursor, effects, sought, at, pass, crashes>>

DisableTrigger(g) ==
    /\ toggles < MaxToggles /\ toggles' = toggles + 1
    /\ g \in enabled /\ enabled' = enabled \ {g}
    /\ UNCHANGED <<events, cursor, since, effects, sought, at, pass, crashes>>

\* seekToLatest, its read and its write: onboarding skips the history.
SeekToLatest ==
    /\ toggles < MaxToggles /\ toggles' = toggles + 1
    /\ cursor' = LastSeq /\ sought' = LastSeq
    /\ UNCHANGED <<events, enabled, since, effects, at, pass, crashes>>

ListenerCrash(w) ==
    /\ Dies(w) /\ pass' = [pass EXCEPT ![w] = NewPass]
    /\ UNCHANGED <<events, cursor, triggerConfig, effects, sought>>

ListenerStep(w) ==
    \/ ReadCursor(w)    \/ ReadTail(w)      \/ ReadTriggers(w)
    \/ NextEvent(w)     \/ WriteCursor(w)   \/ ResolveWait(w)
    \/ MatchTriggers(w) \/ ConditionFails(w) \/ InsertFiring(w)
    \/ StartInstance(w) \/ NoMoreTriggers(w)

ListenerNext ==
    \/ \E w \in Workers : ListenerStep(w) \/ ListenerCrash(w)
    \/ Emit \/ SeekToLatest
    \/ \E k \in Waits : ParkWait(k)
    \/ \E g \in Triggers : UpsertTrigger(g) \/ DisableTrigger(g)

ListenerSafetySpec == ListenerInit /\ [][ListenerNext]_listenerVars

\* Every worker runs a pass on every turn of its loop.
ListenerSpec ==
    ListenerSafetySpec /\ \A w \in Workers : WF_listenerVars(ListenerStep(w))

-----------------------------------------------------------------------------
(***************************************************************************)
(* Properties.                                                             *)
(***************************************************************************)
\* The type invariant of the listener.
ListenerTypeOK ==
    /\ events \in Seq(EventTypes) /\ Len(events) <= MaxEvents
    /\ cursor \in 0..MaxEvents /\ sought \in 0..MaxEvents
    /\ enabled \subseteq Triggers
    /\ firings \subseteq Triggers \X Seqs /\ reported \subseteq Triggers \X Seqs
    /\ unmet \subseteq Triggers \X Seqs /\ swallowed \subseteq Triggers \X Seqs
    /\ fired \in [Triggers -> [Seqs -> Nat]]
    /\ since \in [Triggers -> 0..MaxEvents]
    /\ wait \in [Waits -> {"unreached", "waiting", "resumed"}]
    /\ resumes \in [Waits -> Nat]
    /\ at \in [Workers -> {"idle", "tail", "triggers", "event", "waits",
                             "fire", "start"}]
    /\ \A w \in Workers : pass[w].at \in 0..MaxEvents
                            /\ pass[w].upTo \in 0..MaxEvents
    /\ toggles \in 0..MaxToggles

\* However passes overlap, die and replay, and wherever a stale pass leaves
\* the cursor, a trigger fired at most one instance for an event: the unique
\* pair, not the cursor, decides (fireTrigger).
FiredAtMostOnce == \A g \in Triggers : \A n \in Seqs : fired[g][n] <= 1

\* However passes overlap and replay, a wait is advanced once.
ResumedOnce == \A k \in Waits : resumes[k] <= 1

\* The cursor never passes over an event that a trigger enabled before it,
\* and ever since, should have seen: the pair was claimed or its condition
\* looked at.  Only seekToLatest skips, and a claim that failed for another
\* reason than the unique key, which fireTrigger reads as handled.  (The tail
\* is read before the triggers, and the cursor moves to that tail and no
\* further.)
NoEventSkipped ==
    \A g \in enabled : \A n \in 1..cursor :
        (n > sought /\ n > since[g] /\ TypeOf[g] = events[n]) =>
            <<g, n>> \in firings \union unmet \union swallowed

\* With workers that keep passing, the cursor catches up with the ledger and
\* stays there, stale passes notwithstanding.
CatchesUp == <>[](cursor = LastSeq)

=============================================================================
