------------------------------ MODULE Scheduler ------------------------------
(***************************************************************************)
(* The scheduler, packages/workflow/src/scheduler.ts: passes of several    *)
(* workers list the schedules that are due and, row by row, disable what   *)
(* cannot be evaluated, claim the occurrence by an update conditional on   *)
(* the nextRunAt they read, and start the playbook.  Operators edit and    *)
(* disable schedules meanwhile, and a worker may die between statements.   *)
(***************************************************************************)
EXTENDS WorkerPool

CONSTANTS Schedules, Crons,
          MaxTime,           \* model bound on the clock
          NextOccurrence,    \* NextOccurrence[c][t]: the first one after t
          Grace,             \* an occurrence fired later than this is late
          MaxEdits,          \* model bound on operators' acts
          NoRow

Times == 0..MaxTime

ASSUME SchedulerAssumption ==
    /\ NextOccurrence \in [Crons -> [Times -> Nat]]
    /\ \A c \in Crons : \A t \in Times : NextOccurrence[c][t] > t
    /\ MaxTime \in Nat /\ Grace \in Nat /\ MaxEdits \in Nat

VARIABLES sched,      \* sched[s]: the row of scheduled_workflows, or NoRow
          now,
          clock, due, claimed,    \* a pass: its clock, rows read, row claimed
          edit,       \* an upsertSchedule computed and not yet written
          claims,     \* occurred: claims[s], the clock of each claim by occurrence
          starts,     \* starts[s][o]: instances started for an occurrence
          visible,    \* occurred: <<s, o>> with an event saying what became of it
          overtaken,  \* occurred: schedules an edit was written to when the
                      \* occurrence it sets had come already
          edits

occurred       == <<claims, starts, visible, overtaken>>
passVars       == <<at, clock, due, claimed>>
schedulerState == <<sched, now, clock, due, claimed, edit, occurred, edits>>
schedulerVars  == <<schedulerState, at, crashes>>

Occurrences == {NextOccurrence[c][t] : c \in Crons, t \in Times}
Rows   == [cron : Crons, next : Occurrences, valid : BOOLEAN, enabled : BOOLEAN]
Copies == [sched : Schedules, cron : Crons, next : Occurrences, valid : BOOLEAN]
Edits  == [sched : Schedules, cron : Crons, next : Occurrences]

ASSUME NoRowAssumption == NoRow \notin Rows \union Copies \union Edits

NotClaimed  == -1
Exists(s)   == sched[s] # NoRow
DueCopy(s)  == [sched |-> s, cron |-> sched[s].cron, next |-> sched[s].next,
                valid |-> sched[s].valid]

SchedulerInit ==
    /\ sched = [s \in Schedules |-> NoRow]
    /\ now = 0
    /\ PoolInit
    /\ clock = [w \in Workers |-> 0]
    /\ due = [w \in Workers |-> {}]
    /\ claimed = [w \in Workers |-> NoRow]
    /\ edit = NoRow
    /\ claims = [s \in Schedules |-> [o \in Occurrences |-> NotClaimed]]
    /\ starts = [s \in Schedules |-> [o \in Occurrences |-> 0]]
    /\ visible = {} /\ overtaken = {}
    /\ edits = 0

-----------------------------------------------------------------------------
(***************************************************************************)
(* schedulerPass.                                                          *)
(***************************************************************************)
IsDue(s) == Exists(s) /\ sched[s].enabled /\ sched[s].next <= now

ReadDue(w) ==
    /\ at[w] = "idle" /\ \E s \in Schedules : IsDue(s)
    /\ clock' = [clock EXCEPT ![w] = now]
    /\ due' = [due EXCEPT ![w] = {DueCopy(s) : s \in {r \in Schedules : IsDue(r)}}]
    /\ Goto(w, "rows")
    /\ UNCHANGED <<sched, now, claimed, edit, occurred, edits, crashes>>

\* Mutant: a schedule that does not evaluate is reported and left enabled.
SkipBroken(w) ==
    /\ at[w] = "rows"
    /\ \E c \in due[w] : /\ ~c.valid
                         /\ visible' = visible \union {<<c.sched, c.next>>}
                         /\ due' = [due EXCEPT ![w] = @ \ {c}]
    /\ UNCHANGED <<sched, now, at, clock, claimed, edit, claims, starts,
                   overtaken, edits, crashes>>

\* nextOccurrence does not evaluate: disable the schedule and say so.
DisableBroken(w) ==
    /\ at[w] = "rows"
    /\ \E c \in due[w] :
         /\ ~c.valid
         /\ sched' = [sched EXCEPT ![c.sched].enabled = FALSE]
         /\ visible' = visible \union {<<c.sched, c.next>>}
         /\ due' = [due EXCEPT ![w] = @ \ {c}]
    /\ UNCHANGED <<now, at, clock, claimed, edit, claims, starts, overtaken, edits,
                   crashes>>

\* A claim that wins: advance the schedule and go on to report and start.
Take(w, c, next) ==
    /\ sched' = [sched EXCEPT ![c.sched].next = next]
    /\ claims' = [claims EXCEPT ![c.sched][c.next] = clock[w]]
    /\ claimed' = [claimed EXCEPT ![w] = c]
    /\ Goto(w, "report")

\* updateMany where nextRunAt is still the one read; a count of zero means
\* another worker, or an edit, took it.
ClaimOccurrence(w) ==
    /\ at[w] = "rows"
    /\ \E c \in due[w] :
         /\ c.valid
         /\ due' = [due EXCEPT ![w] = @ \ {c}]
         /\ IF sched[c.sched].next = c.next
            THEN Take(w, c, NextOccurrence[c.cron][clock[w]])
            ELSE UNCHANGED <<sched, claims, claimed, at>>
    /\ UNCHANGED <<now, clock, edit, starts, visible, overtaken, edits, crashes>>

\* Late by more than the grace: workflow.schedule_late.
ReportLate(w) ==
    /\ at[w] = "report"
    /\ LET c == claimed[w]
       IN  visible' = IF clock[w] - c.next > Grace
                      THEN visible \union {<<c.sched, c.next>>} ELSE visible
    /\ Goto(w, "start")
    /\ UNCHANGED <<sched, now, clock, due, claimed, edit, claims, starts,
                   overtaken, edits, crashes>>

\* start: the playbook has an active version, or it has none and the
\* schedule goes on as it was.
Start(c) ==
    \/ starts' = [starts EXCEPT ![c.sched][c.next] = @ + 1]
    \/ UNCHANGED starts

\* Mutant: a refused start is not reported.
StartQuietly(w) ==
    /\ at[w] = "start"
    /\ LET c == claimed[w]
       IN  /\ Start(c)
           /\ visible' = IF starts' = starts THEN visible
                         ELSE visible \union {<<c.sched, c.next>>}
    /\ claimed' = [claimed EXCEPT ![w] = NoRow]
    /\ Goto(w, "rows")
    /\ UNCHANGED <<sched, now, clock, due, edit, claims, overtaken, edits, crashes>>

\* ... and the event that reports it or its refusal.
StartPlaybook(w) ==
    /\ at[w] = "start"
    /\ Start(claimed[w])
    /\ visible' = visible \union {<<claimed[w].sched, claimed[w].next>>}
    /\ claimed' = [claimed EXCEPT ![w] = NoRow]
    /\ Goto(w, "rows")
    /\ UNCHANGED <<sched, now, clock, due, edit, claims, overtaken, edits, crashes>>

EndSchedulerPass(w) ==
    /\ at[w] = "rows" /\ due[w] = {}
    /\ Goto(w, "idle")
    /\ UNCHANGED <<sched, now, clock, due, claimed, edit, occurred, edits, crashes>>

-----------------------------------------------------------------------------
(***************************************************************************)
(* Operators, time and deaths.                                             *)
(***************************************************************************)
\* upsertSchedule works the next occurrence out from the clock it read ...
ComputeEdit(s, c) ==
    /\ edits < MaxEdits /\ edits' = edits + 1 /\ edit = NoRow
    /\ edit' = [sched |-> s, cron |-> c, next |-> NextOccurrence[c][now]]
    /\ UNCHANGED <<sched, now, passVars, occurred, crashes>>

\* ... and writes it, however long after: a new row is enabled, an old one is
\* left as it was.
WriteEdit ==
    /\ edit # NoRow
    /\ sched' = [sched EXCEPT ![edit.sched] =
         [cron |-> edit.cron, next |-> edit.next, valid |-> TRUE,
          enabled |-> IF @ = NoRow THEN TRUE ELSE @.enabled]]
    /\ overtaken' = IF edit.next <= now THEN overtaken \union {edit.sched}
                                        ELSE overtaken
    /\ edit' = NoRow
    /\ UNCHANGED <<now, passVars, claims, starts, visible, edits, crashes>>

SetScheduleEnabled(s, enabled) ==
    /\ edits < MaxEdits /\ edits' = edits + 1
    /\ Exists(s) /\ sched[s].enabled # enabled
    /\ sched' = [sched EXCEPT ![s].enabled = enabled]
    /\ UNCHANGED <<now, passVars, edit, occurred, crashes>>

\* A row that evaluated when it was written evaluates no longer: a zone the
\* time-zone data dropped, an expression a new parser rejects.
StopsEvaluating(s) ==
    /\ edits < MaxEdits /\ edits' = edits + 1
    /\ Exists(s) /\ sched[s].valid
    /\ sched' = [sched EXCEPT ![s].valid = FALSE]
    /\ UNCHANGED <<now, passVars, edit, occurred, crashes>>

TimePasses ==
    /\ now < MaxTime /\ now' = now + 1
    /\ UNCHANGED <<sched, passVars, edit, occurred, edits, crashes>>

SchedulerCrash(w) ==
    /\ Dies(w)
    /\ due' = [due EXCEPT ![w] = {}]
    /\ claimed' = [claimed EXCEPT ![w] = NoRow]
    /\ UNCHANGED <<sched, now, clock, edit, occurred, edits>>

SchedulerStep(w) ==
    \/ ReadDue(w)    \/ DisableBroken(w) \/ ClaimOccurrence(w)
    \/ ReportLate(w) \/ StartPlaybook(w) \/ EndSchedulerPass(w)

SchedulerNext ==
    \/ \E w \in Workers : SchedulerStep(w) \/ SchedulerCrash(w)
    \/ \E s \in Schedules : \E c \in Crons : ComputeEdit(s, c)
    \/ WriteEdit
    \/ \E s \in Schedules : \E b \in BOOLEAN : SetScheduleEnabled(s, b)
    \/ \E s \in Schedules : StopsEvaluating(s)
    \/ TimePasses

SchedulerSafetySpec == SchedulerInit /\ [][SchedulerNext]_schedulerVars

\* Every worker runs a pass on every turn of its loop.
SchedulerSpec ==
    SchedulerSafetySpec /\ \A w \in Workers : WF_schedulerVars(SchedulerStep(w))

-----------------------------------------------------------------------------
(***************************************************************************)
(* Properties.                                                             *)
(***************************************************************************)
\* The type invariant of the scheduler.
SchedulerTypeOK ==
    /\ sched \in [Schedules -> Rows \union {NoRow}]
    /\ now \in Times
    /\ at \in [Workers -> {"idle", "rows", "report", "start"}]
    /\ clock \in [Workers -> Times]
    /\ due \in [Workers -> SUBSET Copies]
    /\ claimed \in [Workers -> Copies \union {NoRow}]
    /\ claims \in [Schedules -> [Occurrences -> Times \union {NotClaimed}]]
    /\ starts \in [Schedules -> [Occurrences -> Nat]]
    /\ visible \subseteq Schedules \X Occurrences /\ overtaken \subseteq Schedules
    /\ edits \in 0..MaxEdits /\ crashes \in 0..MaxCrashes

\* Workers racing on one occurrence start one instance between them, and no
\* occurrence starts a second one after a death, a stale pass or an edit, but
\* for an edit written so late that the occurrence it sets had come already.
OccurrenceFiresOnce ==
    \A s \in Schedules \ overtaken : \A o \in Occurrences : starts[s][o] <= 1

\* A due schedule fires once and goes on after now: of the occurrences that
\* a claim found missed, none is ever claimed as well, with the same exception.
NoBacklog ==
    \A s \in Schedules \ overtaken : \A o1, o2 \in Occurrences :
        (o1 < o2 /\ claims[s][o1] # NotClaimed /\ claims[s][o2] # NotClaimed)
            => o2 > claims[s][o1]

\* A due schedule that stays enabled is taken up.
DueIsTaken ==
    \A s \in Schedules : \A o \in Occurrences :
        (IsDue(s) /\ sched[s].next = o) ~> ~(IsDue(s) /\ sched[s].next = o)

\* The catch-up policy: a missed window is visible rather than silently
\* absorbed.  So an occurrence that was claimed has an event that says what
\* became of it, or a worker about to write one; only a death leaves none.
ClaimedIsVisible ==
    \A s \in Schedules : \A o \in Occurrences : claims[s][o] # NotClaimed =>
        \/ <<s, o>> \in visible
        \/ \E w \in Workers : claimed[w] # NoRow /\ claimed[w].sched = s
                              /\ claimed[w].next = o
        \/ crashes > 0
=============================================================================
