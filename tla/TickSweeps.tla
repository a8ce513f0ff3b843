----------------------------- MODULE TickSweeps -----------------------------
(***************************************************************************)
(* The two sweeps tick makes before it claims anything (engine.ts, steps 2 *)
(* and 2b): escalate tasks past their SLA, and chase waits that take too   *)
(* long.  Each reads a list and then, row by row, raises a notification    *)
(* and marks the row; answers arrive, other workers sweep, and the worker  *)
(* may die in between.                                                     *)
(***************************************************************************)
EXTENDS WorkerPool

CONSTANTS Tasks,
          MaxReminders    \* the node's maxReminders

ASSUME SweepAssumption == MaxReminders \in Nat \ {0}

VARIABLES waiting,    \* waiting[t]: parked; FALSE once the answer is in
          overdue,    \* overdue[t]: slaDueAt has passed
          escalated,  \* escalated[t]: escalatedAt is set
          remind,     \* remind[t]: remindDueAt is null, to come, or past
          sent,       \* sent[t]: remindersSent
          declares,   \* the node still declares remindAfterMinutes
          todo, current,  \* a sweep: rows read, row in hand
          alerts,     \* alerts[w][t]: SLA notifications w raised
          chases,     \* chases[t]: reminder notifications raised
          stale       \* history: stale[t], chases recorded on a count that
                      \* another sweep had changed since it was read

taskVars   == <<waiting, overdue, escalated, remind, sent, declares>>
sweepState == <<taskVars, todo, current, alerts, chases, stale>>
sweepVars  == <<sweepState, at, crashes>>

SweepCopy(t) == [task |-> t, sent |-> sent[t]]
NoCopy       == [task |-> "none", sent |-> 0]

SweepInit ==
    /\ waiting = [t \in Tasks |-> TRUE]
    /\ overdue = [t \in Tasks |-> FALSE]
    /\ escalated = [t \in Tasks |-> FALSE]
    /\ remind = [t \in Tasks |-> "scheduled"]
    /\ sent = [t \in Tasks |-> 0]
    /\ declares = TRUE
    /\ PoolInit
    /\ todo = [w \in Workers |-> {}]
    /\ current = [w \in Workers |-> NoCopy]
    /\ alerts = [w \in Workers |-> [t \in Tasks |-> 0]]
    /\ chases = [t \in Tasks |-> 0]
    /\ stale = [t \in Tasks |-> 0]

\* breachedSlas: live, past slaDueAt, escalatedAt still null.
ReadBreaches(w) ==
    /\ at[w] = "idle"
    /\ Goto(w, "escalate")
    /\ todo' = [todo EXCEPT ![w] =
                  {SweepCopy(t) : t \in {u \in Tasks : waiting[u] /\ overdue[u]
                                                    /\ ~escalated[u]}}]
    /\ UNCHANGED <<taskVars, current, alerts, chases, stale, crashes>>

\* Mutant: the mark without the notification.
MarkSilently(w) ==
    /\ at[w] = "escalate"
    /\ \E c \in todo[w] : /\ escalated' = [escalated EXCEPT ![c.task] = TRUE]
                          /\ todo' = [todo EXCEPT ![w] = @ \ {c}]
    /\ UNCHANGED <<waiting, overdue, remind, sent, declares, at, current, alerts,
                   chases, stale, crashes>>

MarkEscalated(w) ==
    /\ at[w] = "escalate"
    /\ \E c \in todo[w] :
         /\ escalated' = [escalated EXCEPT ![c.task] = TRUE]
         /\ current' = [current EXCEPT ![w] = c]
         /\ todo' = [todo EXCEPT ![w] = @ \ {c}]
    /\ Goto(w, "alert")
    /\ UNCHANGED <<waiting, overdue, remind, sent, declares, alerts, chases, stale, crashes>>

RaiseAlert(w) ==
    /\ at[w] = "alert"
    /\ alerts' = [alerts EXCEPT ![w][current[w].task] = @ + 1]
    /\ current' = [current EXCEPT ![w] = NoCopy]
    /\ Goto(w, "escalate")
    /\ UNCHANGED <<taskVars, todo, chases, stale, crashes>>

\* dueReminders: waiting rows whose remindDueAt has passed.
ReadReminders(w) ==
    /\ at[w] = "escalate" /\ todo[w] = {}
    /\ Goto(w, "remind")
    /\ todo' = [todo EXCEPT ![w] =
                  {SweepCopy(t) : t \in {u \in Tasks : waiting[u] /\ remind[u] = "due"}}]
    /\ UNCHANGED <<taskVars, current, alerts, chases, stale, crashes>>

\* markReminded: one more sent, and the schedule the caller worked out, from
\* the count its sweep read.
MarkReminded(c, next) ==
    /\ sent' = [sent EXCEPT ![c.task] = @ + 1]
    /\ remind' = [remind EXCEPT ![c.task] = next]
    /\ stale' = IF c.sent = sent[c.task] THEN stale
                ELSE [stale EXCEPT ![c.task] = @ + 1]

\* The node no longer declares a reminder: clear the schedule.
ClearReminder(w) ==
    /\ at[w] = "remind" /\ ~declares
    /\ \E c \in todo[w] : /\ MarkReminded(c, "none")
                          /\ todo' = [todo EXCEPT ![w] = @ \ {c}]
    /\ UNCHANGED <<waiting, overdue, escalated, declares, at, current, alerts,
                   chases, crashes>>

RaiseChase(w) ==
    /\ at[w] = "remind" /\ declares
    /\ \E c \in todo[w] :
         /\ chases' = [chases EXCEPT ![c.task] = @ + 1]
         /\ current' = [current EXCEPT ![w] = c]
         /\ todo' = [todo EXCEPT ![w] = @ \ {c}]
    /\ Goto(w, "mark")
    /\ UNCHANGED <<taskVars, alerts, stale, crashes>>

\* The cap is compared with the count the sweep read.
RecordChase(w) ==
    /\ at[w] = "mark"
    /\ MarkReminded(current[w],
                    IF current[w].sent + 1 >= MaxReminders THEN "none" ELSE "scheduled")
    /\ current' = [current EXCEPT ![w] = NoCopy]
    /\ Goto(w, "remind")
    /\ UNCHANGED <<waiting, overdue, escalated, declares, todo, alerts, chases, crashes>>

EndSweep(w) ==
    /\ at[w] = "remind" /\ todo[w] = {}
    /\ Goto(w, "idle")
    /\ UNCHANGED <<taskVars, todo, current, alerts, chases, stale, crashes>>

\* resolveEventWait or completeExternalTask: the task is waiting no longer.
Answer(t) ==
    /\ waiting[t] /\ waiting' = [waiting EXCEPT ![t] = FALSE]
    /\ UNCHANGED <<overdue, escalated, remind, sent, declares, at, todo, current,
                   alerts, chases, stale, crashes>>

SlaPasses(t) ==
    /\ ~overdue[t] /\ overdue' = [overdue EXCEPT ![t] = TRUE]
    /\ UNCHANGED <<waiting, escalated, remind, sent, declares, at, todo, current,
                   alerts, chases, stale, crashes>>

ReminderComesDue(t) ==
    /\ remind[t] = "scheduled" /\ remind' = [remind EXCEPT ![t] = "due"]
    /\ UNCHANGED <<waiting, overdue, escalated, sent, declares, at, todo, current,
                   alerts, chases, stale, crashes>>

\* The playbook version is rewritten without the reminder.
Redefine ==
    /\ declares /\ declares' = FALSE
    /\ UNCHANGED <<waiting, overdue, escalated, remind, sent, at, todo, current,
                   alerts, chases, stale, crashes>>

SweepCrash(w) ==
    /\ Dies(w)
    /\ todo' = [todo EXCEPT ![w] = {}]
    /\ current' = [current EXCEPT ![w] = NoCopy]
    /\ UNCHANGED <<taskVars, alerts, chases, stale>>

SweepStep(w) ==
    \/ ReadBreaches(w)  \/ MarkEscalated(w) \/ RaiseAlert(w)
    \/ ReadReminders(w) \/ ClearReminder(w) \/ RaiseChase(w)
    \/ RecordChase(w)   \/ EndSweep(w)

SweepNext ==
    \/ \E w \in Workers : SweepStep(w) \/ SweepCrash(w)
    \/ \E t \in Tasks : Answer(t) \/ SlaPasses(t) \/ ReminderComesDue(t)
    \/ Redefine

\* A worker sweeps on every pass of its loop, and time goes on.
SweepSpec ==
    /\ SweepInit /\ [][SweepNext]_sweepVars
    /\ \A w \in Workers : WF_sweepVars(SweepStep(w))
    /\ \A t \in Tasks : WF_sweepVars(ReminderComesDue(t))

-----------------------------------------------------------------------------
(***************************************************************************)
(* Properties.                                                             *)
(***************************************************************************)
\* The type invariant of the sweeps.
SweepTypeOK ==
    /\ waiting \in [Tasks -> BOOLEAN] /\ overdue \in [Tasks -> BOOLEAN]
    /\ escalated \in [Tasks -> BOOLEAN] /\ declares \in BOOLEAN
    /\ remind \in [Tasks -> {"none", "scheduled", "due"}]
    /\ sent \in [Tasks -> Nat] /\ alerts \in [Workers -> [Tasks -> Nat]]
    /\ chases \in [Tasks -> Nat] /\ stale \in [Tasks -> Nat]
    /\ at \in [Workers -> {"idle", "escalate", "alert", "remind", "mark"}]
    /\ \A w \in Workers : \A c \in todo[w] : c.task \in Tasks /\ c.sent \in Nat

\* No worker puts one breach before compliance twice, its deaths and the
\* other workers' sweeps included: it marks before it tells.  Two workers
\* whose sweeps overlap each tell it once, for markEscalated does not ask
\* whether another has marked the task since breachedSlas read it.
EscalatedOnce == \A w \in Workers : \A t \in Tasks : alerts[w][t] <= 1

\* A wait is chased at most maxReminders times, but for what is not recorded
\* yet or went unrecorded with a death, and for overlapping sweeps: each
\* record made on an outdated count adds at most two chases, its own and one
\* from the schedule it sets again.
Recording(t) == {w \in Workers : at[w] = "mark" /\ current[w].task = t}
ChaseBounded ==
    \A t \in Tasks : /\ chases[t] <= sent[t] + Cardinality(Recording(t)) + crashes
                     /\ sent[t] <= MaxReminders + 2 * stale[t]

\* Unless a worker dies over it, every breach of a task that goes unanswered
\* is put before compliance.
BreachIsAlerted ==
    \A t \in Tasks : (waiting[t] /\ overdue[t]) ~>
                         (\/ \E w \in Workers : alerts[w][t] > 0
                          \/ ~waiting[t] \/ crashes > 0)

\* Chasing ends: a wait that is never answered comes due for a reminder only
\* so often, and leaves dueReminders for good.
ChaseStops == \A t \in Tasks : <>[](remind[t] # "due" \/ ~waiting[t])

=============================================================================
