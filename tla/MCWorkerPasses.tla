--------------------------- MODULE MCWorkerPasses ---------------------------
(***************************************************************************)
(* The passes a worker makes on every turn of its loop (worker.ts): the    *)
(* scheduler's, the listener's and the sweeps at the head of tick.  They   *)
(* touch disjoint tables, so each behaviour follows one of them, `focus`,  *)
(* and every interleaving of two workers' passes of that kind.             *)
(***************************************************************************)
EXTENDS Scheduler, EventListener, TickSweeps

VARIABLE focus

passesVars == <<schedulerState, listenerState, sweepState, at, crashes, focus>>

\* One schedule comes every two ticks, or every three once it is edited.
MCNext   == [c \in Crons |-> [t \in Times |-> c * (t \div c + 1)]]
MCTypeOf == [g \in Triggers |-> "uploaded"]
MCAwaits == [k \in Waits |-> "uploaded"]

Scheduling(A) == focus = "scheduler" /\ A /\ UNCHANGED <<listenerState, sweepState, focus>>
Listening(A)  == focus = "listener" /\ A /\ UNCHANGED <<schedulerState, sweepState, focus>>
Sweeping(A)   == focus = "sweeps" /\ A /\ UNCHANGED <<schedulerState, listenerState, focus>>

PassesInit ==
    /\ SchedulerInit /\ ListenerInit /\ SweepInit
    /\ focus \in {"scheduler", "listener", "sweeps"}

PassesNext ==
    \/ Scheduling(SchedulerNext)
    \/ Listening(ListenerNext)
    \/ Sweeping(SweepNext)

\* The fairness of SchedulerSpec, ListenerSpec and SweepSpec.
PassesSpec ==
    /\ PassesInit /\ [][PassesNext]_passesVars
    /\ \A w \in Workers : WF_passesVars(\/ Scheduling(SchedulerStep(w))
                                        \/ Listening(ListenerStep(w))
                                        \/ Sweeping(SweepStep(w)))
    /\ \A t \in Tasks : WF_passesVars(Sweeping(ReminderComesDue(t)))

\* The type invariant of whichever part is followed.
PassesTypeOK ==
    /\ focus = "scheduler" => SchedulerTypeOK
    /\ focus = "listener"  => ListenerTypeOK
    /\ focus = "sweeps"    => SweepTypeOK

\* What overlapping passes take is taken once: an occurrence, a trigger's
\* event, a wait, and by each worker a breach; and no backlog of occurrences
\* is worked off, nor a wait chased further than overlapping sweeps explain.
TakenOnce ==
    /\ PassesTypeOK
    /\ OccurrenceFiresOnce /\ NoBacklog
    /\ FiredAtMostOnce /\ ResumedOnce
    /\ EscalatedOnce /\ ChaseBounded

\* The sweeps finish what they begin: breaches are put before compliance, and
\* chasing ends.
SweepsFinish == BreachIsAlerted /\ ChaseStops
=============================================================================
