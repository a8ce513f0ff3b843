\* Two workers and one death.  Scheduler: four ticks, three operator acts.
\* Listener: two events and one change of configuration.  Sweeps: one parked
\* task.
CONSTANTS
    Workers = {"w1", "w2"}
    MaxCrashes = 1
    Schedules = {"s1"}
    Crons = {2, 3}
    MaxTime = 4
    NextOccurrence <- MCNext
    Grace = 1
    MaxEdits = 3
    NoRow = NoRow
    EventTypes = {"uploaded", "other"}
    Triggers = {"screened"}
    TypeOf <- MCTypeOf
    Conditional = {"screened"}
    Waits = {"k1"}
    Awaits <- MCAwaits
    MaxEvents = 2
    MaxToggles = 1
    NoTrigger = "none"
    Tasks = {"t1"}
    MaxReminders = 2
SPECIFICATION PassesSpec
INVARIANTS
    TakenOnce
    ClaimedIsVisible
    NoEventSkipped
CHECK_DEADLOCK FALSE
