\* Two workers and nobody dies.  Scheduler: four ticks, two operator acts.
\* Listener: two events and one change of configuration.  Sweeps: one parked
\* task.
CONSTANTS
    Workers = {"w1", "w2"}
    MaxCrashes = 0
    Schedules = {"s1"}
    Crons = {2, 3}
    MaxTime = 4
    NextOccurrence <- MCNext
    Grace = 1
    MaxEdits = 2
    NoRow = NoRow
    EventTypes = {"uploaded", "other"}
    Triggers = {"plain"}
    TypeOf <- MCTypeOf
    Conditional = {}
    Waits = {"k1"}
    Awaits <- MCAwaits
    MaxEvents = 2
    MaxToggles = 1
    NoTrigger = "none"
    Tasks = {"t1"}
    MaxReminders = 2
SPECIFICATION PassesSpec
PROPERTIES
    DueIsTaken
    CatchesUp
    SweepsFinish
CHECK_DEADLOCK FALSE
