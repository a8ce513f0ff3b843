\* Two workers, each claiming up to two of two tasks under one-tick leases;
\* either may die, and any pass may outlive its leases.
CONSTANTS
    Tasks = {t1, t2}
    Workers = {w1, w2}
    NoOwner = NoOwner
    RowMaxAttempts = 2
    BackoffBase = 1
    BackoffCap = 1
    LeaseLength = 1
    BatchSize = 2
    MaxTime = 2
    MaxCrashes = 1
SPECIFICATION QueueSpec
INVARIANTS
    RetryBudget
PROPERTIES
    RowsAreFenced
