\* One instance, one worker that dies once: between a task's settlement and
\* the next task or the instance's row.
CONSTANTS
    i1 = i1  w1 = w1  c1 = c1  c2 = c2  l1 = l1
    Null = Null
    Instances = {i1}
    Nodes <- MCPairNodes
    StartNode = "one"
    Definitions <- MCPair
    Workers = {w1}
    Callers = {c1}
    Listeners = {l1}
    TaskIds = {1, 2, 3}
    MaxAttempts = 2
    BatchSize = 1
    Broken <- MCBroken
    MaxMishaps = 1
SPECIFICATION EngineSafetySpec
INVARIANT NoSilentStall
CHECK_DEADLOCK FALSE
