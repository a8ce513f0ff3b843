\* One instance, one worker, two callers and a listener; one death or one
\* overlap of completions; and a definition published over the one the
\* instance is pinned to.
CONSTANTS
    i1 = i1  w1 = w1  c1 = c1  c2 = c2  l1 = l1
    Null = Null
    Instances = {i1}
    Nodes <- MCWalkNodes
    StartNode = "signed"
    Definitions <- MCRewritten
    Workers = {w1}
    Callers = {c1, c2}
    Listeners = {l1}
    TaskIds = {1, 2, 3, 4, 5, 6, 7, 8}
    MaxAttempts = 2
    BatchSize = 1
    Broken <- MCBroken
    MaxMishaps = 1
SPECIFICATION EngineSpec
INVARIANTS
    
    PatchesSurvive
PROPERTIES
    
    WorkEnds
