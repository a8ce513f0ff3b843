CONSTANTS
    Clerks = {p1, p2}
    MaxRequests = 5
    MaxDeaths = 0
    LastDay = 1
    Holds = {"h1"}
    StaleAfter = 0
SPECIFICATION RecordsSpec
PROPERTIES
    HoldsStopExports
CHECK_DEADLOCK FALSE
