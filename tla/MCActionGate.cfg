\* One request of either kind, three officers' acts and one death.
CONSTANTS
    Requests = {"r1"}
    Officers = {"human", "agent"}
    Humans = {"human"}
    Listings = {1, 2}
    Overrides = {1}
    Consents = {"c1"}
    Breaches <- MCBoth
    MaxActs = 3
    MaxDeaths = 1
SPECIFICATION GateSpec
INVARIANTS
    BlocksAreInForce
    StandingBlockStops
    RefusalLeadsWithTheWorst
PROPERTIES
    OneAnswer
CHECK_DEADLOCK FALSE
