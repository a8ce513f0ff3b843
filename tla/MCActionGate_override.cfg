\* Two placements; a listing and an override.
CONSTANTS
    Requests = {"r1", "r2"}
    Officers = {"human"}
    Humans = {"human"}
    Listings = {1}
    Overrides = {1}
    Consents = {"c1"}
    Breaches = {}
    MaxActs = 2
    MaxDeaths = 0
SPECIFICATION GateSafetySpec
INVARIANT OverridePermitsOneAction
CHECK_DEADLOCK FALSE
