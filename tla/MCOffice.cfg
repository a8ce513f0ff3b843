\* Two requests under way at once at each desk, MCBudget of them in all, and
\* MCDeathsAllowed of them die.
CONSTANTS
    Clerks = {p1, p2}
    MaxRequests = 6
    MaxDeaths = 1
    LastDay = 1
    Budget <- MCBudget
    DeathsAllowed <- MCDeathsAllowed
    Holds = {"h1"}
    StaleAfter = 0
    Providers = {pa, pb}
    Dimensions = {"score"}
    Scores = {1, 2}
    Weights = {1, 2}
    FlagThreshold = 2
    MaximumCadence = 1
    Editions = {1}
    Documents <- MCDocuments
    Bills = {b1, b2}
    NotFundedDays = 0
    Conditions <- MCConditions
    Sentences = {"amount", "rate", "hope"}
    Fires <- MCFires
    Transcripts <- MCTranscripts
    Phrases = {"ours", "banned"}
    Proposed = "ours"
    Copies <- MCCopies
    Arms = {"A", "B"}
SPECIFICATION OfficeSpec
SYMMETRY MCAlike
INVARIANTS
    RowsAgree
    OnlyReviewedGoesOut
    DecisionsAreHeard
    RoutesMeetTheirGates
    ProofsDoNotAddUp
    PromisesAreAnswered
PROPERTIES
    ProvidersAreGoverned
    WalksGoByEvidence
    HoldsPreserve
CHECK_DEADLOCK FALSE
