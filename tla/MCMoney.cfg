\* Two requests under way at once at each desk, MCBudget of them in all, and
\* MCDeathsAllowed of them die.
CONSTANTS
    Clerks = {p1, p2}
    MaxRequests = 7
    MaxDeaths = 1
    LastDay = 2
    Budget <- MCBudget
    DeathsAllowed <- MCDeathsAllowed
    Engagements = {1, 2}
    Payments = {1, 2}
    Versions = {1, 2, 3}
    PaidCents = 2
    RetainerCents = 1
    FeeCents = 1
    HandCents = 1
    Term = 2
    NotFundedDays = 0
    Leads = {l1, l2}
    Terms = {1, 2}
    PayoutRows = {1}
    Clawbacks = {1, 2}
    Share <- MCShare
    CapShare = 1
    Whole = 2
    GrossCents = 3
    Qualifications = {"q1"}
    Findings = {"f1"}
    Lessons = {1, 2}
    Cadence = 1
    SeriousFindings = 1
    Referrers = {"a"}
    Corrections = {1, 2}
    MaxClients = 2
    InactivityDays = 1
    Scopes = {"s1", "s2"}
    Authorizations = {1, 2}
    Handoffs = {1}
    LastVersion = 3
SPECIFICATION MoneySpec
SYMMETRY MCAlike
INVARIANTS
    BooksAgree
    SignedTextStands
PROPERTIES
    PayoutsAreLawful
    ReferrersAreFit
    LeadsEndWhole
    PassedWithConsent
CHECK_DEADLOCK FALSE
