\* Two requests under way at once at each door, a handful of them in all, and
\* at the account's and the staff's one of them dies.
CONSTANTS
    Calls = {p1, p2}
    Invitations = {1}
    Resets = {1}
    Moves = {1}
    Sessions = {1}
    Passwords = {1, 2}
    Passkeys = 2
    MaxFailedAttempts = 2
    MaxBegun = 6
    MaxCrashes = 1
    Answers = {p1, p2}
    Factors = {1, 2}
    Challenges = {1, 2}
    KeyChallenges = {1, 2}
    Codes = {1, 2}
    Keys = {k1}
    MaxChallengeAttempts = 2
    LastStep = 2
    MaxAnswers = 5
    Staffers = {p1, p2}
    StaffKeys = {sk1, sk2}
    StaffInvitations = {1, 2}
    StaffChallenges = {1}
    StaffSessions = {1, 2}
    StaffMaxFailed = 2
    MaxStaffCalls = 5
    MaxStaffDeaths = 1
    Instances = {"i1", "i2"}
    Attempts = {p1, p2}
    WindowTicks = 2
    MaxAttempts = 2
    SweepEvery = 2
    LastTick = 5
SPECIFICATION IdentitySpec
SYMMETRY MCAlike
INVARIANTS
    CredentialsAgree
    SingleUse
    BudgetHolds
PROPERTIES
    OutMeansOut
CHECK_DEADLOCK FALSE
