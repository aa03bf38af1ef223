SPECIFICATION Spec
CONSTANTS
    s1 = s1  s2 = s2  a1 = a1  a2 = a2  a3 = a3  b1 = b1  b2 = b2
    Studies = {s1}
    Attempts = {a1, a2}
    Boots = {b1, b2}
    None = None
    Cap = 2
    Limit = 1
    UserOps = {"cancel", "complete", "archive", "delete"}
    RacyClose = FALSE
    LaunchCrash = FALSE
    SlowLaunch = FALSE
    HungThread = FALSE
SYMMETRY Symmetry
CHECK_DEADLOCK FALSE
INVARIANTS
    TypeOK RunAndStudyAgree SeatFollowsRun CancelNeverCompletes
PROPERTIES
    ArchivedIsFinal SeatReturnedOnce ClaimedOnce ImplementsLedger
