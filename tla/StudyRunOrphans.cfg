SPECIFICATION Spec
CONSTANTS
    s1 = s1  s2 = s2  a1 = a1  a2 = a2  a3 = a3  b1 = b1  b2 = b2
    Studies = {s1, s2}
    Attempts = {a1, a2}
    Boots = {b1, b2}
    None = None
    Cap = 1
    Limit = 1
    UserOps = {}
    RacyClose = FALSE
    LaunchCrash = TRUE
    SlowLaunch = TRUE
    HungThread = TRUE
SYMMETRY Symmetry
CHECK_DEADLOCK FALSE
INVARIANTS
    OneActiveRun CapRespected
PROPERTIES
    ClosedRunsStayClosed
