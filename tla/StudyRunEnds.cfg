SPECIFICATION FairSpec
CONSTANTS
    s1 = s1  s2 = s2  a1 = a1  a2 = a2  a3 = a3  b1 = b1  b2 = b2
    Studies = {s1}
    Attempts = {a1}
    Boots = {b1, b2}
    None = None
    Cap = 1
    Limit = 1
    UserOps = {"cancel", "complete", "archive", "delete"}
    RacyClose = TRUE
    LaunchCrash = TRUE
    SlowLaunch = FALSE
    HungThread = FALSE
CHECK_DEADLOCK FALSE
PROPERTIES
    EveryRunEnds EveryStudySettles
