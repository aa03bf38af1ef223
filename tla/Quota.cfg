SPECIFICATION Spec
CONSTANTS
    l1 = l1  l2 = l2  l3 = l3  u1 = u1  u2 = u2
    Launches = {l1, l2, l3}
    Users = {u1, u2}
    Nobody = Nobody
    Limit = 2
    LifeLimit = 1
    UserLimit = 1
    MonthLen = 2
    MaxTime = 6
    LongRuns = FALSE
    SameSecond = FALSE
    TierRaces = FALSE
SYMMETRY Symmetry
CHECK_DEADLOCK FALSE
INVARIANTS
    TypeOK NeverUnderCounted UserNeverOver LifetimeNeverOver
