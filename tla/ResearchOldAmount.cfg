SPECIFICATION Spec
CONSTANTS
    q1 = q1  q2 = q2  q3 = q3  r1 = r1  r2 = r2
    Reqs = {q1, q2}
    Rows = {r1}
    None = None
    Cap = 1
    Estimate = 2
    DayCap = 4
    MaxCost = 3
    MaxDay = 2
    MaxCrash = 1
    LongSilence = TRUE
    SettleRaces = FALSE
CHECK_DEADLOCK FALSE
SYMMETRY Symmetry
INVARIANTS
    FinalFromBooked
