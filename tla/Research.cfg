SPECIFICATION Spec
CONSTANTS
    q1 = q1  q2 = q2  q3 = q3  r1 = r1  r2 = r2
    Reqs = {q1, q2, q3}
    Rows = {r1, r2}
    None = None
    Cap = 2
    Estimate = 2
    DayCap = 4
    MaxCost = 1
    MaxDay = 1
    MaxCrash = 1
    LongSilence = TRUE
    SettleRaces = FALSE
SYMMETRY Symmetry
CHECK_DEADLOCK FALSE
INVARIANTS
    TypeOK SlotsExact OnePipelinePerRow BooksExact
PROPERTIES
    WholeIsKept
