SPECIFICATION Spec
CONSTANTS
    m1 = m1
    m2 = m2
    gaps = gaps
    g1 = g1
    Missions = {m1, m2}
    Gaps = gaps
    Augmented = {m1}
    Regens = {g1}
    MaxAttempt = 3
    MaxVersion = 2
    Overlap = FALSE
INVARIANTS
    TypeOK
    TailFollowsMissions
PROPERTIES
    NothingPaidInVain
    ReportKept
    RegenKeepsWhole
