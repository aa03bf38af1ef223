SPECIFICATION FairSpec
CONSTANTS
    m1 = m1  m2 = m2  gaps = gaps
    Missions = {m1, m2}
    Gaps = gaps
    LlmCap = 3
    ToolCap = 1
    Budget = 1
    Retries = 1
CHECK_DEADLOCK FALSE
INVARIANTS
    TypeOK StopsSpending
PROPERTIES
    PassEnds
