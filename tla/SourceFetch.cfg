SPECIFICATION FairSpec
CONSTANTS
    t1 = t1  t2 = t2  p1 = p1
    Threads = {t1, t2}
    Pages = {p1}
    Objects = {}
    Indexes = {}
    Threshold = 2
    Cooldown = 2
    Retries = 1
    Gap = 1
    MaxWait = 1
CHECK_DEADLOCK FALSE
INVARIANTS
    TypeOK HostSpared CacheHonest
PROPERTIES
    DownHoldsNobody
