CONSTANTS
    Callers = {c1}
    Searches = {s1}
    Proxies = {p1}
    PoolSize = 4
    CallsDuringStop = TRUE
    Nobody = Nobody
SPECIFICATION FairSpec
CHECK_DEADLOCK FALSE
PROPERTIES
    DestroyReturns
