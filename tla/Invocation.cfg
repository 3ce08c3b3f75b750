CONSTANTS
    Callers = {c1, c2}
    Searches = {s1}
    Proxies = {p1}
    PoolSize = 4
    CallsDuringStop = FALSE
    Nobody = Nobody
SPECIFICATION FairSpec
CHECK_DEADLOCK FALSE
INVARIANT PoolsSound
PROPERTY InvocationsReturn
PROPERTY DestroyReturns
