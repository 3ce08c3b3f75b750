CONSTANTS
    Callers = {c1, c2}
    Workers = {w1, w2}
    Requests = {r1, r2}
    NoRequest = NoRequest
    NoCaller = NoCaller
SPECIFICATION FairSpec
CHECK_DEADLOCK FALSE
INVARIANT AdapterClean
PROPERTY AdapterServes
