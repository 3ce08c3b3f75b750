SPECIFICATION Spec
CONSTANTS
    ScopeThreads = {t1, t2}
    Categories = {c1, c2}
    Scopes = {A, B}
    Client = ui
    Details = {d1}
    ReplyThread = r
    OtherThreads = {o1}
CHECK_DEADLOCK FALSE
SYMMETRY Symmetry
INVARIANT NoQueryLoop
INVARIANT CancelForwarded
INVARIANT ForwardedInTurn
PROPERTY CacheKept
