SPECIFICATION Spec
CONSTANTS
    Items = {i1, i2}
    Threads = {t1, t2}
    ReapThread = reap
    NoItem = noItem
    Policy = "CallbackOnDestroy"
    Expiries = {"finite", "infinite"}
    ReapInterval = 1
    ExpiryInterval = 1
    MaxTime = 2
    CallbackOps = {"add", "refresh", "cancel"}
    ReleaseEarly = FALSE
    PromptReaper = FALSE
INVARIANTS
    TypeOK
    CancelIsFinal
    IteratorsValid
    LruOrder
PROPERTY ImplementsLifeCycle
CHECK_DEADLOCK FALSE
SYMMETRY Symmetry
