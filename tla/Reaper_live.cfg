SPECIFICATION FairSpec
CONSTANTS
    Items = {i1, i2}
    Threads = {t1}
    ReapThread = reap
    NoItem = noItem
    Policy = "CallbackOnDestroy"
    Expiries = {"finite", "infinite"}
    ReapInterval = 1
    ExpiryInterval = 1
    MaxTime = 1
    CallbackOps = {"cancel"}
    ReleaseEarly = FALSE
    PromptReaper = FALSE
PROPERTY ReaperReturns
CHECK_DEADLOCK FALSE
