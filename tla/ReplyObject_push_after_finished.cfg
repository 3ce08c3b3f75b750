SPECIFICATION Spec
CONSTANTS
    Workers = {w1}
    MaxCalls = 2
    Cardinality_ = 0
    DontReap = {FALSE}
    SlowAdd = FALSE
    Client = client
    ReapThread = reaper
    Stopper = stopper
    Adapter = adapter
CHECK_DEADLOCK FALSE
PROPERTIES
    NoPushAfterFinished
