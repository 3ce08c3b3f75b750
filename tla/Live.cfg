CONSTANTS
    Workers = {w1}
    MaxCalls = 3
    Cardinality_ = 1
    DontReap = {TRUE, FALSE}
    SlowAdd = FALSE
    Client = client
    ReapThread = reaper
    Stopper = stopper
    Adapter = adapter
SPECIFICATION LiveSpec
CHECK_DEADLOCK FALSE
INVARIANT ReplySound
PROPERTY ReplyEnds
PROPERTY RegistryServes
PROPERTY RemoteQueriesEnd
PROPERTY ServersEnd
PROPERTY ScopesAnswer
