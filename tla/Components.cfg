SPECIFICATION Spec
CHECK_DEADLOCK FALSE
INVARIANT BuiltIsReceived
INVARIANT WaitersServed
INVARIANT ChoiceArrives
INVARIANT ActivationReachesOwner
INVARIANT SettingsCurrent
INVARIANT ChoiceRemembered
INVARIANT ConfigUsable
INVARIANT LifeTimeBounded
INVARIANT WatcherSettled
INVARIANT ScopesKnown
INVARIANT ConnectedGetsAll
INVARIANT ProxyFindsServant
INVARIANT RemoteAsLocal
INVARIANT ScopeHosted
INVARIANT SubscribersInformed
INVARIANT StatusReported
