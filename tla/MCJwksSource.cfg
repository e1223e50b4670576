SPECIFICATION HangingSpec
CONSTANTS
    MaxGen = 3
    Undecodable = {2}
    Callers = {store, app}
    Owner = store
    Watchers = {w1, w2}
    Nobody = Nobody
INVARIANTS
    TypeOK
    SingleWatcher
PROPERTIES
    CloseEndsLoads
    PublishesToOwner
