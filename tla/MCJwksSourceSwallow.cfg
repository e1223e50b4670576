SPECIFICATION FairSpec
CONSTANTS
    MaxGen = 2
    Undecodable = {}
    Callers = {store, app}
    Owner = store
    Watchers = {w1}
    Nobody = Nobody
PROPERTIES
    Publishes
