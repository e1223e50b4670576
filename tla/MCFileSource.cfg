SPECIFICATION Spec
CONSTANTS
    NFiles = 1
    Blocks = 1
    MaxGen = 2
    Unbuildable = {}
    Monitor = TRUE
    Callers = {store, app}
    Owner = store
    Watchers = {w1, w2}
INVARIANTS
    TypeOK
    SingleWatcher
PROPERTIES
    NoStartAfterClose
