SPECIFICATION FairSpec
CONSTANTS
    NFiles = 2
    Blocks = 1
    MaxGen = 2
    Unbuildable <- MCUnbuildable
    Monitor = TRUE
    Callers = {store}
    Owner = store
    Watchers = {w1}
INVARIANTS
    SnapshotIsPublished
PROPERTIES
    PartialWriteKeepsKeys
    Converges
    WatcherStops
