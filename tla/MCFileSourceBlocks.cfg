SPECIFICATION Spec
CONSTANTS
    NFiles = 1
    Blocks = 2
    MaxGen = 2
    Unbuildable = {}
    Monitor = TRUE
    Callers = {store}
    Owner = store
    Watchers = {w1}
PROPERTIES
    PartialWriteKeepsKeys
