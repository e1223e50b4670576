SPECIFICATION Spec
CONSTANTS
    UnsafeCrypto = FALSE
    Exported <- MCExported
    Pairs = {"p1", "p2", "p3"}
    MaxTrips = 1
    MaxAlters = 0
INVARIANTS
    RestrictionsPreserved
