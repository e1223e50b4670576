SPECIFICATION Spec
CONSTANTS
    UnsafeCrypto = FALSE
    Exported <- MCExported
    Pairs = {"p1", "p2", "p3"}
    MaxTrips = 2
    MaxAlters = 2
INVARIANTS
    SecretsStay
    RoundTrip
    DecodedIsConsistent
