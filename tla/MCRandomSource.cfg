SPECIFICATION FairSpec
CONSTANTS
    Lifetime = 3
    Width = 8
    MaxTime = 13
    MaxLag = 5
    MaxFaults = 1
INVARIANTS
    TypeOK
    SigningAvailable
    VerifiableForLifetime
PROPERTIES
    PrePublished
    WatcherStops
