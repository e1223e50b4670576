SPECIFICATION FairSpec
CONSTANTS
    plain = plain
    kept = kept
    watched = watched
    rival = rival
    idA = idA
    idB = idB
    idC = idC
    NoSource = NoSource
    IDs = {idA, idB, idC}
    Constructor = new
    Sources = {plain, kept, watched, rival}
    SourceID <- MCSourceID
    Tag <- MCSourceID
    SelfRefreshing = {kept, watched, rival}
    Configured = {plain, kept}
    Binders = {b1, b2}
    Refreshers = {r1}
    MaxVersion = 2
INVARIANTS
    TypeOK
    Provenance
    CloseReleases
    InterruptedBindIsClosed
    FailedNewKeepsNoCallback
    NoGap
    OneGeneration
PROPERTIES
    FrozenAfterClose
    CloseTerminates
    ImplementsService
