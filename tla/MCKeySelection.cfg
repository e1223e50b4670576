SPECIFICATION Spec
CONSTANTS
    UnsafeCrypto = FALSE
    Deliveries <- MCDeliveries
    Requests <- MCRequests
    MaxTime = 3
    Goroutines = {g1, g2}
INVARIANTS
    TypeOK
    OneSignaturePerSigner
    ChosenImplements
    SignedCanBeVerified
PROPERTIES
    SelectionCorrect
