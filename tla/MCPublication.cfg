SPECIFICATION Spec
CONSTANTS
    UnsafeCrypto = FALSE
    Generations <- MCGenerations
    Selector <- MCSelector
    Policy = "public"
    LocalKeys <- MCLocalKeys
    SignerRuntime <- MCSignerRuntime
    SignerCalls <- MCSignerCalls
    VerifierRuntime <- MCVerifierRuntime
    VerifierCalls <- MCVerifierCalls
    StoreRuntime <- MCStoreRuntime
    MaxRotations = 3
    MaxTokens = 1
INVARIANTS
    WholeSets
    CallDecides
    VerifierKeysRestrict
PROPERTIES
    NeverEmptied
    SignedBecomesVerifiable
    WithdrawnDisappears
