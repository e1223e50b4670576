SPECIFICATION Spec
CONSTANTS
    UnsafeCrypto = FALSE
    Generations <- MCGenerations
    Selector <- MCSelector
    Policy = "public"
    LocalKeys <- MCLocalKeys
    SignerRuntime <- MCSignerRuntime
    SignerCalls <- MCSignerCalls
    VerifierRuntime <- MCVerifierRuntime
    VerifierCalls <- MCHeaderCalls
    StoreRuntime <- MCStoreRuntime
    MaxRotations = 3
    MaxTokens = 1
INVARIANT
    VerifierKeysRestrict
