\* Every kind of call with two retries, the SDK's default.
CONSTANTS
    MaxRetries = 2
    Kinds = {"json", "multipart", "stream", "download"}
    ProviderFailures = {"plain", "sdk"}
SPECIFICATION FairSpec
INVARIANTS TypeOK ContextsAreReleased ProtectedMutationIsAppliedOnce RefusalIsHonest
PROPERTIES ImplementsContract CallEnds
CHECK_DEADLOCK FALSE
