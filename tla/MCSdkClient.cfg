\* Any three messages out of five payloads, any snapshot of them, a failed read,
\* any number of rebalances and of restarts.
SPECIFICATION SdkSpec
CONSTANTS
    e1 = e1
    e2 = e2
    Payloads <- MCPayloads
    RelevantLayers = {"sorting_layer"}
    InitialName = 9
    MaxMessages = 3
    MaxSnapshots = 1
    MaxFaults = 1
INVARIANTS
    SdkTypeOK
    VersionIsOfCache
    OneCopyPerLayer
    DeltaKeptUnlessOvertaken
PROPERTY CacheNeverGoesBack
CHECK_DEADLOCK FALSE
