\* A snapshot that appears after the client has started.
SPECIFICATION FairSdkSpec
CONSTANTS
    e1 = e1
    e2 = e2
    Payloads <- MCTwoVersions
    RelevantLayers = {"sorting_layer"}
    InitialName = 9
    MaxMessages = 1
    MaxSnapshots = 2
    MaxFaults = 0
PROPERTY HealsFromSnapshot
CHECK_DEADLOCK FALSE
