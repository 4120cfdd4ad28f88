\* One experiment; the broker loses and repeats, reads fail.
SPECIFICATION FairSpec
CONSTANTS
    ExperimentIDs = {e1}
    Bodies <- Running
    RelevantLayers = {"sorting_layer"}
    MaxChanges = 2
    MaxRepeats = 1
    MaxLost = 1
    MaxSnapshots = 1
    MaxReadFaults = 1
PROPERTY ChangeReachesClient
CHECK_DEADLOCK FALSE
