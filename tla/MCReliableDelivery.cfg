\* One event and one unacknowledged write.
SPECIFICATION Spec
CONSTANTS
    ExperimentIDs = {e1}
    Layers = {"sorting_layer"}
    Statuses = {"ACTIVE"}
    Salts = {s1}
    Handlers = {h1}
    MaxVersion = 2
    MaxStamp = 2
    Workers = {w1}
    BatchSize = 2
    MaxFaults = 1
INVARIANT ReliablyDelivered
CHECK_DEADLOCK FALSE
