\* What the comment on the snapshots' names says.
SPECIFICATION Spec
CONSTANTS
    ExperimentIDs = {e1, e2}
    Bodies <- Stoppable
    RelevantLayers = {"sorting_layer"}
    MaxChanges = 3
    MaxRepeats = 0
    MaxLost = 0
    MaxSnapshots = 2
    MaxReadFaults = 0
INVARIANT LastNameIsNewest
CHECK_DEADLOCK FALSE
