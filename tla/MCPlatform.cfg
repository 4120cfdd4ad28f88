\* Two experiments, two layers, three changes (two beside snapshot-initial.json),
\* snapshots at any time, restarts.
SPECIFICATION Spec
CONSTANTS
    ExperimentIDs = {e1, e2}
    Bodies <- Movable
    RelevantLayers = {"sorting_layer"}
    MaxChanges = 3
    MaxRepeats = 0
    MaxLost = 0
    MaxSnapshots = 2
    MaxReadFaults = 0
SYMMETRY Symm
CONSTRAINT FewChangesBesideInitial
INVARIANTS
    PlatformTypeOK
    CacheIsTable
    LatestByNameIsLatest
CHECK_DEADLOCK FALSE
