\* Two workers, as during a rolling restart or when the service is scaled:
\* SKIP LOCKED lets them work on disjoint batches of one event or two.
SPECIFICATION Spec
CONSTANTS
    ExperimentIDs = {e1, e2}
    Layers = {"sorting_layer"}
    Statuses = {"ACTIVE"}
    Salts = {s1}
    Handlers = {h1}
    MaxVersion = 3
    MaxStamp = 3
    Workers = {w1, w2}
    BatchSize = 2
    MaxFaults = 2
SYMMETRY RelaySymmetry
INVARIANTS
    RelayTypeOK
    NothingForgotten
    BatchesDisjoint
    RepeatedOnlyAfterFault
CHECK_DEADLOCK FALSE
