\* Any changes of two experiments in two layers, deletions, restarts and an end.
SPECIFICATION Spec
CONSTANTS
    e1 = e1
    e2 = e2
    ExperimentIDs = {e1, e2}
    Layers = {"sorting_layer", "other_layer"}
    Bodies <- MCBodies
    RelevantLayers = {"sorting_layer"}
    Users = {"", "u1", "u2"}
    Contexts <- MCContexts
    Bucket <- MCBucket
    Numbers = {5, 6, 7, 1000000}
    Widened <- MCWidened
    UintSize = 32
INVARIANTS
    DecisionTypeOK
    ClientAgreesWithApi
    SortAppPicksOne
    BucketsAsDocumented
PROPERTY ChangesOnlyItsOwn
CHECK_DEADLOCK FALSE
