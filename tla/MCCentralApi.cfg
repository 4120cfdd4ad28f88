\* Two experiments, three requests in flight; every pair of handlers meets on
\* one row and a third request can delete it between their steps.
SPECIFICATION ApiSpec
CONSTANTS
    ExperimentIDs = {e1, e2}
    Layers = {"sorting_layer"}
    Statuses = {"", "ACTIVE"}
    Salts = {s1, s2}
    Handlers = {h1, h2, h3}
    MaxVersion = 3
    MaxStamp = 4
SYMMETRY ApiSymmetry
INVARIANTS
    TypeOK
    ReplayYieldsTable
    RowLivesUntilDeleted
    DeletedOnce
    SaltStable
PROPERTY TableRefinement
\* The model stops when the bounds are used up.
CHECK_DEADLOCK FALSE
