\* Two updates of one experiment in flight together.  No SYMMETRY: the property
\* is an action property.
SPECIFICATION ApiSpec
CONSTANTS
    ExperimentIDs = {e1}
    Layers = {"sorting_layer"}
    Statuses = {"ACTIVE"}
    Salts = {s1}
    Handlers = {h1, h2}
    MaxVersion = 3
    MaxStamp = 3
PROPERTY VersionsChronological
CHECK_DEADLOCK FALSE
