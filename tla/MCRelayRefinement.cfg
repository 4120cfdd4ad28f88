\* One worker, as the compose file runs it, and one experiment: a create, and
\* then updates and a delete that race.  Four events and batches of two: a poll
\* can leave some behind, and an event can be committed while the worker
\* publishes older ones.  No SYMMETRY, for the properties are temporal.
SPECIFICATION FairSpec
CONSTANTS
    ExperimentIDs = {e1}
    Layers = {"sorting_layer"}
    Statuses = {"ACTIVE"}
    Salts = {s1}
    Handlers = {h1, h2}
    MaxVersion = 3
    MaxStamp = 4
    Workers = {w1}
    BatchSize = 2
    MaxFaults = 2
INVARIANTS
    PerExperimentOrder
    TopicEndsAtTable
PROPERTIES
    FeedRefinement
    OutboxDrains
CHECK_DEADLOCK FALSE
