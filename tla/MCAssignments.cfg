\* Two calls that decide on two experiments, faults of everybody.
SPECIFICATION FairSpec
CONSTANTS
    ExperimentIDs = {e1, e2}
    MaxCalls = 2
    MaxEvents = 2
    MaxWriteFaults = 1
    MaxReadFaults = 2
INVARIANTS
    AssignmentsTypeOK
    ReportedOnce
    PrintedOnce
    OneMessagePerFault
PROPERTIES
    ClosedIsSilent
    DecisionReachesReader
CHECK_DEADLOCK FALSE
