\* stage_operation under a device lock: two callers, two operations in a store
\* that holds one, any reply may fail, two writes may fail, restarts.
SPECIFICATION Spec
CONSTANTS
    OpIds = {o1, o2}
    Devices = {d1}
    Mgmt = mgmt
    Endpoints <- OneEndpoint
    EndpointOf <- Aliased
    Callers = {c1, c2}
    NoOne = NoOne
    Entry = {"stage"}
    MaxOperations = 1
    RequiresLock = TRUE
    Retain = TRUE
    TaintedStage = TRUE
    ForeignEdits = TRUE
    MaxFaults = 2
SYMMETRY Symmetry
INVARIANTS
    TypeOK
    LockIsRecorded
    ResidueIsRecorded
    RecordsTellTheTruth
PROPERTIES
    StagedOnWhatWasObserved
    SettledStaysSettled
