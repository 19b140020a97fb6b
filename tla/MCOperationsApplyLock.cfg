\* apply_change_set under a device lock.
SPECIFICATION Spec
CONSTANTS
    OpIds = {o1}
    Devices = {d1}
    Mgmt = mgmt
    Endpoints <- OneEndpoint
    EndpointOf <- Aliased
    Callers = {c1}
    NoOne = NoOne
    Entry = {"apply"}
    MaxOperations = 1
    RequiresLock = TRUE
    Retain = FALSE
    TaintedStage = FALSE
    ForeignEdits = TRUE
    MaxFaults = 0
INVARIANTS
    LockIsRecorded
