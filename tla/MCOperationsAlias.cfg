\* apply_change_set through two names of one endpoint, no device lock asked for,
\* nobody else editing.
SPECIFICATION Spec
CONSTANTS
    OpIds = {o1, o2}
    Devices = {d1, d2}
    Mgmt = mgmt
    Endpoints <- OneEndpoint
    EndpointOf <- Aliased
    Callers = {c1, c2}
    NoOne = NoOne
    Entry = {"apply"}
    MaxOperations = 2
    RequiresLock = FALSE
    Retain = FALSE
    TaintedStage = FALSE
    ForeignEdits = FALSE
    MaxFaults = 1
SYMMETRY Symmetry
INVARIANTS
    OneActivePerEndpoint
PROPERTIES
    StagedUndisturbed
