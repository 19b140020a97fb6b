\* Two calls contend for one device.
SPECIFICATION CallsSpec
CONSTANTS
    Ids = {i1}
    Principals = {alice, bob}
    Humans = {bob}
    Devices = {dev}
    Callers = {c1, c2}
    NoOne = NoOne
    Recorder = FALSE
    LabModes = {FALSE}
    ApprovalTtl = 1
    MaxChangeSets = 1
    MaxClock = 1
    OpIds = {o1}
    Mgmt = mgmt
    Endpoints <- OneEndpoint
    EndpointOf <- Aliased
    Entry = {"stage"}
    MaxOperations = 1
    RequiresLock = TRUE
    Retain = TRUE
    TaintedStage = FALSE
    ForeignEdits = FALSE
    MaxFaults = 1
PROPERTIES
    CallsReturn
