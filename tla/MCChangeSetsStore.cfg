\* Three plans of one owner compete for two places: sweep, eviction, the one
\* pending slot per owner and device, and every failure of the two writes.
SPECIFICATION Spec
CONSTANTS
    Ids = {i1, i2, i3}
    Principals = {alice}
    Humans = {}
    Devices = {dev}
    Callers = {c1}
    NoOne = NoOne
    Recorder = FALSE
    LabModes = {FALSE}
    ApprovalTtl = 1
    MaxChangeSets = 2
    MaxClock = 1
SYMMETRY Symmetry
INVARIANTS
    StoreWithinLimits
