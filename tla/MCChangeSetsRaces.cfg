\* Two callers race on one change set; the server may restart with or without
\* lab mode, and the clock passes both the approval TTL and a waiver's expiry.
SPECIFICATION Spec
CONSTANTS
    Ids = {i1}
    Principals = {alice, bob}
    Humans = {bob}
    Devices = {dev}
    Callers = {c1, c2}
    NoOne = NoOne
    Recorder = TRUE
    LabModes = {TRUE, FALSE}
    ApprovalTtl = 1
    MaxChangeSets = 1
    MaxClock = 2
SYMMETRY Symmetry
INVARIANTS
    TypeOK
    OneApprovalOneRun
    ClaimNotForgotten
    TrailIsPersisted
    FileLoadable
PROPERTIES
    RetiredNeverRuns
    RunsAreAuthorised
    ImplementsOneShot
