CONSTANTS
    n1 = n1
    d1 = d1
    d2 = d2
    read = read
    write = write
    Wildcard = Wildcard
    None = None
    Operators = {o1}
    Names = {n1}
    Devices = {d1, d2}
    Tools = {read, write}
    WriteTools = {write}
    DeviceScopes <- SomeDeviceScopes
    ToolScopes <- SomeToolScopes
    GrantChoices = {"targets"}
    Provenances <- SomeProvenances
    MaxTokens = 1
    MaxSecrets = 3
    a = a
    b = b
    hyphen = hyphen
    pay1 = pay1
    pay2 = pay2
    pol = pol
    Null = Null
    Partial = Partial
    Migrators = {m1, m2}
    InitialDocs <- SomeDocs
    ValidNames = {a, b}
    NewDevices <- TwoDevices
    Supported = 1
    Tasks = {t1, t2, t3}
    MaxConcurrent = 1
    MaxQueued = 1
    RequestTimeout = 2
    MaxResponse = 2
    MaxChunk = 2
    MaxAttempts = 2
    InitialBackoff = 1
    MaxBackoff = 2
    MaxTotalWait = 3
    MaxHttpTicks = 5
    Auditors = {s1}
    q1 = q1
    q2 = q2
    Batches <- SomeBatches
    DeviceLogs <- SomeLogs
    Missing = Missing
    Garbled = Garbled
    MaxClosed = 3
    MaxRun = 2
    MaxDamages = 2
SPECIFICATION Spec
SYMMETRY TaskSymmetry
CHECK_DEADLOCK FALSE
INVARIANTS
    
    StoreIsCurrent
    
    EditsAreSomewhere
    MemoryIsBounded
    CallsAreBounded
    VerdictIsRight
PROPERTIES
    TakingIsConfirmed
