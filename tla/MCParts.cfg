CONSTANTS
    Callers = {c1, c2}
    Keys = {"k1", "k2"}
    MaxBuckets = 1
    Second = 2
    Rate = 1
    Burst = 2
    MaxTicks = 5
    MaxChecks = 6
    Servers = {s1, s2}
    Repairs = {p1, p2}
    Persisted = {o1, o2}
    MaxEnds = 3
    Nobody = Nobody
    Verifiers = {v1, v2, v3}
    RefreshInterval = 2
    RetryBackoff = 2
    MaxKeyAge = 4
    MaxKeyTicks = 8
    Deadline = 5
    FirstInterval = 1
    MaxInterval = 3
    Multiplier = 2
    MaxPollTicks = 7
    PermissionBits = {"owner", "others"}
    SpecialBits = {"setuid"}
    MaxSize = 2
    MaxTransfers = 3
SPECIFICATION Spec
CHECK_DEADLOCK FALSE
INVARIANTS
    LimiterIsExact
    ResolutionHolds
    OutageIsBounded
    PollOutcome
    TransferIsSafe
