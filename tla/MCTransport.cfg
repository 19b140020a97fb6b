CONSTANTS
    r1 = r1  r2 = r2  r3 = r3
    alice = alice  bob = bob
    Requests = {r1, r2, r3}
    Tokens = {alice, bob}
    TokenOf <- OwnersOfThree
    Targets = {d1}
    Configurations <- TightOrShared
    MaxPerTarget = 1
    MaxSessions = 1
    MaxSessionsPerToken = 1
    IdleTimeout = 1
    MaxLifetime = 2
    None = None
SPECIFICATION Spec
SYMMETRY SameOwner
INVARIANTS
    SessionsAreAccounted
    LimitsHold
    NoOrphanSession
