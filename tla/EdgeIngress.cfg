SPECIFICATION Spec
CONSTANTS
    Conns = {1, 2}
    Requests = {3, 4, 5, 6}
    t1 = t1
    tbad = tbad
    k1 = k1
    NoKey = NoKey
    Tokens = {t1, tbad}
    Keys = {k1}
    CredentialKey <- OneCredential
    Nodes = {1, 2}
    Reachable = {2}
    Loads <- SomeLoads
    Limit = 2
    Window = 2
    Ttl = 1
    HasReadTimeout = TRUE
    MaxClock = 3
    Bounds <- SomeBounds
INVARIANTS
    RateBound
    NoSocketLeaks
PROPERTIES
    NoCandidateSkipped
    ShutdownCompletes
CHECK_DEADLOCK FALSE
