SPECIFICATION Spec
CONSTANTS
    Serials = {s1, s2, s3}
    Handlers = {h1, h2}
    MaxRequests = 5
    FaultKinds = {"issue", "publish", "audit"}
    MaxFaults = 2
    MaxCrashes = 1
    None = None
INVARIANTS
    OneGoodPerLineage
    ListCatchesUp
    EveryChangeAudited
PROPERTIES
    CacheNeverForgets
SYMMETRY Symmetry
CHECK_DEADLOCK FALSE
