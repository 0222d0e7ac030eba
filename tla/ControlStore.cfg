SPECIFICATION Spec
CONSTANTS
    Tenants = {t1}
    Objects = {o1}
    Handlers = {h1, h2}
    MaxRequests = 3
    MaxCrashes = 1
    MaxBackups = 1
SYMMETRY Symmetry
CHECK_DEADLOCK FALSE
INVARIANTS
    TrailExplainsStore
    DiskIsPast
    Durable
PROPERTIES
    ImplementsAuditLog
