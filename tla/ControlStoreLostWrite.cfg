SPECIFICATION Spec
CONSTANTS
    Tenants = {t1}
    Objects = {o1}
    Handlers = {h1, h2}
    MaxRequests = 3
    MaxCrashes = 0
    MaxBackups = 0
SYMMETRY Symmetry
CHECK_DEADLOCK FALSE
INVARIANTS
    DurableAtRest
