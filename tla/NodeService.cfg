SPECIFICATION NodeSpec
CONSTANTS
    Workers = {"sync", "watch"}
    e0 = e0
    e1 = e1
    NoEndpoint = NoEndpoint
    Contents <- SomeContents
    Registrations <- SomeRegistrations
    Endpoints = {e0, e1}
    FlagEndpoint = NoEndpoint
    MaxId = 2
    MaxUpserts = 2
    MaxFaults = 2
INVARIANTS
    VersionNamesValues
PROPERTIES
    RecordConverges
CHECK_DEADLOCK FALSE
