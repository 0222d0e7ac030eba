SPECIFICATION Spec
CONSTANTS
    Capacity = 2
    Interval = 3
    InitialBackoff = 2
    MaxBackoff = 7
    MaxReports = 5
    MaxFaults = 4
INVARIANTS
    QueuedNotLost
    FirstRecordsInOrder
    NoRepeatsWhenSure
    BackoffDoubles
PROPERTIES
    EventuallyDrained
CHECK_DEADLOCK FALSE
