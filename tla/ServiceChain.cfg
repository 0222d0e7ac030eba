SPECIFICATION Spec
CONSTANTS
    LocalPOP = "a"
    Profiles <- SomeProfiles
    Tenants = {"t"}
    Targets <- SomeTargets
    Existing <- OneRule
    MarkBase = 10
    PreferenceBase = 20
    MaxInt = 30
    Flows <- SomeFlows
    Unset = Unset
    Lifetime = 1
    MaxIssued = 3
    MaxTime = 1
    MaxRestarts = 1
INVARIANTS
    InstalledAsSigned
    SteersToFirstHop
PROPERTY
    NeverOlder
CHECK_DEADLOCK FALSE
