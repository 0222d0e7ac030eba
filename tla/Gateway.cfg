SPECIFICATION GatewaySpec
CONSTANTS
    Addresses = {1, 2, 3, 4}
    V4 = {1, 2, 3}
    PolicyTenants = {1, 2}
    PolicySets <- SomePolicies
    ClassRules <- SomeClassRules
    Logs <- SomeLogs
    SourceCIDR = {10}
    AnyValue = AnyValue
    TableOf <- TwoTables
    BaseRules <- OneBaseRule
    DestOptions <- SomeDestinations
    PolicyMarkBase = 70
    PolicyPreferenceBase = 80
    MaxCalls = 3
    MaxFaults = 2
INVARIANTS
    ObservedRoutedAsDecided
    RolledBackIsGone
    FailedApplyMarksNothing
CHECK_DEADLOCK FALSE
