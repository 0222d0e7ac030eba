SPECIFICATION SelectorSpec
CONSTANTS
    MaxTargets = 12
    Rtts = {1, 249, 251}
INVARIANTS
    SignalsAreExact
    NoKnownBadSelected
