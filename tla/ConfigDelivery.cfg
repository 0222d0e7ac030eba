\* The unsigned rounds with upserts, saves, late answers, the local API and restarts of both
\* sides; the signed ones beside them with two handlers that rotate the key, and with a
\* pinned key that comes with the first rotation or without one.
CONSTANTS
    MaxId = 2
    MaxVersion = 2
    Modes = {"poll", "watch", "signed", "keyrefresh", "signedwatch"}
    Rotators = {r1, r2}
    Pins <- NoneOrFirst
    MaxUpserts = 2
    MaxRotations = 3
    Budget <- ChangesIn
    MaxLocal = 1
    MaxFaults = 2
SPECIFICATION FairSpec
INVARIANTS CacheIsCurrent PinHolds SignerIsDurable NewestSelected
PROPERTIES NeverBackwards EventuallyDelivered
CHECK_DEADLOCK FALSE
