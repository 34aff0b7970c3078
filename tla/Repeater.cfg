SPECIFICATION RepeaterSpec
CONSTANTS
    Keys = {k1, k2, k3, own}
    Own = {own}
    Local = {}
    NoEntry = NoEntry
    DEDUP_SIZE = 3
    DEDUP_TTL_MS = 3
    FWD_MAX_PER_MIN = 2
    MINUTE = 4
    CLOCK = 11
    MaxElapsed = 7
    MaxEvicted = 2
SYMMETRY Symmetry
INVARIANTS
    TypeOK
    RecognisedWithinTTL
    ForgottenAfterTTL
    RateBounded
PROPERTIES
    EvictionMeansCrowded
    RefusedOnlyWhenBusy
