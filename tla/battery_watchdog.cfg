SPECIFICATION Spec
CONSTANTS
    N = 1
    Supported <- Full
    ExternalModes <- HoldOrCharge
    Suggestions <- ChargeOnly
    Watchdogs = {w1}
    Expiry = 1
INVARIANTS ExternalIsWatched
CHECK_DEADLOCK FALSE
