SPECIFICATION FairSpec
CONSTANTS
    N = 2
    Supported <- Mixed
    ExternalModes <- HoldOnly
    Suggestions <- ChargeOnly
    Watchdogs = {w1}
    Expiry = 0
INVARIANTS TypeOK ExternalIsTimed GridLimitsHeld
PROPERTIES Released ExternalWins
CHECK_DEADLOCK FALSE
