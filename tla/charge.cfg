SPECIFICATION Spec
CONSTANTS
    AlwaysCharges <- NeverAlways
    PhaseSettings <- AutoOr3
    MinCurrent = 1
    MaxCurrent = 2
    AvailPower <- Surplus
    HasPhaseSwitching = TRUE
    HasCurrentGetter = TRUE
    Modes <- NowAndSmart
    DefaultMode = "now"
    NoMode = NoMode
    EnableDelay = 1
    DisableDelay = 1
    SwitchDuration = 0
INVARIANTS TypeOK Agreement NoSurge
