SPECIFICATION FairSpec
CONSTANTS
    AlwaysCharges <- NeverAlways
    PhaseSettings <- AutoOr1
    MinCurrent = 1
    MaxCurrent = 2
    AvailPower <- FewSurplus
    HasPhaseSwitching = TRUE
    HasCurrentGetter = TRUE
    Modes <- OffAndSmart
    DefaultMode = NoMode
    NoMode = NoMode
    EnableDelay = 1
    DisableDelay = 1
    SwitchDuration = 0
PROPERTIES FixedPhasesHonourOff
