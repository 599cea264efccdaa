SPECIFICATION FairSpec
CONSTANTS
    AlwaysCharges <- JustOnce
    PhaseSettings <- AutoOnly
    MinCurrent = 1
    MaxCurrent = 2
    AvailPower <- FewSurplus
    HasPhaseSwitching = FALSE
    HasCurrentGetter = TRUE
    Modes <- AllModes
    DefaultMode = "off"
    NoMode = NoMode
    EnableDelay = 1
    DisableDelay = 1
    SwitchDuration = 0
PROPERTIES OffSettles NowSettles AlwaysChargeSettles
