SPECIFICATION FairSpec
CONSTANTS
    lp1 = lp1  lp2 = lp2
    house = house  yard = yard
    NoCircuit = NoCircuit
    NoLoadpoint = NoLoadpoint
    Loadpoints <- TwoLoadpoints
    ActiveLoadpoints <- FirstThenSecond
    Circuits <- YardFirst
    Parent <- YardParent
    CircuitOf <- BothInYard
    HasMeter <- HouseHasMeter
    HasCurrents <- NoCurrents
    MaxPower <- HouseMaxPower
    MaxCurrent <- YardMaxCurrent
    Timeout = 1
    LpMinCurrent = 1
    LpMaxCurrent = 2
    LpHasCurrents <- Unmeasured
    ReportsCurrent <- FirstReports
    Unruly <- FirstUnruly
    ChargerMaxCurrent = 2
    OwnCurrents <- FoundAt
    BaseLoads <- HouseBaseLoads
    HemsLimits <- HouseHemsLimits
    Faults <- HouseFaults
INVARIANT TypeOK
PROPERTIES NeverOvercommits EveryoneUpdated OvercommitmentEnds OverloadRelieved OfflineStops
