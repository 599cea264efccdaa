SPECIFICATION SelectFairSpec
CONSTANTS
    lp1 = lp1  lp2 = lp2
    v1 = v1 v2 = v2
    p1 = p1 p2 = p2
    NoLoadpoint = NoLoadpoint
    NoVehicle = NoVehicle
    NoCall = NoCall
    Loadpoints <- TwoLoadpoints
    Vehicles <- TwoVehicles
    Procs <- TwoProcs
INVARIANT NoLockCycle
PROPERTY CallsReturn
