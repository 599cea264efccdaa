SPECIFICATION DetectionFairSpec
CONSTANTS
    lp1 = lp1  lp2 = lp2
    v1 = v1
    loop = loop  user = user
    NoLoadpoint = NoLoadpoint
    NoVehicle = NoVehicle
    NoCall = NoCall
    Loadpoints <- TwoLoadpoints
    Vehicles <- OneVehicle
    Detectable <- OneVehicle
    Procs <- LoopAndUser
    Loop <- loop
    DefaultVehicle <- FirstHasDefault
INVARIANTS DetectionTypeOK TrackedIsHeld
PROPERTIES ImplementsCoordinator DetectionEnds
