SPECIFICATION GridSpec
CONSTANTS
    heater = heater  heatpump = heatpump  inverter = inverter
    NoLimit = NoLimit
    Statements <- GuardStatements
    FailsafeLimits <- ConfiguredFailsafe
    FailsafeWrites <- WrittenFailsafe
    ProductionNominalMax = 10
    HeartbeatTimeout = 1
    ReleaseTimeout = 1
    MaxDuration = 2
    Meters <- TwoMeters
    Curtailers <- OneCurtailer
    MaxRestarts = 1
INVARIANT GridTypeOK
PROPERTIES FailsafeHeld StandingLimitKept OrdersReachDevices
