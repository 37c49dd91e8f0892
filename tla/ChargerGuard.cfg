\* The temperature guard against users, OTG, shutdown and a crash.
CONSTANTS
    BatVoltageMaxUv = 4300000
    BatCurrentMaxUa = 0
    BatTermUa = 300000
    TempMin = 0
    TempMax = 500
    Temps <- SomeTemps
    UserVoltages = {4300000}
    UserCurrents = {3500000}
    UserLimits = {}
    UserTerms = {}
    EarlyWrites = FALSE
    ExtconStates <- NoCable
    Supplies <- NoSupply
    Vin = {FALSE, TRUE}
    Torch = FALSE
    Otg = TRUE
    MaxFaults = 0
    MaxReboots = 1
SPECIFICATION FairSpec
INVARIANTS TypeOK GuardHolds OtgModeOwned
PROPERTIES LimitsBeforeCharging ShutdownEndsOtg HotStopsCharging
