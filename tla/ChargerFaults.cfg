\* Torch and OTG while up to two transfers fail and the system crashes.
CONSTANTS
    BatVoltageMaxUv = 4300000
    BatCurrentMaxUa = 0
    BatTermUa = 300000
    TempMin = 0
    TempMax = 500
    Temps <- HotTemps
    UserVoltages = {}
    UserCurrents = {}
    UserLimits = {500000}
    UserTerms = {200000}
    EarlyWrites = FALSE
    ExtconStates <- NoCable
    Supplies <- NoSupply
    Vin = {FALSE}
    Torch = TRUE
    Otg = TRUE
    MaxFaults = 2
    MaxReboots = 1
SPECIFICATION Spec
INVARIANTS OtgBoostVoltage OtgStaysOn
