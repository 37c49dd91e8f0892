\* Cables, USB-C sources and the torch, on a working bus.
CONSTANTS
    BatVoltageMaxUv = 4300000
    BatCurrentMaxUa = 0
    BatTermUa = 300000
    TempMin = 0
    TempMax = 500
    Temps <- RoomTemp
    UserVoltages = {}
    UserCurrents = {}
    UserLimits = {}
    UserTerms = {}
    EarlyWrites = FALSE
    ExtconStates <- TornCables
    Supplies <- OneSupply
    Vin = {FALSE, TRUE}
    Torch = TRUE
    Otg = FALSE
    MaxFaults = 0
    MaxReboots = 0
SPECIFICATION Spec
INVARIANTS CableApplied TorchSupplied
