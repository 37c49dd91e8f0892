\* AFC and QC 2.0 chargers, some of which refuse, cables, and the 5 V hold.
CONSTANTS
    Afc = TRUE
    Chargers = {"DCP", "AFC", "QC20"}
    BootChargers = {"none"}
    Docks = {FALSE}
    Holds = TRUE
    Refusals = TRUE
    QuickRelease = FALSE
    MaxSlow = 5
    Replug = FALSE
    MaxFaults = 0
    MaxRebinds = 0
SPECIFICATION FairSpec
INVARIANTS HoldIs5V HoldWithdrawsFast FastIs9V
PROPERTY ReturnsTo9V
