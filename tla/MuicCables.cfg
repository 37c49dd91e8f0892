\* Cables with the keyboard cover on and off, a failing transfer, a rebind.
CONSTANTS
    Afc = TRUE
    Chargers = {"SDP", "CDP", "AFC"}
    BootChargers = {"none", "AFC"}
    Docks = {FALSE, TRUE}
    Holds = TRUE
    Refusals = FALSE
    QuickRelease = FALSE
    MaxSlow = 0
    Replug = FALSE
    MaxFaults = 1
    MaxRebinds = 1
SPECIFICATION Spec
INVARIANTS CablesCoherent CableReported
