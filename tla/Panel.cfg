\* Two settings, two switches, a change of temperature, a failure.
CONSTANTS
    MaxOps = 2
    MaxSwitch = 2
    MaxTemps = 1
    MaxFaults = 1
    Allowed = {}
SPECIFICATION FairSpec
INVARIANTS LinkReady ShowsSetting
PROPERTIES ResetInLP11 SwitchEnds
CHECK_DEADLOCK FALSE
