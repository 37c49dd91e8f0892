\* A blanking and an exposure that need clamping, one failure.
CONSTANTS
    Vblanks = {1545}
    Exposures = {2500}
    Gains = {512}
    FaultyCtrl = FALSE
    MaxFaults = 1
SPECIFICATION FairSpec
INVARIANTS ExposureFits RegsMatch
PROPERTIES StoppedPowersDown
