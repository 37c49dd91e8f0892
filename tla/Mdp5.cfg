\* Seven commits in any order; two late frames, two failures
\* of the clock.
CONSTANTS
    MaxCommits = 7
    MaxLate = 2
    MaxFaults = 2
    Racing = FALSE
    MoveDown = FALSE
SPECIFICATION FairSpec
INVARIANTS HalvesInStep FrameNotCut
PROPERTIES EventSent
CHECK_DEADLOCK FALSE
