\* Two detaches and reattaches, three key events, one failing transfer.
CONSTANTS
    Depth = 2
    MaxMoves = 4
    MaxKeys = 3
    MaxFaults = 1
SPECIFICATION FairSpec
INVARIANTS ReleasedInOrder NoStrandedKeys
PROPERTIES KeyboardReturns KeysQueued
CHECK_DEADLOCK FALSE
