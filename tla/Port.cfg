\* Sources of every kind, swaps, a failing call; three events.
CONSTANTS
    SinkVolts = {5000, 9000}
    Sources <- SomeSources
    RpLevels = {500}
    CanSource = TRUE
    Swaps = TRUE
    Refuses = TRUE
    NewCaps = TRUE
    LateDetach = FALSE
    MaxEvents = 3
    MaxFaults = 1
SPECIFICATION FairSpec
INVARIANTS PortApplied
PROPERTIES HostHasVbus EndsAtBest
CHECK_DEADLOCK FALSE
