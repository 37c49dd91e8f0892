\* Open, close, inhibit, suspend and unbind in any order; failures for all tries
\* of the query.
CONSTANTS
    MaxX = 1
    MaxPressure = 1
    Retries = 3
    MaxOps = 6
    MaxMoves = 3
    MaxFailures = 3
SPECIFICATION PenFairSpec
INVARIANTS NoGhostPen PowerFollowsUse
PROPERTY PenShown
CHECK_DEADLOCK FALSE
