SPECIFICATION Spec
CONSTANTS
    MAXDELTA = 2
    Size = 2
    MaxFrames = 3
    MaxPending = 2
    MaxLevel = 12
    Results = {0, 1}
    OpenReturns = {TRUE, FALSE}
INVARIANT ReturnsEvaluated
CHECK_DEADLOCK FALSE
