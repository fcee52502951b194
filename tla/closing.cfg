SPECIFICATION FairSpec
CONSTANTS
    MAXDELTA = 2
    Size = 2
    MaxFrames = 3
    MaxPending = 3
    MaxLevel = 12
    Results = {0, 1}
    OpenReturns = {FALSE}
INVARIANTS ListMatches NoneLeftBehind ErrorReported ReturnsEvaluated
PROPERTIES ImplementsScopes AllClosed
CHECK_DEADLOCK FALSE
