SPECIFICATION FairSpec
CONSTANTS
    p1 = p1  p2 = p2  q1 = q1  q2 = q2  q3 = q3  r1 = r1
    Proto = {p1, p2, q1, q2, q3, r1}
    Code <- MCCode
    Entries = {p1}
    Loaded <- LoopLoaded
    Vararg = {p1, q1, q3, r1}
    Forms = {"goto"}
    UserMask = {"call", "count"}
    Period = 1
    Signals <- LoopSignals
    MaxHookCalls = 2
    MaxFrames <- LoopMaxFrames
PROPERTY SignalStops
CHECK_DEADLOCK FALSE
