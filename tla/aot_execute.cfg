SPECIFICATION FairSpec
CONSTANTS
    p1 = p1  p2 = p2  q1 = q1  q2 = q2  q3 = q3  r1 = r1
    Proto = {p1, p2, q1, q2, q3, r1}
    Code <- MCCode
    Entries = {p1, q1, p2, q3, r1}
    Loaded <- MCLoaded
    Vararg = {p1, q1, q3, r1}
    Forms = {"interp", "goto", "switch"}
    UserMask = {"call", "count"}
    Period = 2
    Signals <- MCSignals
    MaxHookCalls = 2
    MaxFrames <- MCMaxFrames
INVARIANTS ActivationsMatch CallHookOnce
PROPERTIES ImplementsISA 
CHECK_DEADLOCK FALSE
