SPECIFICATION Spec
CONSTANTS
    m = m  t1 = t1  t2 = t2  t3 = t3  c1 = c1  c2 = c2  c3 = c3
    s1 = s1  u1 = u1  th1 = th1  d1 = d1
    NC = NC
    Main = m
    Kind <- MCKind
    Obj = {m, t1, t2, t3, c1, th1, u1, s1, d1}
    Heaps <- Mixed
    MaxStack = 2
    MaxEntries = 1
    Modes = {"strong", "weakvalue", "ephemeron", "allweak"}
    Weakable = {t3}
    GCAllowed = {d1}
    FullKinds = {}
INVARIANTS TypeOK TriColor GrayListed NoDangling FreedIsUnlinked OpenUpvalValues
CHECK_DEADLOCK FALSE
