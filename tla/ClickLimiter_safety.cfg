SPECIFICATION LimiterSpec
CONSTANTS
    k1 = k1
    k2 = k2
    k3 = k3
    p1 = p1
    p2 = p2
    Keys = {k1, k2, k3}
    Callers = {p1, p2}
    MinInterval = 1
    MaxEntries = 2
    CleanupInterval = 3
    MaxWait = 9
    MaxTime = 15
SYMMETRY Symmetry
PROPERTIES
    AcceptedApart
    EntriesAreRecent
CHECK_DEADLOCK FALSE
