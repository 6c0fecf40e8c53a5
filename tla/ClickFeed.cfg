SPECIFICATION FairSpec
CONSTANTS
    q1 = q1
    q2 = q2
    k1 = k1
    k2 = k2
    Requests = {q1, q2}
    Keys = {k1, k2}
    MaxBoxes = 2
    AutoSpawnCount = 1
    MaxClicks = 2
    MaxRestarts = 1
    MaxLosses = 1
    MaxRuns = 2
INVARIANTS
    LiveSocketIsCurrent
    ShownIsStored
    DropsExplained
PROPERTIES
    EndedStaysEnded
    Reconnects
CHECK_DEADLOCK FALSE
