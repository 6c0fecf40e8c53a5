SPECIFICATION Spec
CONSTANTS
    w1 = w1
    w2 = w2
    periodic = periodic
    manual = manual
    Works = {w1, w2}
    Runs = {periodic, manual}
    Periodic = periodic
    Null = Null
    MaxVersion = 2
    MaxFailures = 1
INVARIANT StaleIsDirty
CHECK_DEADLOCK FALSE
