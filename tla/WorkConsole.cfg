SPECIFICATION ConsoleFairSpec
CONSTANTS
    w1 = w1
    w2 = w2
    i1 = i1
    i2 = i2
    t1 = t1
    t2 = t2
    Works = {w1, w2}
    Images = {i1, i2}
    Texts = {t1, t2}
    StoredAtFirst <- OneOfEach
    FirstText = t1
    None = None
    MaxOperations = 2
    MaxMounts = 2
INVARIANTS
    ListsAreStored
PROPERTIES
    RefreshKeepsForm
    SubmissionEnds
CHECK_DEADLOCK FALSE
