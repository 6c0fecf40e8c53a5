SPECIFICATION ImageSpec
CONSTANTS
    i1 = i1
    i2 = i2
    i3 = i3
    r1 = r1
    d1 = d1
    d2 = d2
    Images = {i1, i2, i3}
    Readers = {r1}
    Deleters = {d1, d2}
    Null = Null
    MaxCrashes = 2
SYMMETRY Symmetry
INVARIANTS
    RowHasFile
    ServingFindsFile
    AnswerIsTrue
CHECK_DEADLOCK FALSE
