SPECIFICATION Spec
CONSTANTS
    w1 = w1
    i1 = i1
    i2 = i2
    s1 = s1
    q1 = q1
    q2 = q2
    r1 = r1
    Works = {w1}
    Images = {i1, i2}
    Stacks = {s1}
    ImageLists <- SavingLists
    Requests = {q1, q2}
    Readers = {r1}
    Null = Null
SYMMETRY SavingSymmetry
INVARIANTS
    ListedWithoutStackIsGone
    RowsMatchAccepted
PROPERTIES
    UpdateOkMeansSaved
    ImplementsCatalogue
