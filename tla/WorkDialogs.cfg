SPECIFICATION Spec
CONSTANTS
    w1 = w1
    w2 = w2
    Works = {w1, w2}
    None = None
    MaxPushes = 4
    MaxMoves = 3
SYMMETRY Symmetry
INVARIANTS
    OpenHasEntry
    NoDeadEntry
    LeavingTakesABackOfItsOwn
    LockedWhileOpen
CHECK_DEADLOCK FALSE
