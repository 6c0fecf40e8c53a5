SPECIFICATION FairSpec
CONSTANTS
    c1 = c1
    b1 = b1
    b2 = b2
    Clients = {c1}
    Casters = {b1, b2}
    BufferSize = 1
    MaxSeq = 4
INVARIANTS
    ClosedOnceWhenRemoved
    PassedClientsHaveIt
PROPERTIES
    RemovedGoroutinesEnd
    DeadPeerLeaves
CHECK_DEADLOCK FALSE
