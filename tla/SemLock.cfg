\* Four processes, two permits.
CONSTANTS
    Proc = {p1, p2, p3, p4}
    lock = lock
    Sem = {lock}
    InitValue = 2
SPECIFICATION LockFairSpec
INVARIANTS
    QueueInv
    PermitsConserved
    DownNeverFails
PROPERTIES
    HandsOutInOrder
    WaiterEnters
