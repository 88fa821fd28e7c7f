\* Three processes that come, go, sleep and compute, words of three bits.
CONSTANTS
    Proc = {p1, p2, p3}
    Idle = idle
    NULL = NULL
    HalfWords = 4
    Priorities = {2}
SPECIFICATION StrideLiveSpec
INVARIANT HeapHoldsRunnable
PROPERTIES
    KeepsOrder
    NobodyStarves
