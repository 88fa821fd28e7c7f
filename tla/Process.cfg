\* Life cycle and progress with two user structs: an orphan next to its parent.
CONSTANTS
    Proc = {idle, init, u1, u2}
    idleproc = idle
    initproc = init
    NoProc = null
    MAX_PROCESS = 4
    MAX_TIME_SLICE = 1
    MaxSleep = 1
SPECIFICATION FairSpec
INVARIANTS
    TypeOK
    RunQueueInv
    NoLostWakeup
    NoDanglingParent
    TimerOnStack
    NoAssertFails
    ControlInv
PROPERTIES
    ReapedByParent
    SleepEnds
    OrphanReaped
    KilledSleeperExits
