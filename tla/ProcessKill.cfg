\* What the comment on SYS_kill says of a killed process, under FairSpec.
CONSTANTS
    Proc = {idle, init, u1, u2}
    idleproc = idle
    initproc = init
    NoProc = null
    MAX_PROCESS = 4
    MAX_TIME_SLICE = 1
    MaxSleep = 1
SPECIFICATION FairSpec
PROPERTIES
    KilledExits
