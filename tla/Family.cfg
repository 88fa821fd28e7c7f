\* Three user processes next to idleproc and initproc, and two pids to spare.
CONSTANTS
    Proc = {a, b, c}
    initproc = init
    NULL = none
    MAX_PROCESS = 5
    MAX_PID = 6
SPECIFICATION Spec
INVARIANTS
    PidsUnique
    LinksAreChildren
PROPERTY LoopsEnd
