\* Two readers, a ring of two, five characters.
CONSTANTS
    Reader = {r1, r2}
    STDIN_BUFSIZE = 2
    MaxLen = 3
    MaxTyped = 5
SPECIFICATION FairSpec
CHECK_DEADLOCK FALSE
INVARIANTS
    NobodySleepsOnData
PROPERTIES
    DeliversInOrder
    DataIsRead
