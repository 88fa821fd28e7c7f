\* Two processes of eight pages each, as exec and fork leave them: what comes on top, an
\* argument of exec, a page to read into or a page fault, may find none left.
CONSTANTS
    NPages = 16
    Proc = {a, b}
    NVa = 4
    NPte = 3
    Programs <- MCPrograms
    Stack <- MCStack
    StackLoaded = 1
    MaxArgs = 1
SYMMETRY Symmetry
SPECIFICATION Spec
CHECK_DEADLOCK FALSE
INVARIANTS
    FreeListSound
    EveryPageHasOneUser
PROPERTY OnlyCrossingStops
