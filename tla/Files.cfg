\* Two processes with three descriptors, a file, a device and two directories.
CONSTANTS
    Proc = {a, b}
    initproc = init
    File = {f}
    Dir = {top, sub}
    root = top
    Device = {stdin}
    NFd = 3
    Modes <- MCModes
    Exclusive = {f}
    MaxLost = 1
VIEW View
SYMMETRY Symmetry
SPECIFICATION FilesSpec
CHECK_DEADLOCK FALSE
INVARIANTS
    
    CleanWhenClosed
