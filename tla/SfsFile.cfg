\* Two files, which can have one direct block and two others, on a disk that one of
\* them fills: a write or a seek stops half way.
CONSTANTS
    File = {f, g}
    Fd = {a, b}
    NoFile = none
    SFS_BLKSIZE = 2
    SFS_NDIRECT = 1
    SFS_BLK_NENTRY = 2
    SFS_MAX_FILE_SIZE = 7
    NBlocks = 3
    IOSizes = {3}
    Seeks = {0, 2, 5}
SYMMETRY FilesAndFds
SPECIFICATION Spec
CHECK_DEADLOCK FALSE
INVARIANTS
    BlocksOwnedOnce
    NoHoles
PROPERTY BlocksStay
