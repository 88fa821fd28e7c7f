\* A disk with room for two whole files.
CONSTANTS
    File = {f, g}
    Fd = {a, b}
    NoFile = none
    SFS_BLKSIZE = 2
    SFS_NDIRECT = 1
    SFS_BLK_NENTRY = 2
    SFS_MAX_FILE_SIZE = 6
    NBlocks = 8
    IOSizes = {3}
    Seeks = {0, 5}
SPECIFICATION Spec
CHECK_DEADLOCK FALSE
INVARIANT NoAssertFails
