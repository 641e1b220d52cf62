SPECIFICATION Spec
CONSTANTS
    NameSet = {root, x}
    Root = root
    Sizes <- SomeSizes
    MFS_BLKSIZE = 2
    NInode = 5
    NDBit = 5
    NDBLK = 4
INVARIANTS FilesContiguous FilesIntact PathsFound
CHECK_DEADLOCK FALSE
