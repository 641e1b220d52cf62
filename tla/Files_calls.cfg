SPECIFICATION Spec
CONSTANTS
    File = {1, 2, 3}
    Missing = Missing
    dev <- MC_dev
    blkentry <- MC_blkentry
    size <- MC_size
    mode <- MC_mode
    daddr <- MC_daddr
    Blk = {0, 1, 2, 3, 4}
    blksize = 3
    NMXOFILE = 2
    Oflag <- MC_Oflag
    Offset <- MC_Offset
    MaxPos = 5
    Nbyte = {0, 1, 2, 3, 4, 7}
    Width = 4
INVARIANTS ReadReturnsFile WriteStoresFile
PROPERTIES  CallsReturn
