SPECIFICATION Spec
CONSTANTS
    Cyls = 2
    Heads = 2
    Sectors = 2
    Words = 2
    NVFSMNTS = 2
    Layouts <- OneFs
    Requests <- SomeRequests
INVARIANTS ReadReturnsSectors WriteStoresSectors
PROPERTIES CallsReturn StaysInPartition
