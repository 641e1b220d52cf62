SPECIFICATION Spec
CONSTANTS
    Path <- MCPath
    Images <- MCImages
    NInode = 4
    NVCHCNTS = 5
INVARIANTS MarkedLinked VnodesStay
PROPERTY TreeKept
CHECK_DEADLOCK FALSE
