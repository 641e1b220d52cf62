SPECIFICATION MountSpec
CONSTANTS
    NVFSMNTS = 2
    Device <- Devs
    Ino <- Inos
    Mfs <- WithMfs
INVARIANTS GetFinds MountedLoaded
PROPERTY UsedEntriesKept
