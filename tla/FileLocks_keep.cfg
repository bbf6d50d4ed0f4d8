SPECIFICATION FairSpec
CONSTANTS
    Processes = {p1, p2, p3}
    Nobody = Nobody
    MaxInodes = 1
    MaxUpdates = 3
    MaxCrashes = 2
INVARIANTS OneLockFile MutualExclusion UpdatesKept
PROPERTIES LockProgress
CHECK_DEADLOCK FALSE
