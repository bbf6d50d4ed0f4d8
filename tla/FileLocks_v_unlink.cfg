SPECIFICATION SessionSpec
CONSTANTS
    Processes = {p1, p2, p3}
    Nobody = Nobody
    MaxInodes = 3
    MaxUpdates = 4
    MaxCrashes = 0
INVARIANTS MutualExclusion
CHECK_DEADLOCK FALSE
