CONSTANTS
    k1 = k1
    k2 = k2
    Actors = {1, 2}
    Keys = {k1}
    Preserve = TRUE
    Recreate = FALSE
    Overlap = 1
    Retention = 1
    BatchLimit = 1
    MaxTime = 2
    MaxWrites = 2
    MaxRemoves = 1
    MaxPulls = 1
    MaxFaults = 0
SPECIFICATION FairSpec
PROPERTIES Converges Collected
CHECK_DEADLOCK FALSE
