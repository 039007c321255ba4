CONSTANTS
    k1 = k1
    k2 = k2
    Actors = {1, 2}
    Keys = {k1}
    Preserve = TRUE
    Recreate = TRUE
    Overlap = 1
    Retention = 1
    BatchLimit = 1
    MaxTime = 0
    MaxWrites = 2
    MaxRemoves = 1
    MaxPulls = 1
    MaxFaults = 0
SPECIFICATION Spec
PROPERTY RecreatedStays
CHECK_DEADLOCK FALSE
