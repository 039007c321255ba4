CONSTANTS
    c = c
    t = t
    Nodes = {c, t}
    Coord = c
    Targets = {c, t}
    TTL = 1
    MaxTime = 1
    Gossiped = {"CommitDecided"}
    Budgets <- Disturbed
SPECIFICATION FairSpec
INVARIANTS TypeOK StartBarrier
 
CHECK_DEADLOCK FALSE
