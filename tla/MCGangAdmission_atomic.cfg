CONSTANTS
    c = c
    t = t
    Nodes = {c, t}
    Coord = c
    Targets = {c, t}
    TTL = 1
    MaxTime = 2
    Gossiped = {}
    Budgets <- Undisturbed
SPECIFICATION FairSpec
PROPERTIES AllOrNothing
CHECK_DEADLOCK FALSE
