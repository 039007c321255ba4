CONSTANTS
    s1 = s1
    s2 = s2
    g1 = g1
    t1 = t1
    t2 = t2
    c1 = c1
    Self = self
    NoGroup = none
    Slots = {s1}
    Gpus = {g1}
    Tasks = {t1}
    Coordinators = {self, c1}
    Groups = {grp}
    Ttl = 1
    MaxTime = 2
    MaxAttempts = 1
    MaxVersion = 3
    MaxPending = 2
    MaxCrashes = 1
    MaxStoreFails = 1
SPECIFICATION LiveSpec
PROPERTIES ExpiredReaped
INVARIANTS LeaseHonoured
CHECK_DEADLOCK FALSE
