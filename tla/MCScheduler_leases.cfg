CONSTANTS
    s1 = s1
    s2 = s2
    g1 = g1
    t1 = t1
    t2 = t2
    c1 = c1
    Self = self
    NoGroup = none
    Slots = {s1, s2}
    Gpus = {}
    Tasks = {t1, t2}
    Coordinators = {self}
    Groups = {grp}
    Ttl = 1
    MaxTime = 1
    MaxAttempts = 2
    MaxVersion = 3
    MaxPending = 2
    MaxCrashes = 1
    MaxStoreFails = 1
SPECIFICATION Spec
INVARIANTS TypeOK LeaseHonoured NoConflictingGrant QuiescentAgreement VersionNamesSnapshot
PROPERTIES DurableVersionsIncrease ImplementsTable
SYMMETRY Symmetry
CHECK_DEADLOCK FALSE
