CONSTANTS
    Nodes = {n1, n2, n3}
    Sessions = {s1, s2}
    RecoveryIds = {r1, r2}
    ReplacementIds = {p1}
    Capacities = {1, 2}
    MaxRevision = 6
    None = None
    Actors = {a, b, d}
    Values = {1, 2, 3}
    MaxValues = 1
    MaxWrites = 3
    MaxExports = 2
    a = a
    b = b
SPECIFICATION SpecParts
INVARIANTS
    ControlValid RetriesCurrent
    NothingLost HoldsLatest ClockNamesValue WinnerStays
    AttemptsBounded OutcomeReal SettledQuiet
PROPERTIES
    FenceSeparates
CHECK_DEADLOCK FALSE
