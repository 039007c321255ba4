CONSTANTS
    a = a
    b = b
    V = V
    A = A
    B = B
    s = s
    r = r
    m = m
    y = y
    x = x
    NoOp = NoOp
    NoNode = NoNode
    Nodes = {a, b}
    Views = {V, A, B}
    Ops = {s, r, m, y, x}
    Splits = {s, r}
    Source <- MCSource
    Target <- MCTarget
    Deps <- MCDeps
    OrderKey <- MCOrderKey
    Submitter <- MCSubmitter
    InitialViews <- MCInitialViews
    Rejectable = {r}
    Suspicious <- MCSuspicious
    Scenarios = {{r, m}, {s, r}, {y, x}}
    Crashable = {a, b}
    MaxCrashes = 1
SPECIFICATION SpecParts
INVARIANTS TypeOK KeyBeforeView CommitFollowsCutover  BoundaryAgrees
PROPERTIES ViewFollowsLedger  
CHECK_DEADLOCK FALSE
