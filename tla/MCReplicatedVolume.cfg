\* A volume's budgets run out: it may stop anywhere.
CONSTANTS
  Nodes = {n1, n2, n3}
  Sessions = {0, 1, 2, 3, 4}
  RecoveryIds = {1, 2, 3, 4}
  ReplacementIds = {p1}
  Capacities = {0}
  None = None
  Blocks = {b1}
  Scenarios <- AllScenarios

SPECIFICATION Spec
SYMMETRY Symmetry
CHECK_DEADLOCK FALSE

INVARIANTS FlushedKept WritesKept CopiesAgree
