CONSTANTS
    Actors = {a, b, s}
    Subject = s
    Budgets <- OneJoin
SPECIFICATION Spec
INVARIANTS JoinFenced
CHECK_DEADLOCK FALSE
