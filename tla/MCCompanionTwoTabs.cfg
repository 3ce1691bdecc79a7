CONSTANTS
    m = m
    Ids = {m}
    Mutations = {m}
    Tabs = {t1, t2}
    None = None
    MaxCompleted = 1
    Budgets <- MCNoFaults
SPECIFICATION Spec
INVARIANT MutationRunsAtMostOnce
CHECK_DEADLOCK FALSE
