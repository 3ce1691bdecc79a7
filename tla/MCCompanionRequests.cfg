CONSTANTS
    m = m
    Ids = {m, q}
    Mutations = {m}
    Tabs = {t1}
    None = None
    MaxCompleted = 1
    Budgets <- MCBudgets
SPECIFICATION FairSpec
INVARIANTS
    RequestsInv
    MutationRunsAtMostOnce
PROPERTIES
    CompanionServes
    EveryCallSettled
CHECK_DEADLOCK FALSE
