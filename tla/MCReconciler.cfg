SPECIFICATION FairReconcilerSpec
CONSTANTS
    T = T
    P = P
    a = a
    a1 = a1
    a2 = a2
    b = b
    p = p
    None = None
    Types = {T}
    Packs = {P}
    Docs = {a, a1, a2, b, p}
    Oversized = {}
    Deletable = {a, a2, b, p}
    MaxDepth = 1
    MaxTasks = 7
    PageSize = 1
    Budget = 3
    MaxChanges = 1
    MaxFaults = 1
    MaxCrashes = 1
    ParentOf <- MCParent
    Rank <- MCRank
INVARIANTS IndexInv NoGhosts
PROPERTIES PrunesOnlyDeleted PassesComplete
