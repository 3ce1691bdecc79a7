SPECIFICATION ReconcilerSpec
CONSTANTS
    T = T
    P = P
    a = a
    a1 = a1
    a2 = a2
    b = b
    p = p
    None = None
    Types = {T}
    Packs = {P}
    Docs = {a, a1, a2, p}
    Oversized = {}
    Deletable = {a, a1, p}
    MaxDepth = 2
    MaxTasks = 4
    PageSize = 1
    Budget = 3
    MaxChanges = 1
    MaxFaults = 0
    MaxCrashes = 0
    ParentOf <- MCParent
    Rank <- MCRank
PROPERTIES PrunesOnlyDeleted
