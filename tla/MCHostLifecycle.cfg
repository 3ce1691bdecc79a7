SPECIFICATION FairSpec
CONSTANTS
    p1 = p1
    p2 = p2
    m1 = m1
    m2 = m2
    Conns = {p1, p2}
    Adapters = {a}
    Mutations = {m1, m2}
    Platforms = {"unix", "win32"}
    Target <- MCTarget
INVARIANTS
    LifecycleInv
    NothingLeftOver
PROPERTIES
    EveryPageSwept
    StartAndShutdownEnd
