SPECIFICATION Spec
CONSTANTS
    None = None
    s1 = s1
    s2 = s2
    s3 = s3
    a1 = a1
    a2 = a2
    e1 = e1
    e2 = e2
    o1 = o1
    l1 = l1
    l2 = l2
    t1 = t1
    Journals = {1, 2}
    Pages = {1, 2, 3, 4}
    Calls = {s1, s2, s3, a1, a2, e1, e2, o1}
    Op <- MCOp
    KeyOf <- MCKeyOf
    Target <- MCTarget
    Scenarios <- MCScenarios
    Readers = {l1, l2, t1}
    Kind <- MCKind
    PageSize = 1
    MaxCursors = 1
    MaxFailures = 1
    MaxReloads = 1
INVARIANTS
    SessionsInv
    AnsweredIsWhole
    StatusStands
    SteadyReadOnce
