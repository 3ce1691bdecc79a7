SPECIFICATION ListingSpec
CONSTANTS
    None = None
    c1 = c1
    c2 = c2
    Paths = {1, 2, 3, 4}
    Target = 1
    Numbered <- MCNumbered
    Old = {{}, {1}}
    d1 = d1
    d2 = d2
    Docs = {d1, d2}
    Callers = {c1, c2}
    Requests <- MCRequests
    Adapters = {{}, {"delete", "restore"}}
    Writable <- MCWritable
    MaxEdits = 1
    Folders = {0, 1, 2}
    Top = 0
    FolderOf <- MCFolderOf
    Above <- MCAbove
    Shared = {1, 4}
    Orders <- MCOrders
    Beside <- MCBeside
    MaxDepth = 1
    PageSize = 1
INVARIANTS
    AssetsInv
    RollbackIsRight
    NothingReplacedUnseen
    SteadyImageListedOnce
SYMMETRY MCSymmetry
CHECK_DEADLOCK FALSE
