SPECIFICATION SnapshotSpec
CONSTANTS
    None = None
    u1 = u1
    u2 = u2
    Docs = {1, 2, 3, 4, 5, 6, 8, 9}
    Names = {1, 2}
    InitName <- MCName
    ParentOf <- MCParent
    Packed = {8, 9}
    Root = 1
    Items <- MCItems
    Targets = {2, 8}
    Updaters = {u1, u2}
    CanRestore = TRUE
    Work <- MCWork
    PageSize = 1
    MaxDepth = 1
    Unfit <- MCUnfit
    Fields <- MCFields
    Unbounded = {9}
    Weight <- MCWeight
    MaxWork = 8
    SnapshotDepth = 8
    MaxItems = 8
    MaxBytes = 20
    MaxEdits = 1
INVARIANTS
    SnapshotsInv
    SteadyListedOnce
    BatchAnswerIsTrue
    LostOnlyInFlight
CHECK_DEADLOCK FALSE
