SPECIFICATION FairSpec
CONSTANTS
    Tabs = {t1, t2}
    None = None
    MaxKeys = 3
    MaxDrops = 4
    MaxRefusals = 2
    MaxGrants = 2
INVARIANTS
    GrantsPostdateConfirmation
    LiveIsProven
    NotLockedOut
PROPERTY EventuallyConnected
