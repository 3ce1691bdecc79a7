SPECIFICATION ContextSpec
CONSTANTS
    small = small
    large = large
    Seqs <- MCSeqs
    Payloads = {small, large}
    MaxGap = 3
    MaxReceipts = 3
    Limit = 1
    MaxClock = 2
    MaxPages = 3
    Sizes <- MCSizes
    Score <- MCScore
    Objects <- MCObjects
    CutSize = 2
    Metadata = 1
    Powers <- MCPowers
    MaxBytes <- MCMaxBytes
INVARIANTS
    LedgerInv
    SteadyRowPagedOnce
    PollMissesNothing
    PackIsHonest
