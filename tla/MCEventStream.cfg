CONSTANTS
    Seqs <- MCIds
    Payloads <- MCIds
    MaxGap = 4
    MaxReceipts = 4
    MaxPendingEvents = 2
    MaxPublish = 4
    MaxDrops = 2
    MaxQuotaFailures = 1
    MaxStorageLosses = 1
SPECIFICATION FairSpec
INVARIANTS
    StreamInv
    NoUnacknowledgedDrop
PROPERTIES DeliverySpec EventuallyRecorded
CHECK_DEADLOCK FALSE
