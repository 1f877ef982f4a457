SPECIFICATION FairSpec
CONSTANTS
    Deliveries = {d1, d2}
    Concurrency = 1
    MaxBacklog = 1
    MaxPendingRecovery = 1
    MaxCopies = 4
    MaxDrains = 0
    ReclaimBatches <- FetchedLists
    Reconciled = {d2}
    MaxOutlived = 2
    MaxDuplicates = 2
    MaxFailures = 1
    MaxRestarts = 1
INVARIANTS
    ClaimIsExclusive
PROPERTIES
    
    ImplementsDeliveryRow
    EveryRecordedDeliveryIsProcessed
