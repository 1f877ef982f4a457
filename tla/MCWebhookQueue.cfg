SPECIFICATION FairSpec
CONSTANTS
    Deliveries = {d1, d2, d3, d4}
    Concurrency = 2
    MaxBacklog = 1
    MaxPendingRecovery = 2
    ReclaimBatches <- FetchedLists
    MaxCopies = 2
    MaxDrains = 1
INVARIANTS
    BooksAgree
    WorkConserving
PROPERTIES
    FirstComeFirstServed
    EveryAcceptedIdIsHandled
