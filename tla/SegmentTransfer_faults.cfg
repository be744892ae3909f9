SPECIFICATION FairSpec
CONSTANTS
    N = 3
    InitialWindow = 2
    MaxWindow = 2
    SendChunk = 2
    RetryLimit = 1
    SenderRetryLimit = 1
    Capacity = 2
    OtherTransfers = {0, 1, 2}
    Faults = {"churn", "not_ready", "disk", "crash"}
    MaxDups = 1
    MaxLosses = 1
INVARIANTS
    TypeOK
    SavedIsWhole
    WindowCoversPrefix
    AdvanceHasRoom
    SenderWithinRequest
    SenderNeverStuck
    CreditOnlySaved
PROPERTIES
    DeliveryPromise
    DeliveryEnds
CHECK_DEADLOCK FALSE
