SPECIFICATION Spec
CONSTANTS
    N = 2
    InitialWindow = 1
    MaxWindow = 2
    SendChunk = 2
    RetryLimit = 1
    SenderRetryLimit = 1
    Capacity = 2
    OtherTransfers = {0, 1, 2}
    Faults = {}
    MaxDups = 1
    MaxLosses = 0
PROPERTIES
    NotFoundSparesProgress
CHECK_DEADLOCK FALSE
