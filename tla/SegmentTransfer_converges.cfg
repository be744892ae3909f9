SPECIFICATION PatientSpec
CONSTANTS
    N = 7
    InitialWindow = 1
    MaxWindow = 3
    SendChunk = 2
    RetryLimit = 2
    SenderRetryLimit = 2
    Capacity = 2
    OtherTransfers = {0}
    Faults = {}
    MaxDups = 2
    MaxLosses = 2
PROPERTIES
    Converges
CHECK_DEADLOCK FALSE
