SPECIFICATION FairSpec
CONSTANTS
    Base = 4
    Outgoing <- MCOutgoing
    Delays = {0, 2, 3}
    HoldMax = 2
    Faults = {"drop", "dup", "reorder"}
    BurstEvery = 4
    BurstDur = 1
    MaxPayload = 14
INVARIANTS
    TypeOK
    LeavesInTime
    OnlyNeighboursSwap
    DeliveredAsSent
PROPERTIES
    EverythingLeaves
