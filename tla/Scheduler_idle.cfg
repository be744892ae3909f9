SPECIFICATION FairSpec
CONSTANTS
    Segs <- MCTwoSegs
    Peers <- MCPeers
    Bootstrap = "master"
    LanOf <- MCNoLan
    Parents = {"p"}
    Inventories <- MCOriginOnly
    ManifestSteps <- MCFixed
    Results = {"ok", "other"}
    MaxParallel = 2
    MaxPerPeer = 2
    EvictAfter = 3
    Leaving = {}
    RegistryMayFill = FALSE
    Restarts = FALSE
PROPERTIES
    QueueNotIdle
