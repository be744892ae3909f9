SPECIFICATION ServedSpec
CONSTANTS
    Segs <- MCTwoSegs
    Peers <- MCPeers
    Bootstrap = "master"
    LanOf <- MCSameName
    Parents = {"p"}
    Inventories <- MCInventories
    ManifestSteps <- MCSameSegments
    Results = {"ok", "not_ready"}
    MaxParallel = 2
    MaxPerPeer = 2
    EvictAfter = 3
    Leaving = {"p"}
    RegistryMayFill = FALSE
    Restarts = TRUE
PROPERTIES
    EventuallyStored
