SPECIFICATION Spec
CONSTANTS
    Segs <- MCSegs
    Peers <- MCPeers
    Bootstrap = "master"
    LanOf <- MCNoLan
    Parents = {"p"}
    Inventories <- MCInventories
    ManifestSteps <- MCRolling
    Results = {"ok", "timeout", "not_ready", "other"}
    MaxParallel = 2
    MaxPerPeer = 2
    EvictAfter = 2
    Leaving = {}
    RegistryMayFill = TRUE
    Restarts = TRUE
INVARIANTS
    TypeOK
    NothingForgotten
    OnePullEach
    NoRepeatedPull
PROPERTIES
    EvictionIsEarned
    ReplicationPromise
