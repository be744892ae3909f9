SPECIFICATION FairSpec
CONSTANTS
    p = p
    q = q
    Peers = {p, q}
    Remote = {p, q}
    Limit = 1
    MayPrune = TRUE
    MaxPongs = 2
INVARIANTS
    TypeOK
    DenialHasSource
PROPERTIES
    EveryoneServed
