SPECIFICATION FairSpec
CONSTANTS
    Master = m
    Peers = {p, q}
    Lan = {m, p}
    MaxFaults = 1
    q = q
    Slow <- MCSlow
INVARIANTS
    TypeOK
PROPERTIES
    StrangersStay
    FoundOrStrangers
    OverlayForms
