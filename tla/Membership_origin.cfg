SPECIFICATION FairSpec
CONSTANTS
    Master = m
    Peers = {p, q}
    Lan = {p, q}
    MaxFaults = 1
    Slow = {}
PROPERTIES
    OriginStaysKnown
