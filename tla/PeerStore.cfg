SPECIFICATION FairSpec
CONSTANTS
    LastSegment = 3
    ListLength = 2
    Holdback = 1
    MaskBits = 2
    MaxFlight = 2
    Wanted = {1}
INVARIANTS
    TypeOK
    PlaybackOnDisk
    HeldBack
    YesWasTrue
PROPERTIES
    StaleYesEnds
    DenialEnds
