SPECIFICATION Spec
CONSTANTS
    LastSegment = 4
    ListLength = 3
    Holdback = 1
    MaskBits = 2
    MaxFlight = 2
    Wanted = {1}
PROPERTIES
    MediaSequenceAdvances
