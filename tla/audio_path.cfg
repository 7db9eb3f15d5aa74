SPECIFICATION Spec
CONSTANTS
    Listeners = {l1, l2}
    HighWater = 2
    DecodedSizes = {1, 2, 5}
    Taps = 5
    PacketSamples = 1
    Levels <- MCLevels
    Frames = 3
SYMMETRY MCSymmetry
INVARIANTS
    HearsItsRun
    NoneForgotten
    FilterSeamless
    RoundTripClose
CHECK_DEADLOCK FALSE
