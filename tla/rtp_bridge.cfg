SPECIFICATION Spec
CONSTANTS
    Period = 2
    MaxQueue = 2
    PacketSamples = 2
    DigitPackets = 2
    DigitSamples = 3
    Gap = 1
    SeqMod = 2
    Chunks = {1, 2}
    Frames = 3
    Events = 3
    AtOnce = 2
INVARIANTS
    TypeOK
    VoiceInOrder
PROPERTIES
    NeverStale
    VoiceSpaced
    DigitsDistinct
CHECK_DEADLOCK FALSE
