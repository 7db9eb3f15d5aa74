SPECIFICATION FairJointSpec
CONSTANTS
    HasDtmf = TRUE
    RemoteKnown = FALSE
    Hang = 3
    OpenDelay = 1
    StartTime = 2
    Frames = 5
    Period = 1
    MaxQueue = 4
    PacketSamples = 1
    DigitPackets = 1
    DigitSamples = 1
    Gap = 1
    SeqMod = 1
    Chunks = {1, 2, 3, 4, 5}
    Events = 10
    AtOnce = 3
    StartDigits = 1
    StopDigits = 1
    Burst = 2
    MaxLate = 2
INVARIANTS
    PttAlwaysTimed
    EveryFrameOnce
    OnlyOpenersOvertaken
    TailBounded
    OverlapBounded
PROPERTIES
    KeyedDelivery
    LostOnlyIfLate
    FallsSilent
