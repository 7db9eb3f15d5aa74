SPECIFICATION Spec
CONSTANTS
    AutoReconnect = TRUE
    PacketMs = 2
    MaxQueue = 2
    Chunks = {1}
    StartMayFail = TRUE
    Frames = 1
    MaxTime = 1
INVARIANTS
    SurvivesBindFailure
CHECK_DEADLOCK FALSE
