SPECIFICATION FairSpec
CONSTANTS
    AutoReconnect = TRUE
    PacketMs = 2
    MaxQueue = 2
    Chunks = {0, 1, 3}
    StartMayFail = TRUE
    Frames = 4
    MaxTime = 6
INVARIANTS
    InOrder
    NewestKept
    PumpNeverStalls
    KeyedOnlyWhileActive
    PacedOutput
PROPERTIES
    SocketRecovers
CHECK_DEADLOCK FALSE
