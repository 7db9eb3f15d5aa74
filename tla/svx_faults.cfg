SPECIFICATION Spec
CONSTANTS
    AutoReconnect = TRUE
    InitialMs = 1
    MaxMs = 4
    ClientIds = {7, 8}
    SeqMod = 4
    UdpFaultPhases = {"none", "connecting", "open", "destroyed"}
INVARIANTS
    TypeOK
    OneHeartbeat
    NoReconnectWhileLive
    AudioSocketUp
    HandshakeOrder
    StoppedIsQuiet
CHECK_DEADLOCK FALSE
