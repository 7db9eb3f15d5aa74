SPECIFICATION FairSpec
CONSTANTS
    AutoReconnect = TRUE
    InitialMs = 1
    MaxMs = 4
    ClientIds = {7}
    SeqMod = 2
    UdpFaultPhases = {"none", "open", "destroyed"}
INVARIANTS
    NeverStranded
PROPERTIES
    SessionSpec
    Recovers
CHECK_DEADLOCK FALSE
