SPECIFICATION Spec
CONSTANTS
    AutoReconnect = TRUE
    InitialMs = 1
    MaxMs = 4
    ClientIds = {7}
    SeqMod = 2
    UdpFaultPhases = {"none", "connecting", "open", "destroyed"}
INVARIANTS
    NeverStranded
CHECK_DEADLOCK FALSE
