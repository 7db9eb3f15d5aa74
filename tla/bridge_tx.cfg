SPECIFICATION TxSpec
CONSTANTS
    AutoReconnect = TRUE
    InitialMs = 1
    MaxMs = 1
    ClientIds = {7}
    SeqMod = 1
    UdpFaultPhases = {"none", "connecting", "open", "destroyed"}
    Hang = 2
    Refresh = 3
    Gate = 1
INVARIANTS
    PeerTxImpliesTx
    TxEndsAfterSilence
    ReannouncedInTime
PROPERTIES
    TxOutlastsPauses
CHECK_DEADLOCK FALSE
