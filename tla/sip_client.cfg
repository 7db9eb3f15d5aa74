SPECIFICATION FairSpec
CONSTANTS
    AutoConnect = TRUE
    Attempts = 2
    MaxCSeq = 4
    MaxDials = 2
INVARIANTS
    AckAnswersInvite
PROPERTIES
    DialogSpec
    KeepsRegistered
CHECK_DEADLOCK FALSE
