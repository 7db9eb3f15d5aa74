SPECIFICATION FairSpec
CONSTANTS
    HasDtmf = TRUE
    RemoteKnown = FALSE
    Hang = 3
    OpenDelay = 2
    StartTime = 3
    Frames = 3
PROPERTIES
    AudioAfterStartDigits
CHECK_DEADLOCK FALSE
