SPECIFICATION Spec
CONSTANTS
    MaxFrame = 6
    PerConnection = 3
    Connections = 2
INVARIANTS
    Understood
CHECK_DEADLOCK FALSE
