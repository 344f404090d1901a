SPECIFICATION Spec
CONSTANTS
    None = None
    ContextMayDie = TRUE
    WritesMayFail = FALSE
    RelayMayStall = FALSE
    RelayMayDie = TRUE
    MaxVersion = 2
PROPERTIES
    NowhereLeftIsTold
CHECK_DEADLOCK FALSE
