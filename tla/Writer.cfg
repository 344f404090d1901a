SPECIFICATION FairSpec
CONSTANTS
    None = None
    ContextMayDie = TRUE
    WritesMayFail = TRUE
    RelayMayStall = TRUE
    RelayMayDie = TRUE
    MaxVersion = 5
INVARIANTS
    TypeOK
    NothingForgotten
    FinalWriteComplete
    GivesUpOnlyWhenDead
    StoppedIsTold
    WriterInv
PROPERTIES
    OnlyNewer
    EndIsNotWedged
CHECK_DEADLOCK FALSE
