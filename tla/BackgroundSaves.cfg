SPECIFICATION Spec
CONSTANTS
    t1 = t1
    r1 = r1
    r2 = r2
    None = None
    Tabs = {t1}
    Rooms = {r1, r2}
    MergeGap = 2
    Minute = 1
    Retention = 2
    MergeModes = {TRUE}
    Privacies = {FALSE}
    WorkerMayDieBusy = FALSE
    StorageMayFail = FALSE
    DownloadsMayFail = FALSE
    SavesMayFail = TRUE
    SavesEnabled = TRUE
    SavesMayOutlastMeeting = FALSE
    WipesEnabled = FALSE
    DeletesEnabled = FALSE
    ReloadsAfterLeave = FALSE
    LobbyOutlastsFinalize = TRUE
    LastInstant = 5
    MaxWords = 2
    MaxStarts = 0
INVARIANTS
    TypeOK
    NoEmptyFile
    PartialIsReplaced
    RecordDiesWithSession
PROPERTIES
    OnlyGrows
    ReplacedOnlyWhenKept
CHECK_DEADLOCK FALSE
