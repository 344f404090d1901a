SPECIFICATION Spec
CONSTANTS
    t1 = t1
    r1 = r1
    None = None
    Tabs = {t1}
    Rooms = {r1}
    MergeGap = 2
    Minute = 1
    Retention = 2
    MergeModes = {TRUE}
    Privacies = {TRUE, FALSE}
    WorkerMayDieBusy = TRUE
    StorageMayFail = TRUE
    DownloadsMayFail = TRUE
    SavesMayFail = FALSE
    SavesEnabled = FALSE
    SavesMayOutlastMeeting = FALSE
    WipesEnabled = FALSE
    DeletesEnabled = FALSE
    ReloadsAfterLeave = TRUE
    LobbyOutlastsFinalize = TRUE
    LastInstant = 3
    MaxWords = 1
    MaxStarts = 1
INVARIANTS
    Tracked
    Custody
    UnmergedExportTrail
PROPERTIES
    RemovedOnlyWhenKept
    ClearedOnlyWhenExported
CHECK_DEADLOCK FALSE
