SPECIFICATION Spec
CONSTANTS
    t1 = t1
    r1 = r1
    None = None
    Tabs = {t1}
    Rooms = {r1}
    MergeGap = 2
    Minute = 1
    Retention = 2
    MergeModes = {TRUE}
    Privacies = {FALSE}
    WorkerMayDieBusy = TRUE
    StorageMayFail = FALSE
    DownloadsMayFail = TRUE
    SavesMayFail = FALSE
    SavesEnabled = FALSE
    SavesMayOutlastMeeting = FALSE
    WipesEnabled = FALSE
    DeletesEnabled = FALSE
    ReloadsAfterLeave = FALSE
    LobbyOutlastsFinalize = TRUE
    LastInstant = 3
    MaxWords = 1
    MaxStarts = 2
INVARIANTS
    ExportTrail
CHECK_DEADLOCK FALSE
