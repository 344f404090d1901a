SPECIFICATION Spec
CONSTANTS
    t1 = t1
    t2 = t2
    r1 = r1
    None = None
    Tabs = {t1, t2}
    Rooms = {r1}
    MergeGap = 2
    Minute = 1
    Retention = 2
    MergeModes = {TRUE}
    Privacies = {FALSE}
    WorkerMayDieBusy = FALSE
    StorageMayFail = FALSE
    DownloadsMayFail = FALSE
    SavesMayFail = FALSE
    SavesEnabled = FALSE
    SavesMayOutlastMeeting = FALSE
    WipesEnabled = TRUE
    DeletesEnabled = TRUE
    ReloadsAfterLeave = FALSE
    LobbyOutlastsFinalize = TRUE
    LastInstant = 3
    MaxWords = 1
    MaxStarts = 0
INVARIANTS
    CommittedOnce
SYMMETRY AnyTab
CHECK_DEADLOCK FALSE
