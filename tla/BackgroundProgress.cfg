SPECIFICATION FairSpec
CONSTANTS
    t1 = t1
    r1 = r1
    None = None
    Tabs = {t1}
    Rooms = {r1}
    MergeGap = 2
    Minute = 1
    Retention = 2
    MergeModes = {TRUE, FALSE}
    Privacies = {TRUE, FALSE}
    WorkerMayDieBusy = TRUE
    StorageMayFail = FALSE
    DownloadsMayFail = FALSE
    SavesMayFail = FALSE
    SavesEnabled = FALSE
    SavesMayOutlastMeeting = FALSE
    WipesEnabled = FALSE
    DeletesEnabled = FALSE
    ReloadsAfterLeave = FALSE
    LobbyOutlastsFinalize = TRUE
    LastInstant = 3
    MaxWords = 1
    MaxStarts = 1
PROPERTIES
    PendingIsSettled
    OrphanIsFinalized
    EndIsAnswered
CHECK_DEADLOCK FALSE
