SPECIFICATION Spec
CONSTANTS
    AoiRequest = {q1, q2}
    Check = {k1}
    Budget = {0, 1}
    PassTime = {1}
    ForecastTTL = 1
    MaxAoiClock = 1
    MaxSpent = 2
    MaxEdits = 2
    NoAoi = NoAoi
    NoForecast = NoForecast
    Writer = {w1, w2}
    Index = {i1}
    Detection = {d1, d2}
    MaxSubmits = 2
    MaxDetects = 1
    MaxDeaths = 1
    NoReview = NoReview
    NoDetection = NoDetection
    Worker = {g1, g2}
    NScripts = 2
    Key = {s1, s2}
    Value = {v1}
    Default = Default
    Absent = Absent
    MaxStarts = 5
    MaxSettings = 3
    Creator = {c1, c2}
    Archiver = {a1, a2}
    MaxArchives = 3
    MaxDeletes = 1
    MaxDiskFaults = 1
    NoScan = NoScan
    NoFile = NoFile
    RequestThread = {t1, t2}
    Limit = 2
    Window = 3
    MaxLockLag = 1
    MaxRequestClock = 5
    Backfill = {b1, b2}
    Place <- Places
    Radius = 5
    NPasses = 3
    MaxTargets = 2
    MaxScenes = 3
    ShareNum = 2
    ShareDen = 5
    MaxBackfills = 3
    MaxUnread = 1
    MaxWriteFaults = 1
    NoInode = NoInode
    Torn = Torn
    Partial = Partial
    Message <- Messages
    Sought = {"star"}
    Correction <- Corrections
    PageSize = {1}
    Lookback = 1
    MaxMessages = 3
    MaxCorrections = 1
    MaxRegistryClock = 2
    NoChange = NoChange
INVARIANTS SpendingExact NoOrphanForecast TrailExplains
    ServesWholeSchema SettingsKept ScanKept
    WindowHeld BaselineServed PagesMeetAll
SYMMETRY Symmetry
CHECK_DEADLOCK FALSE
