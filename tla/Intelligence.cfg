SPECIFICATION Spec
CONSTANTS
    Analysis = {a1, a2}
    Renamer = {r1}
    ScanId = {s1, s2}
    DarkRisk = {"NOMINAL", "CRITICAL"}
    MaxRemovals = 1
    MaxFileFaults = 1
    NoMetadata = NoMetadata
    NoResults = NoResults
    NoGhosts = NoGhosts
    Nobody = Nobody
    Torn = Torn
    Ship = {d1, d2, d3}
    Vessel = {v1, v2}
    Score = {1, 2}
    MaxLag = 2
    TimeLimit = 1
    MaxGap = 2
    Tolerance = 1
    Call = {c1, c2}
    Event = {e1, e2}
    MaxCalls = 3
    MaxRestarts = 1
    MaxHookFaults = 1
    MaxSignals = 3
    Download = {t1, t2, t3}
    MaxRetries = 1
    MaxLapses = 1
    MaxTileFaults = 1
    NoInode = NoInode
    Axis = {0, 2, 4}
    Scan <- Scans
    Regime <- Regimes
    Report <- Reports
    MaxReports = 3
    Target <- DarkTargets
    Registry <- Registered
    Hops = {0, 1, 2}
    Cap = 6
    NoPort <- Seas
    Short <- Abbreviated
    Absent = Absent
INVARIANTS CatalogCurrent GhostsAreItsOwn DeletedStaysDeleted
    StableMatching SentOnce HardDeadline ExitIsClean
    PictureIntact ZonesTile NetworkSound
SYMMETRY Symmetry
CHECK_DEADLOCK FALSE
