SPECIFICATION FairSpec
CONSTANTS
    Process = {p1, p2, p3}
    Task = {t1}
    Reader = {r1}
    Pool = 1
    MaxDeaths = 2
    MaxFaults = 0
    None = None
PROPERTY TasksSettle
CHECK_DEADLOCK FALSE
