SPECIFICATION FairSpec
CONSTANTS
    Job = {j1}
    Worker = {w1, w2}
    Monitor = {m1}
    Client = {c1}
    Expected <- AfterAnHour
    Backoff = 1
    ClaimLease = 2
    MaxWait = 1
    BatchLimit = 1
    MaxClock = 3
    MaxScans = 1
    MaxFaults = 0
    MaxCrashes = 0
    None = None
PROPERTY EveryJobSettles
CHECK_DEADLOCK FALSE
