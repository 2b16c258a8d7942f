SPECIFICATION Spec
CONSTANTS
    Job = {j1, j2}
    Worker = {w1}
    Monitor = {}
    Client = {}
    Expected <- AfterAnHour
    Backoff = 1
    ClaimLease = 2
    MaxWait = 1
    BatchLimit = 2
    MaxClock = 3
    MaxScans = 2
    MaxFaults = 1
    MaxCrashes = 0
    None = None
INVARIANT ClaimsHaveHolders
CHECK_DEADLOCK FALSE
