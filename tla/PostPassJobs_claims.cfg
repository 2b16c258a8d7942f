SPECIFICATION Spec
CONSTANTS
    Job = {j1}
    Worker = {w1, w2}
    Monitor = {m1}
    Client = {c1}
    Expected <- AfterAnHour
    Backoff = 1
    ClaimLease = 2
    MaxWait = 1
    BatchLimit = 1
    MaxClock = 4
    MaxScans = 2
    MaxFaults = 0
    MaxCrashes = 1
    None = None
SYMMETRY Symmetry
INVARIANTS ExclusiveWork ScannedOnce
PROPERTIES FirstClobberIsLate CompletedIsFinal
CHECK_DEADLOCK FALSE
