SPECIFICATION FairSpec
CONSTANTS
    Worker = {w1, w2}
    Job <- BothJobs
    TTL = 2
    MaxClock = 3
    MaxFaults = 1
    NoLease = NoLease
    Never = Never
INVARIANTS AtMostOneFreshLeader OverlapOnlyPastLease
PROPERTIES StandbyTakesOver ImplementsReign
CHECK_DEADLOCK FALSE
