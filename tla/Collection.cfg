SPECIFICATION Spec
CONSTANTS
    Run = {r1, r2}
    Cooldown <- Cooldowns
    Stale = 1
    MaxAisClock = 1
    MaxFailures = 2
    MaxDbFaults = 1
    MaxAdmin = 1
    NoRow = NoRow
    NoEdit = NoEdit
    p1 = p1
    p2 = p2
    Dispatch = {d1, d2}
    Provider = {p1, p2}
    Chain <- TwoProviders
    Commercial = {p2}
    DailyLimit = 1
    MaxUsed = 4
    MaxStoreFaults = 1
    MaxOperator = 1
INVARIANTS OverrunBounded OneAcquisition
PROPERTIES CooldownRespected DisabledStaysDisabled
SYMMETRY Symmetry
CHECK_DEADLOCK FALSE
