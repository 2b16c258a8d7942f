SPECIFICATION Spec
CONSTANTS
    Process = {p1, p2}
    Task = {t1}
    Reader = {r1}
    Pool = 2
    MaxDeaths = 0
    MaxFaults = 0
    None = None
PROPERTY LiveWorkKept
CHECK_DEADLOCK FALSE
