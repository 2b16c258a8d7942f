SPECIFICATION Spec
CONSTANTS
    Process = {p1, p2}
    Task = {t1}
    Reader = {r1}
    Pool = 2
    MaxDeaths = 1
    MaxFaults = 1
    None = None
SYMMETRY Symmetry
INVARIANTS EndedIsRecorded
PROPERTIES NoResurrection ResultKept
CHECK_DEADLOCK FALSE
