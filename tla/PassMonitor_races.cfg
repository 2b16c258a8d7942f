SPECIFICATION Spec
CONSTANTS
    Proc = {p1, p2}
    Opens = 1
    Closes = 1
    MaxEntries = 2
    MaxClock = 2
    MaxRequests = 1
    MaxFaults = 1
    MaxCrashes = 0
SYMMETRY Symmetry
INVARIANTS OneScrapePerMinute
PROPERTY EarlyHandOverOnlyClosing
CHECK_DEADLOCK FALSE
