SPECIFICATION FairSpec
CONSTANTS
    Proc = {p1}
    Opens = 1
    Closes = 1
    MaxEntries = 2
    MaxClock = 2
    MaxRequests = 2
    MaxFaults = 1
    MaxCrashes = 1
PROPERTY MonitoredPassHandedOver
CHECK_DEADLOCK FALSE
