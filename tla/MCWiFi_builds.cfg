CONSTANTS
    Leases = {1, 2}
    ApIp = 9
    Callers = {c1, c2}
    MaxEvents = 2
    MaxScans = 3
SPECIFICATION FairSpec
INVARIANTS CurrentIp ScanAwaited
PROPERTIES KeepsTrying
CHECK_DEADLOCK FALSE
