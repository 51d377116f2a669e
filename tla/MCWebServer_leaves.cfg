CONSTANTS
    Fds = {f1}
    Backends = {b1}
    Stoppers = {s1}
    Null = Null
    Headers <- OneHeader
    MaxHeaders = 1
SPECIFICATION ServerFairSpec
PROPERTIES StopStops
CHECK_DEADLOCK FALSE
