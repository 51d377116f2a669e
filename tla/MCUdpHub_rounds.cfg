CONSTANTS
    Ports = {1, 2}
    Fds = {0, 1, 2}
    Datagrams = {d1, d2}
    InboxCap = 1
    MaxHandles = 2
SPECIFICATION FairSpec
INVARIANTS SocketsMatchCallbacks GivenOnceInOrder
PROPERTIES RoundEnds
CHECK_DEADLOCK FALSE
