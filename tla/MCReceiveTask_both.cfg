CONSTANTS
    f1 = f1
    f2 = f2
    Fds <- MCFds
    Lengths = {0, 1, 5}
    Mixes <- MCMixes
    ShortLen = 3
    Chunk = 4
    MaxPayload = 6
    MaxUnread = 1
    UdpLengths = {5}
    FirstBuf = 4
    Step = 1
    MaxInbox = 1
SPECIFICATION FairSpec
INVARIANTS DecodersSound MessagesIntact
PROPERTIES NobodyStarves GoneAreClosed
CHECK_DEADLOCK FALSE
