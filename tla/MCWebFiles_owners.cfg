CONSTANTS
    Fds = {f1}
    Backends = {b1, b2}
    Stoppers = {s1}
    Null = Null
    Headers <- AllHeaders
    MaxHeaders = 4
    Sizes = {0, 3}
    Ranges <- MCRanges
    ChunkLen = 2
    Word = 16
    MaxVersion = 2
SPECIFICATION SiteFairSpec
INVARIANTS ConnectionsAccounted SentAsAnnounced
PROPERTIES RegistrationFollows ClosesItsOwn StopGetsThrough
CHECK_DEADLOCK FALSE
