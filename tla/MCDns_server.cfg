CONSTANTS
    Peers = {p1, p2}
    InboxCap = 2
    MaxStarts = 2
    Queries <- MCQueries
    HeaderLen = 12
    AnswerLen = 16
    SizeLimit = 256
    BufferLen = 64
    NameLimit = 64
SPECIFICATION FairSpec
INVARIANTS PortFollowsTask AnswersReachTheAsker RepliesAreSound
PROPERTIES EndsForGood Drains
CHECK_DEADLOCK FALSE
