CONSTANTS
    Peers = {p1}
    InboxCap = 2
    MaxStarts = 1
    Queries <- MCQueries
    HeaderLen = 12
    AnswerLen = 16
    SizeLimit = 256
    BufferLen = 64
    NameLimit = 64
SPECIFICATION Spec
INVARIANTS ExtraDropped
CHECK_DEADLOCK FALSE
