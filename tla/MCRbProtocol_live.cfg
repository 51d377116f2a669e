CONSTANTS
    Apps = {a1}
    UdpAddrs = {u1}
    WsAddrs = {}
    NoAddr = NoAddr
    QueueCap = 1
    MaxBurst = 1
    MaxAttempts = 2
    Window = 2
    Numbers <- OneNumber
    Acks = {0}
    Fs = {0}
    NoF = 9
    MaxWrite = 0
    MaxId = 1
SPECIFICATION FairSpec
PROPERTIES Settles CallsReturn
CHECK_DEADLOCK FALSE
