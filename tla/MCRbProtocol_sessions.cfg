CONSTANTS
    Apps = {a1}
    UdpAddrs = {u1}
    WsAddrs = {w1}
    NoAddr = NoAddr
    QueueCap = 1
    MaxBurst = 1
    MaxAttempts = 2
    Window = 2
    Numbers <- MCNumbers
    Acks = {1}
    Fs = {0, 1}
    NoF = 9
    MaxWrite = 0
    MaxId = 1
SPECIFICATION Spec
INVARIANTS IInv UniqueIds DeliveredOnce
PROPERTIES GivenUpOnlyAfterBudget ImplementsSession
CHECK_DEADLOCK FALSE
