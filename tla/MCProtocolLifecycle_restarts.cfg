CONSTANTS
    Controllers = {c1, c2}
    Apps = {a1}
    QueueCap = 2
    MaxStarts = 2
SPECIFICATION FairSpec
INVARIANTS SendersAccounted ReceiversTold
PROPERTIES EndsForGood StopReturns
CHECK_DEADLOCK FALSE
