CONSTANTS
    FirstSize = 1
    Grow = 1
    FullSize = 4
    MaxBytes = 6
    MaxHandles = 2
SPECIFICATION FairSpec
INVARIANTS NothingElseLost LossesDouble DestructorWaits
PROPERTIES DestructorSettles ArrivedIsRead
CHECK_DEADLOCK FALSE
