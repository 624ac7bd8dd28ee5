SPECIFICATION OutputSpec
CONSTANTS
    IntBits = 6
    LongBits = 8
    Numbers <- MCNumbers
    Numeric <- MCNumeric
    Bufs <- MCBufs
    Counts <- MCCounts
    Fds = {1, 3}
    Pid = 5
    CallNumbers <- MCCallNumbers
    SchedulerReturns = FALSE
    Acknowledges = TRUE
    MaxCalls = 2
CHECK_DEADLOCK FALSE
INVARIANTS
    Told
    ResultOfCall
    LostOnlyIfCut
