SPECIFICATION FairSpec
CONSTANTS
    NPROC = 3
    NUM_PAGES = 11
    MaxPid = 6
    SchedulerReturns = TRUE
    TimerOn = TRUE
INVARIANTS
    TypeOK
    PageAccounting
    DispatchableIsComplete
    CurrentIsLive
PROPERTIES
    OnlyWaitEndsZombie
    NoStarvation
CHECK_DEADLOCK FALSE
