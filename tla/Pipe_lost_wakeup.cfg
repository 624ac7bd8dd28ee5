SPECIFICATION FairSpec
CONSTANTS
    Readers = {r1}
    Writers = {w1}
    Byte = {x}
    PIPESIZE = 2
    Width = 6
    MaxCall = 3
    MaxBytes = 4
PROPERTIES
    SleepOnlyWhenNeeded
CHECK_DEADLOCK FALSE
