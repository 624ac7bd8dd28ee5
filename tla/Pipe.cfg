SPECIFICATION Spec
CONSTANTS
    Readers = {r1, r2}
    Writers = {w1, w2}
    Byte = {x, y}
    PIPESIZE = 3
    Width = 6
    MaxCall = 2
    MaxBytes = 5
PROPERTIES
    IsQueue
CHECK_DEADLOCK FALSE
