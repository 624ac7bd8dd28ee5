SPECIFICATION Spec
CONSTANTS
    Procs = {p1, p2}
    Blocks = {b1, b2}
    Vals = {v0, v1}
    LOGSIZE = 3
    MAXOPBLOCKS = 1
    OpWrites = 2
    NBUF = 4
PROPERTIES
    WriteAhead
