SPECIFICATION Spec
CONSTANTS
    Procs = {p1, p2}
    Nobody = Nobody
    File = {f1, f2}
    BSIZE = 2
    NDIRECT = 6
    NINDIRECT = 2
    MAXOPBLOCKS = 6
    LOGSIZE = 12
    Width = 32
    Sizes = {3, 12, 16}
    Count <- MCCount
    MaxCalls = 3
    MaxFails = 1
SYMMETRY Symm
CHECK_DEADLOCK FALSE
INVARIANTS
    WithinReservation
    ArrayLeftOnlyIndirect
PROPERTIES
    IsByteFile
