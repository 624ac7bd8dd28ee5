SPECIFICATION Spec
CONSTANTS
    Procs = {p1, p2}
    Blocks = {b1, b2, b3}
    Vals = {v0, v1}
    LOGSIZE = 6
    MAXOPBLOCKS = 3
    OpWrites = 2
    NBUF = 9
SYMMETRY Symm
INVARIANTS
    CommitIsAlone
    AdmittedFits
    PinnedExactlyLogged
PROPERTIES
    AtomicTransactions
