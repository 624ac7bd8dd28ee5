SPECIFICATION Spec
CONSTANTS
    Procs = {p1, p2, p3}
    Blocks = {k1, k2, k3}
    Vals = {v0, v1}
    NBUF = 2
    NoBlock = NoBlock
    Nobody = Nobody
    NoCopy = NoCopy
SYMMETRY Symm
INVARIANTS
    OneCopy
    GetsWhatItAsked
    Exclusive
    RefsCounted

    
