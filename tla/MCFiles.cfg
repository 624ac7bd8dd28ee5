SPECIFICATION Spec
CONSTANTS
    Procs = {p1, p2}
    Nobody = Nobody
    NINODES = 3
    NINODE = 1
    Named = {1}
    MaxSize = 1
    NotRead = NotRead
    NUM_PAGES = 2
    NFILE = 2
    MaxRefs = 2
SYMMETRY Symm
INVARIANTS
    CopyCurrent
    CountsExact
    OpenInodeAllocated
    PipePages
