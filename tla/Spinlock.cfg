SPECIFICATION Spec
CONSTANTS
    NPROC = 2
    NUM_PAGES = 2
    Used = {"log_write", "buf_get", "log_begin_op", "log_end_op", "fork", "wait", "pipe_alloc", "pipe_close"}
CHECK_DEADLOCK FALSE
INVARIANTS
    Exclusion
    HangNeedsNesting
    WrongPageNeedsRelease
