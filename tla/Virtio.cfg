SPECIFICATION Spec
CONSTANTS
    Procs = {p1, p2, p3}
    VIRTIO_RING_SIZE = 8
    Nobody = Nobody
    HandlerCalled = TRUE
INVARIANTS
    DescriptorsExact
    NoEarlyAnswer
