\* A line of five bytes through a FIFO of three slots into a ring buffer of two.
SPECIFICATION Spec
CONSTANTS
    N = 2
    Bytes = {0, 1, 2, 3, 4}
    BufSz = 3
    MaxBytes = 5
INVARIANTS PipelineOrdered
PROPERTIES RingIsQueue Drains
