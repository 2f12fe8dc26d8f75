SPECIFICATION Spec
CONSTANTS
    mover = mover
    Threads = {p1, p2, mover}
    Jobs <- MCJobs
    Times <- MCTimes
    QueueCount = 2
    BlockSize = 5
    MaxBlocks = 1
    TagSpace = 4
    None = None
PROPERTIES ImplementsFifo
CHECK_DEADLOCK FALSE
