\* Five chunks for three workers: one can be far behind the others.
CONSTANTS
    Worker = {w1, w2, w3}
    N = 5
    Replicas = 2
SPECIFICATION FairSpec
INVARIANTS TypeOK OutputIsPrefix ClosedIsComplete
PROPERTIES NothingAfterTheEnd TransferEnds
CHECK_DEADLOCK FALSE
