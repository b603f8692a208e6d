\* Three nodes: copies on all of them are one more than RF, so that two
\* releases compete for the surplus, and a drained node has a spare.
CONSTANTS
    Node = {n1, n2, n3}
    Worker = {w1, w2}
    NoNode = none
    RF = 2
    W = 2
SPECIFICATION Spec
SYMMETRY Symmetry
INVARIANTS TypeOK ReleaseInv QuorumFloor
PROPERTY KeepsPromise
CHECK_DEADLOCK FALSE
