\* An upload that takes longer than GC_ORPHAN_GRACE_SECONDS.
CONSTANTS
    Node <- MCNode
    Worker = {w1}
    RF = 2
    W = 2
    MaxTrouble = 2
SPECIFICATION Spec
INVARIANT AckedStays
CHECK_DEADLOCK FALSE
