\* One virtual node per two units of disk, between one and three for a node.
CONSTANTS
    SUSPECTTHRESHOLD = 1
    DOWNGRACEPERIOD = 1
    GB = 2
    VIRTUALNODESPERGB = 1
    MINVIRTUALNODES = 1
    MAXVIRTUALNODES = 3
    RingSize = 9
    RingPosition <- MCRingPosition
    Node <- MCNode
    RF = 2
    Budget <- MCBudget
    Disks <- MCDisks
SPECIFICATION Spec
INVARIANTS TypeOK CandidatesAreNearest RepairFollowsPlacement OneNodeMovesOne
CHECK_DEADLOCK FALSE
