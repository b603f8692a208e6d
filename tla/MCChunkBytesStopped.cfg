\* A draining node that stops before its chunks were moved.
CONSTANTS
    Node <- MCNode
    Worker = {w1}
    RF = 2
    W = 2
    MaxTrouble = 2
SPECIFICATION FairSpec
PROPERTY RepairHealsFromAnyCopy
CHECK_DEADLOCK FALSE
