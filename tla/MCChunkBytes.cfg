\* Two coordinator threads beside the GC thread, one trouble.
CONSTANTS
    Node <- MCNode
    Worker = {w1, w2}
    RF = 2
    W = 2
    MaxTrouble = 1
SPECIFICATION FairSpec
INVARIANTS TypeOK LostOnlyToRaces 
PROPERTIES RepairHeals OrphansReclaimed
CHECK_DEADLOCK FALSE
