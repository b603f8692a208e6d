\* Four nodes: two rounds of a write quorum each.
CONSTANTS
    Node = {n1, n2, n3, n4}
    Worker = {w1, w2}
    N = 2
    RF = 2
    W = 2
    MaxRounds = 2
    MaxId = 2
SPECIFICATION FairSpec
INVARIANTS TypeOK RecordedIsDurable ReplacedInOrder
PROPERTIES NoNodeTwice UploadEnds
CHECK_DEADLOCK FALSE
