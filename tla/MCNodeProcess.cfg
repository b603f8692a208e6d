\* Two chunks for a budget of one and a half.
CONSTANTS
    Chunk = {c1, c2}
    Thread = {t1, t2}
    ChunkSize = 2
    Budget = 3
SPECIFICATION FairSpec
INVARIANTS TypeOK AckedIsWhole BudgetBound LeavingStaysMarked
PROPERTIES ShutdownEnds HeardAgain
