\* One PUT at a time; the session may expire.
CONSTANTS
    Chunk = {c1}
    Thread = {t1}
    ChunkSize = 1
    Budget = 1
SPECIFICATION FairSpec
PROPERTIES KnownAlive
