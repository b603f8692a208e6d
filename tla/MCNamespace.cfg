\* Two browsers that may type two passphrases; the coordinator starts twice.
CONSTANTS
    Browser = {b1, b2}
    Thread = {t1, t2}
    Name = {n1}
    Passphrase = {p1, p2}
    NoKey = NoKey
    Nobody = Nobody
    MaxBoots = 2
SPECIFICATION Spec
INVARIANTS TypeOK OneAccountPerName UnlockedWasShared OneSalt FirstWriteWins
CHECK_DEADLOCK FALSE
