SPECIFICATION FairSpec
CONSTANTS
    Conn = {w1}
    Tag = {t1, t2}
    Buffer = 1
    OutCapacity = 1
    MaxKeys = 1
    MaxUpdates = 2
INVARIANTS
    TypeOK
    IndexAgrees
    NothingMissed
PROPERTY DroppedIsClosed
