SPECIFICATION FairSpec
CONSTANTS
    Nil = Nil
    Thread = {"t1", "t2"}
    Conn = {1, 2, 3}
    maxConn = 1
    MaxSends = 2
    Fragile = {1, 2}
INVARIANTS TypeOK OwnAnswer LockStep PoolSound
PROPERTIES SendEnds
CHECK_DEADLOCK FALSE
