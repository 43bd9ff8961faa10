SPECIFICATION FairSpec
CONSTANTS
    n1 = n1
    n2 = n2
    n3 = n3
    n4 = n4
    k1 = k1
    a = a
    b = b
    Nil = Nil
    Key = {k1}
    Arg = {a, b}
    MaxTime = 3
    Node = {n1, n2, n3, n4}
    Dc = {"dc1", "dc2"}
    DcOf <- OneRemote
    LocalDc = "dc1"
    ReadKey = k1
    Writes <- DeletedLast
    Reads = {1}
    Requests <- ManyLevels
    MayFail = {n2}
INVARIANTS TypeOK ReadFresh RepairSpreads Converged
PROPERTIES  ReadEnds
CHECK_DEADLOCK FALSE
