SPECIFICATION Spec
CONSTANTS
    n1 = n1
    n2 = n2
    n3 = n3
    n4 = n4
    k1 = k1
    a = a
    b = b
    Nil = Nil
    Key = {k1}
    Arg = {a, b}
    MaxTime = 3
    Node = {n1, n2, n3}
    Dc = {"dc1", "dc2"}
    DcOf <- OneCenter
    LocalDc = "dc1"
    ReadKey = k1
    Writes <- DeletedFirst
    Reads = {1}
    Requests <- OneLevel
    MayFail = {}
INVARIANTS Converged
CHECK_DEADLOCK FALSE
