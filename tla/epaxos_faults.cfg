SPECIFICATION Spec
CONSTANTS
    n1 = n1
    n2 = n2
    n3 = n3
    k1 = k1
    Nil = Nil
    Node = {n1, n2, n3}
    Inst = {1, 2, 3}
    Key = {k1}
    KeyOf <- OneKey
    Leader <- BackwardLeaders
    After <- Sequential
    Failing = {2}
    MayTimeout = {3}
INVARIANTS CommittedAgree
PROPERTIES ImplementsAgreement
