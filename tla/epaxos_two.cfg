SPECIFICATION FairSpec
CONSTANTS
    n1 = n1
    n2 = n2
    n3 = n3
    k1 = k1
    Nil = Nil
    Node = {n1, n2, n3}
    Inst = {1, 2}
    Key = {k1}
    KeyOf <- OneKey
    Leader <- SpreadLeaders
    After <- Concurrent
    Failing = {}
    MayTimeout = {}
INVARIANTS TypeOK CommittedAgree GraphLinked SameOrder 
PROPERTIES ImplementsAgreement ReplicaNeverBack ClientsAnswered
