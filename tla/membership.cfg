SPECIFICATION FairSpec
CONSTANTS
    n1 = n1
    n2 = n2
    n3 = n3
    Nil = Nil
    Node = {n1, n2, n3}
    TokenOf <- Tokens
    DcOf <- OneCenter
    Seeds <- SeedsOf
    replicationFactor = 2
    TokenSpace = 6
    Flaky = {n1}
    MayStop = {n3}
    After <- JoinsLast
INVARIANTS TypeOK TopologySound InfoTrue RoutesAgree ReplicasNearest Mutual
PROPERTIES ReplicasStable 
CHECK_DEADLOCK FALSE
