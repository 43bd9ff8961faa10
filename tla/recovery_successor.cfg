SPECIFICATION Spec
CONSTANTS
    n1 = n1
    n2 = n2
    n3 = n3
    k1 = k1
    Nil = Nil
    Node = {n1, n2, n3}
    Leader = n1
    Inst = {1, 2}
    Target = 1
    Key = {k1}
    KeyOf <- OneKey
    Successors <- InOrder
    Knows <- UnknownAtLast
    Preparers = {n3}
    MayStop = {n1}
    MayTimeout = {}
    Tries = 1
INVARIANTS DepsAgreed
CHECK_DEADLOCK FALSE
