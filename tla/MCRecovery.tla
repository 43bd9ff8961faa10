----------------------------- MODULE MCRecovery -----------------------------
(* Instances of Recovery for TLC. *)
EXTENDS Recovery

CONSTANTS n1, n2, n3, k1

OneKey == [i \in Inst |-> k1]
InOrder == <<n2, n3>>

\* Instance 2 is committed at all nodes but the last
UnknownAtLast == [n \in Node |-> IF n = n3 THEN {} ELSE {2}]
NothingElse   == [n \in Node |-> {}]
=============================================================================
