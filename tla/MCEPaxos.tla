------------------------------ MODULE MCEPaxos ------------------------------
(* Instances of EPaxos for TLC. *)
EXTENDS EPaxos

CONSTANTS n1, n2, n3, k1

OneKey == [i \in Inst |-> k1]

\* Every instance has another leader
SpreadLeaders == [i \in Inst |-> CASE i = 1 -> n1 [] i = 2 -> n2 [] i = 3 -> n3]
BackwardLeaders == [i \in Inst |-> CASE i = 1 -> n3 [] i = 2 -> n2 [] i = 3 -> n1]

\* All clients at once, or each one after the answers to the earlier ones
Concurrent == [i \in Inst |-> {}]
Sequential == [i \in Inst |-> {j \in Inst : j < i}]
=============================================================================
