---------------------------- MODULE MCMembership ----------------------------
(* Instances of Membership for TLC. *)
EXTENDS Membership

CONSTANTS n1, n2, n3

Tokens == [c \in Node |-> CASE c = n1 -> 3 [] c = n2 -> 1 [] OTHER -> 5]
OneCenter == [c \in Node |-> "dc1"]

\* n1 and n2 start together, each with the other as its seed; n3 joins them
SeedsOf == [c \in Node |-> CASE c = n1 -> <<n2>> [] c = n2 -> <<n1>> [] OTHER -> <<n2, n1>>]
JoinsLast == [c \in Node |-> IF c = n3 THEN {n1, n2} ELSE {}]
=============================================================================
