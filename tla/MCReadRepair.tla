---------------------------- MODULE MCReadRepair ----------------------------
(* Instances of ReadRepair for TLC. *)
EXTENDS ReadRepair

CONSTANTS n1, n2, n3, n4, k1, a, b

OneRemote == [n \in Node |-> IF n = n4 THEN "dc2" ELSE "dc1"]
OneCenter == [n \in Node |-> "dc1"]

At(l, s) == [level |-> l, sync |-> s]
ManyLevels == {At("ONE", TRUE), At("QUORUM", FALSE), At("ALL", TRUE), At("CONSENSUS", FALSE)}
OneLevel == {At("QUORUM", FALSE)}

SET(v, t) == [cmd |-> "SET", key |-> k1, args |-> <<v>>, time |-> t]
DEL(t)    == [cmd |-> "DEL", key |-> k1, args |-> <<>>, time |-> t]

DeletedLast  == <<SET(a, 1), SET(b, 2), DEL(3)>>
DeletedFirst == <<SET(a, 1), DEL(2), SET(b, 3)>>
=============================================================================
