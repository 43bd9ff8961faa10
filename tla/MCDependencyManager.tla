------------------------ MODULE MCDependencyManager ------------------------
(* Instances of DependencyManager for TLC. *)
EXTENDS DependencyManager, TLC

CONSTANTS i1, i2, i3, i4, a

FourInst == {i1, i2, i3, i4}
OneMissed == {i1}

FlatPaths == {<<a>>}
FlatKeys == [i \in Inst |-> <<a>>]

Symmetry == Permutations(Inst \ Missed)
=============================================================================
