-------------------------- MODULE MCExecutionOrder --------------------------
(* Instances of ExecutionOrder for TLC. *)
EXTENDS ExecutionOrder, Algorithms

Edges(g) == {e \in Inst \X Inst : e[2] \in g[e[1]]}
IrreflexiveGraphs == {g \in [Inst -> SUBSET Inst] : \A i \in Inst : i \notin g[i]}

\* Any two instances are ordered, if only by others between them: those with few
\* dependencies are where leaving an instance out can matter
LinkedGraphs ==
    {g \in IrreflexiveGraphs :
        /\ Cardinality(Edges(g)) <= 4
        /\ \A i, j \in Inst : Reaches(g, Inst, i, j) \/ Reaches(g, Inst, j, i)}

\* Of any two instances one depends on the other, not both, and all are one
\* component; those in which 2 depends on 1
DirectGraphs ==
    {g \in IrreflexiveGraphs :
        /\ DirectlyOrdered(g) /\ Cardinality(Edges(g)) = 6
        /\ 1 \in g[2]
        /\ \A i, j \in Inst : Reaches(g, Inst, i, j)}

SomeGraphs == LinkedGraphs \cup DirectGraphs

\* Two goroutines at a time where any two instances are ordered directly
Goroutines(g) == IF g \in DirectGraphs THEN 2 ELSE 1

TwoListings ==
    {[S \in SUBSET Inst |-> SetToSortSeq(S, <)], [S \in SUBSET Inst |-> SetToSortSeq(S, >)]}

\* The sort of every graph that occurs (@@ makes TLC compute the tables once)
SortTable ==
    [D \in SomeGraphs |->
        [G \in SUBSET Inst |->
            [ls \in TwoListings |-> tarjan(D, G, ls)] @@ <<>>] @@ <<>>] @@ <<>>
Sort(D, G, ls) == SortTable[D][G][ls]
=============================================================================
