--------------------------- MODULE ExecutionOrder ---------------------------
(***************************************************************************)
(* How one node executes committed instances (consensus/manager_execute.go *)
(* and algorithms.go).  Every query the node leads runs executeInstance in *)
(* a goroutine of its own: it collects the part of the dependency graph    *)
(* that still matters, leaving executed instances out where it may, sorts  *)
(* it by strongly connected components and executes it up to its own       *)
(* instance.  It takes no lock for the whole of that: other goroutines     *)
(* execute while it walks the graph.  The committed graph is given and all *)
(* instances are committed; the question is whether instances left out,    *)
(* and other goroutines at work, ever change the order the graph           *)
(* prescribes.                                                             *)
(***************************************************************************)
EXTENDS Naturals, Sequences, FiniteSets, SequencesExt, FiniteSetsExt

CONSTANTS
    Inst,        \* instance ids, ordered as their time based UUIDs
    Graphs,      \* the committed dependency graphs to start from
    Listings,    \* ways in which Go lists sets: each maps a set of instances to a sequence
    MaxRunning(_),  \* bound: goroutines executing at a time, for a graph
    tarjanConnect(_, _, _)  \* the sort: of a graph, a set of its instances and a listing

ASSUME GraphAssumption ==
    /\ Inst \subseteq Nat /\ IsFiniteSet(Inst)
    /\ Graphs \subseteq [Inst -> SUBSET Inst]
    /\ Listings # {} /\ Listings \subseteq [SUBSET Inst -> Seq(Inst)]
    /\ \A ls \in Listings, S \in SUBSET Inst : ToSet(ls[S]) = S

\* j can be reached from i along the dependencies D of the instances in G
Reaches(D, G, i, j) ==
    \A S \in SUBSET G : (i \in S /\ \A k \in S : D[k] \cap G \subseteq S) => j \in S

\* s lists the strongly connected components of G, each after all it depends on
SortedComponents(D, G, s) ==
    /\ s \in Seq(SUBSET G)
    /\ UNION ToSet(s) = G
    /\ \A k, l \in DOMAIN s : \A i \in s[k], j \in s[l] :
          /\ Reaches(D, G, i, j) => l <= k
          /\ k = l => Reaches(D, G, i, j)
    /\ \A k \in DOMAIN s : s[k] # {}

\* What algorithms.go promises of tarjanConnect
ASSUME SortAssumption ==
    \A D \in Graphs, G \in SUBSET Inst, ls \in Listings :
        SortedComponents(D, G, tarjanConnect(D, G, ls))

VARIABLES
    deps,       \* instance -> its committed Dependencies
    executed,   \* m.executed: the log of this node
    scc,        \* instance -> its StronglyConnected set
    walk,       \* instance -> its goroutine's walk over the graph
    chain,      \* instance -> the components its goroutine has left of its exOrder
    pc          \* instance -> where its goroutine is

vars == <<deps, executed, scc, walk, chain, pc>>

\* The nodes of depGraph, the required instances, what addInstance, which works
\* depth first, is to be called on next, and the order in which sets are listed
Walk == [nodes : SUBSET Inst, required : SUBSET Inst, todo : Seq(Inst), listing : Listings]
NewWalk(todo, ls) == [nodes |-> {}, required |-> {}, todo |-> todo, listing |-> ls]
NoWalk == NewWalk(<<>>, CHOOSE ls \in Listings : TRUE)

\* A goroutine ends with its chain
Running == {i \in Inst : pc[i] = "walk" \/ chain[i] # <<>>}

IsExecuted(i) == \E k \in DOMAIN executed : executed[k] = i

Init ==
    /\ deps \in Graphs
    /\ executed = <<>>
    /\ scc = [i \in Inst |-> {}]
    /\ walk = [i \in Inst |-> NoWalk]
    /\ chain = [i \in Inst |-> <<>>]
    /\ pc = [i \in Inst |-> "idle"]
-----------------------------------------------------------------------------
\* executeInstance calls getExecutionOrder, for an instance that is committed or
\* that another goroutine has executed already
StartExecution(i) ==
    /\ pc[i] = "idle"
    /\ Cardinality(Running) < MaxRunning(deps)
    /\ \E ls \in Listings : walk' = [walk EXCEPT ![i] = NewWalk(<<i>>, ls)]
    /\ pc' = [pc EXCEPT ![i] = "walk"]
    /\ UNCHANGED <<deps, executed, scc, chain>>

\* Mutant: every executed instance but the target's own dependencies is left out
SkippedAlways(g, target, i) == IsExecuted(i) /\ i \notin deps[target]

\* The test of addInstance: an executed instance that is no dependency of the
\* target is left out of the graph g, unless it is connected to what matters
Skipped(g, target, i) ==
    /\ IsExecuted(i)
    /\ i \notin deps[target]
    /\ \A d \in deps[i] : /\ d \notin g.nodes
                          /\ IsExecuted(d)
                          /\ d \notin deps[target]
                          /\ i \notin g.required

\* One turn of addInstance for the target i: the next instance that is not in the
\* graph yet is left out, or is added, and then its dependencies are next
addInstance(i) ==
    LET g == walk[i]
    IN  /\ pc[i] = "walk"
        /\ \E k \in DOMAIN g.todo :
              LET j    == g.todo[k]
                  rest == SubSeq(g.todo, k + 1, Len(g.todo))
              IN  /\ j \notin g.nodes
                  /\ \A l \in 1..(k - 1) : g.todo[l] \in g.nodes
                  /\ \/ /\ Skipped(g, i, j)
                        /\ walk' = [walk EXCEPT ![i].todo = rest]
                     \/ /\ ~Skipped(g, i, j)
                        /\ walk' = [walk EXCEPT ![i] =
                                       [g EXCEPT !.nodes    = @ \cup {j},
                                                 !.required = @ \cup scc[j],
                                                 !.todo     = g.listing[deps[j]] \o rest]]
        /\ UNCHANGED <<deps, executed, scc, chain, pc>>

\* The end of getExecutionOrder: sort the graph; components of more than one
\* instance are recorded on their instances
SortGraph(i) ==
    /\ pc[i] = "walk"
    /\ ToSet(walk[i].todo) \subseteq walk[i].nodes
    /\ LET components == tarjanConnect(deps, walk[i].nodes, walk[i].listing)
           larger == {c \in ToSet(components) : Cardinality(c) > 1}
       IN  /\ chain' = [chain EXCEPT ![i] = components]
           /\ scc' = [j \in Inst |-> IF j \in UNION larger
                                    THEN CHOOSE c \in larger : j \in c
                                    ELSE scc[j]]
    /\ pc' = [pc EXCEPT ![i] = "apply"]
    /\ walk' = [walk EXCEPT ![i] = NoWalk]
    /\ UNCHANGED <<deps, executed>>
-----------------------------------------------------------------------------
\* Mutant: the sort of a component is missing
iidUnsorted(c) == CHOOSE j \in c : \A k \in c : j >= k

\* A component is executed in the order of iidSorter
iidSorter(c) == CHOOSE j \in c : \A k \in c : j <= k

\* What is left of the components s after j, the first of the first one
Rest(s, j) == IF s[1] = {j} THEN Tail(s) ELSE [s EXCEPT ![1] = @ \ {j}]

\* Mutant: what another goroutine has executed meanwhile is executed once more
ApplyTwice(i) ==
    LET j == iidSorter(chain[i][1])
    IN  /\ pc[i] = "apply"
        /\ chain[i] # <<>>
        /\ executed' = Append(executed, j)
        /\ chain' = [chain EXCEPT ![i] = IF j = i THEN <<>> ELSE Rest(@, j)]
        /\ UNCHANGED <<deps, scc, walk, pc>>

\* Mutant: the target ends the chain before it is executed
StopBefore(i) ==
    LET j == iidSorter(chain[i][1])
    IN  /\ pc[i] = "apply"
        /\ chain[i] # <<>>
        /\ executed' = IF IsExecuted(j) \/ j = i THEN executed ELSE Append(executed, j)
        /\ chain' = [chain EXCEPT ![i] = IF j = i THEN <<>> ELSE Rest(@, j)]
        /\ UNCHANGED <<deps, scc, walk, pc>>

\* One turn of executeDependencyChain: execute the next instance, or pass over
\* one another goroutine has executed, the target included (unless that happens
\* after its status was read: then the target is the last)
ApplyNext(i) ==
    LET j == iidSorter(chain[i][1])
    IN  /\ pc[i] = "apply"
        /\ chain[i] # <<>>
        /\ \/ /\ ~IsExecuted(j)
              /\ executed' = Append(executed, j)
              /\ chain' = [chain EXCEPT ![i] = IF j = i THEN <<>> ELSE Rest(@, j)]
           \/ /\ IsExecuted(j)
              /\ UNCHANGED executed
              /\ \/ chain' = [chain EXCEPT ![i] = Rest(@, j)]
                 \/ j = i /\ chain' = [chain EXCEPT ![i] = <<>>]
        /\ UNCHANGED <<deps, scc, walk, pc>>

\* A goroutine that has started goes on
Execute(i) == addInstance(i) \/ SortGraph(i) \/ ApplyNext(i)

Next == \E i \in Inst : StartExecution(i) \/ Execute(i)

Spec == Init /\ [][Next]_vars

\* Goroutines keep running
Fairness == \A i \in Inst : WF_vars(Execute(i))

FairSpec == Spec /\ Fairness
-----------------------------------------------------------------------------
TypeOK ==
    /\ deps \in [Inst -> SUBSET Inst]
    /\ executed \in BoundedSeq(Inst, Cardinality(Inst))
    /\ scc \in [Inst -> SUBSET Inst]
    /\ walk \in [Inst -> Walk]
    /\ chain \in [Inst -> Seq((SUBSET Inst) \ {{}})]
    /\ pc \in [Inst -> {"idle", "walk", "apply"}]

\* i depends on j in the whole committed graph
DependsOn(i, j) == Reaches(deps, Inst, i, j)

\* The order the committed graph prescribes: dependencies first, the members of
\* one strongly connected component by id
Prescribed(i, j) ==
    /\ i # j
    /\ DependsOn(j, i)
    /\ DependsOn(i, j) => i < j

Before(i, j) == \E k, l \in DOMAIN executed : k < l /\ executed[k] = i /\ executed[l] = j

\* Of any two instances of the graph g one depends on the other
DirectlyOrdered(g) == \A i, j \in Inst : i # j => (i \in g[j] \/ j \in g[i])

(***************************************************************************)
(* Leaving executed instances out of the graph changes nothing: whatever   *)
(* goroutines run and in whatever order they were started, an instance is  *)
(* executed only after those the whole committed graph puts before it, so  *)
(* all nodes with that graph execute in one order (addInstance,            *)
(* tarjanConnect, iidSorter, executeDependencyChain).                      *)
(***************************************************************************)
OrderPrescribed ==
    \A i, j \in Inst : (IsExecuted(j) /\ Prescribed(i, j)) => Before(i, j)

(***************************************************************************)
(* Several goroutines that have the same instance in their chains execute  *)
(* it once (applyInstance, executeDependencyChain).                        *)
(***************************************************************************)
NoDoubleExecution == IsInjective(executed)

(***************************************************************************)
(* A goroutine that starts ends with its own instance executed, by itself  *)
(* or by another one.                                                      *)
(***************************************************************************)
TargetExecuted == \A i \in Inst : pc[i] = "walk" ~> IsExecuted(i)
=============================================================================
