------------------------ MODULE ExecutionOrderProofs ------------------------
(***************************************************************************)
(* Execution on one node: goroutines that walk the graph and execute at    *)
(* the same time never execute an instance twice, and where of any two     *)
(* instances one depends on the other they keep to the order of the graph. *)
(***************************************************************************)
EXTENDS ExecutionOrder, FiniteSetTheorems, SequenceTheorems, WellFoundedInduction, TLAPS

LEMMA SmallestExists ==
    ASSUME NEW T, T \subseteq Nat, T # {}
    PROVE  \E u \in T : \A v \in T : u <= v
  <1>1. PICK R : IsWellFoundedOn(R, Nat) /\ \A x, y \in Nat : x < y => <<x, y>> \in R
    <2>1. \A x, y \in Nat : x < y => <<x, y>> \in {ss \in Nat \X Nat : ss[1] < ss[2]}
      OBVIOUS
    <2>2. IsWellFoundedOn({ss \in Nat \X Nat : ss[1] < ss[2]}, Nat)
      BY NatLessThanWellFounded DEF OpToRel
    <2> QED  BY <2>1, <2>2
  <1>2. PICK u \in T : \A v \in T : ~(<<v, u>> \in R)
    <2>1. IsWellFoundedOn(R, Nat) /\ T \subseteq Nat /\ T # {}
      BY <1>1
    <2> QED  BY <2>1, WFMin, Zenon
  <1>3. \A v \in T : ~(v < u) /\ v \in Nat /\ u \in Nat
    BY <1>1, <1>2
  <1> QED  BY <1>3

LEMMA FirstOfComponent ==
    ASSUME NEW c \in SUBSET Inst, c # {}
    PROVE  iidSorter(c) \in c /\ \A k \in c : iidSorter(c) <= k
  BY SmallestExists, GraphAssumption DEF iidSorter
-----------------------------------------------------------------------------
(* Types. *)

Components == Seq((SUBSET Inst) \ {{}})

Types ==
    /\ deps \in Graphs
    /\ executed \in Seq(Inst)
    /\ scc \in [Inst -> SUBSET Inst]
    /\ walk \in [Inst -> Walk]
    /\ chain \in [Inst -> Components]
    /\ pc \in [Inst -> {"idle", "walk", "apply"}]

LEMMA RestIsChain ==
    ASSUME NEW s \in Components, s # <<>>, NEW j \in s[1]
    PROVE  Rest(s, j) \in Components
  <1>1. CASE s[1] = {j}
    BY <1>1 DEF Rest, Components
  <1>2. CASE s[1] # {j}
    <2>1. 1 \in DOMAIN s /\ s[1] \in (SUBSET Inst) \ {{}}
      BY DEF Components
    <2>2. s[1] \ {j} \in (SUBSET Inst) \ {{}}
      BY <1>2, <2>1
    <2> QED  BY <1>2, <2>1, <2>2 DEF Rest, Components
  <1> QED  BY <1>1, <1>2

LEMMA NextInChain ==
    ASSUME NEW s \in Components, s # <<>>
    PROVE  /\ 1 \in DOMAIN s /\ s[1] \in SUBSET Inst
           /\ iidSorter(s[1]) \in s[1] /\ iidSorter(s[1]) \in Inst
           /\ \A k \in s[1] : iidSorter(s[1]) <= k
  <1>1. 1 \in DOMAIN s /\ s[1] \in (SUBSET Inst) \ {{}}
    BY DEF Components
  <1> QED  BY <1>1, FirstOfComponent

LEMMA SortIsChain ==
    ASSUME Types, NEW G \in SUBSET Inst, NEW ls \in Listings
    PROVE  /\ SortedComponents(deps, G, tarjanConnect(deps, G, ls))
           /\ tarjanConnect(deps, G, ls) \in Components
  <1>1. SortedComponents(deps, G, tarjanConnect(deps, G, ls))
    BY SortAssumption DEF Types
  <1> DEFINE s == tarjanConnect(deps, G, ls)
  <1>2. s \in Seq(SUBSET G) /\ \A k \in DOMAIN s : s[k] # {}
    BY <1>1 DEF SortedComponents
  <1> HIDE DEF s
  <1>3. \A k \in 1..Len(s) : s[k] \in (SUBSET Inst) \ {{}}
    BY <1>2
  <1>4. s \in Seq((SUBSET Inst) \ {{}})
    BY <1>2, <1>3
  <1> QED  BY <1>1, <1>4 DEF s, Components

LEMMA TypesInit == Init => Types
  <1> SUFFICES ASSUME Init PROVE Types
    OBVIOUS
  <1>1. NoWalk \in Walk
    BY GraphAssumption DEF Walk, NoWalk, NewWalk
  <1> QED  BY <1>1 DEF Init, Types, Components

LEMMA TypesStart ==
    ASSUME Types, NEW i \in Inst, StartExecution(i)
    PROVE  Types'
  <1>1. \A ls \in Listings : NewWalk(<<i>>, ls) \in Walk
    BY DEF Walk, NewWalk
  <1> QED  BY <1>1 DEF Types, StartExecution

LEMMA ToSetIs ==
    ASSUME NEW s \in Seq(Inst), NEW x
    PROVE  x \in ToSet(s) <=> \E k \in 1..Len(s) : s[k] = x
  BY DEF ToSet

LEMMA ToSetOf ==
    ASSUME NEW s \in Seq(Inst), NEW t \in Seq(Inst)
    PROVE  s \o t \in Seq(Inst) /\ ToSet(s \o t) = ToSet(s) \cup ToSet(t)
  <1>1. s \o t \in Seq(Inst) /\ Len(s \o t) = Len(s) + Len(t) /\ Len(s) \in Nat /\ Len(t) \in Nat
    OBVIOUS
  <1>2. \A k \in 1..Len(s) : (s \o t)[k] = s[k] /\ k \in 1..Len(s \o t)
    BY <1>1
  <1>3. \A k \in 1..Len(t) : (s \o t)[k + Len(s)] = t[k] /\ k + Len(s) \in 1..Len(s \o t)
    BY <1>1
  <1>4. \A k \in 1..Len(s \o t) : k \in 1..Len(s) \/ (k - Len(s) \in 1..Len(t) /\ (s \o t)[k] = t[k - Len(s)])
    BY <1>1
  <1> DEFINE u == s \o t
             m == Len(s)
  <1>5. /\ \A k \in 1..Len(s) : u[k] = s[k] /\ k \in 1..Len(u)
        /\ \A k \in 1..Len(t) : u[k + m] = t[k] /\ k + m \in 1..Len(u)
        /\ \A k \in 1..Len(u) : k \in 1..Len(s) \/ (k - m \in 1..Len(t) /\ u[k] = t[k - m])
    BY <1>2, <1>3, <1>4
  <1>6. \A x : /\ x \in ToSet(s) <=> \E k \in 1..Len(s) : s[k] = x
               /\ x \in ToSet(t) <=> \E k \in 1..Len(t) : t[k] = x
               /\ x \in ToSet(u) <=> \E k \in 1..Len(u) : u[k] = x
    BY <1>1, ToSetIs
  <1>7. ToSet(u) = ToSet(s) \cup ToSet(t)
    <2> HIDE DEF u, m
    <2>1. \A x : x \in ToSet(s) => x \in ToSet(u)
      BY <1>5, <1>6
    <2>2. \A x : x \in ToSet(t) => x \in ToSet(u)
      BY <1>5, <1>6
    <2>3. \A x : x \in ToSet(u) => x \in ToSet(s) \cup ToSet(t)
      BY <1>5, <1>6
    <2> QED  BY <2>1, <2>2, <2>3
  <1> QED  BY <1>1, <1>7

\* What is left of the list after the k-th, when those before it are in the graph
LEMMA RestOfTodo ==
    ASSUME NEW todo \in Seq(Inst), NEW nodes, NEW k \in DOMAIN todo,
           \A l \in 1..(k - 1) : todo[l] \in nodes
    PROVE  /\ SubSeq(todo, k + 1, Len(todo)) \in Seq(Inst)
           /\ ToSet(todo) \subseteq nodes \cup {todo[k]} \cup ToSet(SubSeq(todo, k + 1, Len(todo)))
           /\ Len(todo) = 1 => SubSeq(todo, k + 1, Len(todo)) = <<>>
  <1> DEFINE rest == SubSeq(todo, k + 1, Len(todo))
  <1>1. k \in 1..Len(todo) /\ Len(todo) \in Nat
    OBVIOUS
  <1>2. /\ rest \in Seq(Inst)
        /\ Len(rest) = IF k + 1 <= Len(todo) THEN Len(todo) - (k + 1) + 1 ELSE 0
        /\ \A m \in 1..(Len(todo) - (k + 1) + 1) : rest[m] = todo[(k + 1) + m - 1]
    <2>1. \A m \in (k + 1)..Len(todo) : todo[m] \in Inst
      BY <1>1
    <2>2. k + 1 \in Int /\ Len(todo) \in Int
      BY <1>1
    <2> HIDE DEF rest
    <2> QED  BY ONLY <2>1, <2>2, SubSeqProperties DEF rest
  <1>3. ASSUME NEW l \in 1..Len(todo)
        PROVE  todo[l] \in nodes \cup {todo[k]} \cup ToSet(rest)
    <2> HIDE DEF rest
    <2>1. CASE l <= k
      BY <1>1, <2>1
    <2>2. CASE l > k
      <3>0. l \in Nat /\ k \in Nat /\ Len(todo) \in Nat /\ k < l /\ l <= Len(todo)
        BY <1>1, <2>2
      <3>b. Len(rest) = Len(todo) - k
        <4>1. Len(rest) = IF k + 1 <= Len(todo) THEN Len(todo) - (k + 1) + 1 ELSE 0
          BY <1>2
        <4> QED  BY ONLY <3>0, <4>1
      <3>1. /\ l - k \in 1..Len(rest)
            /\ l - k \in 1..(Len(todo) - (k + 1) + 1)
            /\ (k + 1) + (l - k) - 1 = l
        BY ONLY <3>0, <3>b
      <3>2. rest[l - k] = todo[l]
        BY <1>2, <3>1
      <3> QED  BY <1>2, <3>1, <3>2, ToSetIs
    <2> QED  BY <1>1, <2>1, <2>2
  <1>4. Len(todo) = 1 => rest = <<>>
    <2>1. Len(todo) = 1 => k = 1 /\ rest = SubSeq(todo, 2, 1)
      BY <1>1
    <2> QED  BY <2>1
  <1>5. \A x : x \in ToSet(todo) => x \in nodes \cup {todo[k]} \cup ToSet(rest)
    BY <1>3, ToSetIs
  <1> QED  BY <1>2, <1>4, <1>5

\* What a turn of addInstance does
LEMMA AddIs ==
    ASSUME Types, NEW i \in Inst, addInstance(i)
    PROVE  \E h \in Walk, j \in Inst, rest \in Seq(Inst) :
              /\ walk' = [walk EXCEPT ![i] = h]
              /\ j \in ToSet(walk[i].todo) /\ j \notin walk[i].nodes
              /\ ToSet(walk[i].todo) \subseteq walk[i].nodes \cup {j} \cup ToSet(rest)
              /\ Len(walk[i].todo) = 1 => rest = <<>>
              /\ \/ Skipped(walk[i], i, j) /\ h.nodes = walk[i].nodes /\ h.todo = rest
                 \/ /\ ~Skipped(walk[i], i, j)
                    /\ h.nodes = walk[i].nodes \cup {j}
                    /\ ToSet(h.todo) = deps[j] \cup ToSet(rest)
              /\ UNCHANGED <<deps, executed, scc, chain, pc>>
  <1> DEFINE g == walk[i]
  <1>1. PICK k \in DOMAIN g.todo :
           LET j    == g.todo[k]
               rest == SubSeq(g.todo, k + 1, Len(g.todo))
           IN  /\ j \notin g.nodes
               /\ \A l \in 1..(k - 1) : g.todo[l] \in g.nodes
               /\ \/ /\ Skipped(g, i, j)
                     /\ walk' = [walk EXCEPT ![i].todo = rest]
                  \/ /\ ~Skipped(g, i, j)
                     /\ walk' = [walk EXCEPT ![i] =
                                    [g EXCEPT !.nodes    = @ \cup {j},
                                              !.required = @ \cup scc[j],
                                              !.todo     = g.listing[deps[j]] \o rest]]
    BY DEF addInstance
  <1>2. UNCHANGED <<deps, executed, scc, chain, pc>>
    BY DEF addInstance
  <1> DEFINE j == g.todo[k]
             rest == SubSeq(g.todo, k + 1, Len(g.todo))
             h1 == [g EXCEPT !.todo = rest]
             h2 == [g EXCEPT !.nodes    = @ \cup {j},
                             !.required = @ \cup scc[j],
                             !.todo     = g.listing[deps[j]] \o rest]
  <1>3. g \in Walk /\ g.nodes \in SUBSET Inst /\ g.required \in SUBSET Inst
        /\ g.todo \in Seq(Inst) /\ g.listing \in Listings
    BY DEF Types, Walk
  <1>4. j \in Inst /\ j \in ToSet(g.todo)
    BY <1>3 DEF ToSet
  <1>5. /\ rest \in Seq(Inst)
        /\ ToSet(g.todo) \subseteq g.nodes \cup {j} \cup ToSet(rest)
        /\ Len(g.todo) = 1 => rest = <<>>
    <2>1. \A l \in 1..(k - 1) : g.todo[l] \in g.nodes
      BY <1>1
    <2> HIDE DEF g
    <2> QED  BY <1>3, <2>1, RestOfTodo
  <1>6. deps[j] \in SUBSET Inst /\ scc[j] \in SUBSET Inst
    <2>1. deps \in [Inst -> SUBSET Inst] /\ scc \in [Inst -> SUBSET Inst]
      BY GraphAssumption DEF Types
    <2> HIDE DEF j
    <2> QED  BY <1>4, <2>1
  <1>7. g.listing[deps[j]] \in Seq(Inst) /\ ToSet(g.listing[deps[j]]) = deps[j]
    <2> HIDE DEF g, j
    <2> QED  BY <1>3, <1>6, GraphAssumption
  <1>8. /\ g.listing[deps[j]] \o rest \in Seq(Inst)
        /\ ToSet(g.listing[deps[j]] \o rest) = deps[j] \cup ToSet(rest)
    BY <1>5, <1>7, ToSetOf
  <1>9. h1 \in Walk /\ h1.nodes = g.nodes /\ h1.todo = rest
    BY <1>3, <1>5 DEF Walk
  <1>10. h2 \in Walk /\ h2.nodes = g.nodes \cup {j} /\ h2.todo = g.listing[deps[j]] \o rest
    BY <1>3, <1>4, <1>6, <1>8 DEF Walk
  <1>11. CASE Skipped(g, i, j) /\ walk' = [walk EXCEPT ![i].todo = rest]
    <2>1. walk' = [walk EXCEPT ![i] = h1]
      BY <1>11 DEF Types
    <2> HIDE DEF h1, rest, j, g
    <2> QED  BY <1>1, <1>2, <1>4, <1>5, <1>9, <1>11, <2>1 DEF g, j
  <1>12. CASE ~Skipped(g, i, j) /\ walk' = [walk EXCEPT ![i] = h2]
    <2>1. ToSet(h2.todo) = deps[j] \cup ToSet(rest)
      BY <1>8, <1>10
    <2> HIDE DEF h2, rest, j, g
    <2> QED  BY <1>1, <1>2, <1>4, <1>5, <1>10, <1>12, <2>1 DEF g, j
  <1> QED  BY <1>1, <1>11, <1>12

LEMMA TypesAdd ==
    ASSUME Types, NEW i \in Inst, addInstance(i)
    PROVE  Types'
  BY AddIs DEF Types

LEMMA TypesSort ==
    ASSUME Types, NEW i \in Inst, SortGraph(i)
    PROVE  Types'
  <1> DEFINE s == tarjanConnect(deps, walk[i].nodes, walk[i].listing)
             larger == {c \in ToSet(s) : Cardinality(c) > 1}
  <1>1. walk[i].nodes \in SUBSET Inst /\ walk[i].listing \in Listings
    BY DEF Types, Walk
  <1>2. s \in Components
    BY <1>1, SortIsChain
  <1>3. chain' = [chain EXCEPT ![i] = s]
    BY DEF SortGraph
  <1>4. scc' = [j \in Inst |-> IF j \in UNION larger THEN CHOOSE c \in larger : j \in c ELSE scc[j]]
    BY DEF SortGraph
  <1>5. \A c \in larger : c \in SUBSET Inst
    <2> HIDE DEF s
    <2> QED  BY <1>2 DEF Components, ToSet
  <1> HIDE DEF s, larger
  <1>6. scc' \in [Inst -> SUBSET Inst]
    BY <1>4, <1>5 DEF Types
  <1>7. chain' \in [Inst -> Components]
    BY <1>2, <1>3 DEF Types
  <1>8. NoWalk \in Walk
    BY GraphAssumption DEF Walk, NoWalk, NewWalk
  <1>9. walk' \in [Inst -> Walk]
    BY <1>8 DEF Types, SortGraph
  <1> QED  BY <1>6, <1>7, <1>9 DEF Types, SortGraph

\* What a turn of executeDependencyChain does
LEMMA ApplyIs ==
    ASSUME Types, NEW i \in Inst, ApplyNext(i)
    PROVE  \E j \in Inst :
              /\ chain[i] \in Components /\ chain[i] # <<>>
              /\ j = iidSorter(chain[i][1]) /\ j \in chain[i][1]
              /\ \A k \in chain[i][1] : j <= k
              /\ \/ ~IsExecuted(j) /\ executed' = Append(executed, j)
                 \/ IsExecuted(j) /\ executed' = executed
              /\ chain' = [chain EXCEPT ![i] = <<>>] \/ chain' = [chain EXCEPT ![i] = Rest(@, j)]
              /\ UNCHANGED <<deps, scc, walk, pc>>
  <1>1. chain[i] \in Components /\ chain[i] # <<>>
    BY DEF Types, ApplyNext
  <1> QED  BY <1>1, NextInChain DEF ApplyNext

LEMMA TypesApply ==
    ASSUME Types, NEW i \in Inst, ApplyNext(i)
    PROVE  Types'
  <1>1. PICK j \in Inst :
              /\ chain[i] \in Components /\ chain[i] # <<>>
              /\ j \in chain[i][1]
              /\ executed' = Append(executed, j) \/ executed' = executed
              /\ chain' = [chain EXCEPT ![i] = <<>>] \/ chain' = [chain EXCEPT ![i] = Rest(@, j)]
              /\ UNCHANGED <<deps, scc, walk, pc>>
    BY ApplyIs
  <1>2. <<>> \in Components /\ Rest(chain[i], j) \in Components
    <2>1. <<>> \in Components
      BY DEF Components
    <2>2. Rest(chain[i], j) \in Components
      BY <1>1, RestIsChain
    <2> QED  BY <2>1, <2>2
  <1>3. executed' \in Seq(Inst)
    BY <1>1 DEF Types
  <1>4. chain' \in [Inst -> Components]
    BY <1>1, <1>2 DEF Types
  <1> QED  BY <1>1, <1>3, <1>4 DEF Types

LEMMA TypesStep == Types /\ [Next]_vars => Types'
  <1> SUFFICES ASSUME Types, [Next]_vars PROVE Types'
    OBVIOUS
  <1>1. CASE UNCHANGED vars
    BY <1>1 DEF vars, Types
  <1> QED  BY <1>1, TypesStart, TypesAdd, TypesSort, TypesApply DEF Next, Execute
-----------------------------------------------------------------------------
(* No instance twice, so the log is no longer than there are instances. *)

LEMMA NoDoubleStep ==
    ASSUME Types, NoDoubleExecution, [Next]_vars
    PROVE  NoDoubleExecution'
  <1>1. CASE executed' = executed
    BY <1>1 DEF NoDoubleExecution, IsInjective
  <1>2. ASSUME NEW i \in Inst, ApplyNext(i), executed' # executed
        PROVE  NoDoubleExecution'
    <2>1. PICK j \in Inst : ~IsExecuted(j) /\ executed' = Append(executed, j)
      BY <1>2, ApplyIs
    <2>2. executed \in Seq(Inst)
      BY DEF Types
    <2>3. /\ DOMAIN executed' = 1..(Len(executed) + 1) /\ DOMAIN executed = 1..Len(executed)
          /\ executed'[Len(executed) + 1] = j
          /\ \A k \in 1..Len(executed) : executed'[k] = executed[k] /\ executed[k] # j
      BY <2>1, <2>2 DEF IsExecuted
    <2>4. \A a, b \in 1..Len(executed) : executed[a] = executed[b] => a = b
      BY <2>3 DEF NoDoubleExecution, IsInjective
    <2>5. Len(executed) \in Nat
      BY <2>2
    <2>6. ASSUME NEW a \in 1..(Len(executed) + 1), NEW b \in 1..(Len(executed) + 1),
                 executed'[a] = executed'[b]
          PROVE  a = b
      <3>1. a \in 1..Len(executed) \/ a = Len(executed) + 1
        BY <2>5
      <3>2. b \in 1..Len(executed) \/ b = Len(executed) + 1
        BY <2>5
      <3> QED  BY <2>3, <2>4, <2>6, <3>1, <3>2
    <2> QED  BY <2>3, <2>6 DEF NoDoubleExecution, IsInjective
  <1> QED  BY <1>1, <1>2 DEF Next, Execute, StartExecution, addInstance, SortGraph, vars

LEMMA TypesBound ==
    ASSUME Types, NoDoubleExecution
    PROVE  TypeOK
  <1>1. executed \in Seq(Inst) /\ Len(executed) \in Nat /\ DOMAIN executed = 1..Len(executed)
    BY DEF Types
  <1>2. executed \in Injection(1..Len(executed), Inst)
    BY <1>1 DEF NoDoubleExecution, Injection, IsInjective
  <1>3. Cardinality(1..Len(executed)) <= Cardinality(Inst)
    BY <1>2, FS_Injection, GraphAssumption
  <1>4. Len(executed) <= Cardinality(Inst) /\ Cardinality(Inst) \in Nat
    BY <1>1, <1>3, FS_Interval, FS_CardinalityType, GraphAssumption
  <1>5. Len(executed) \in 0..Cardinality(Inst) /\ executed \in [1..Len(executed) -> Inst]
    BY <1>1, <1>4
  <1>6. executed \in BoundedSeq(Inst, Cardinality(Inst))
    BY <1>5 DEF BoundedSeq, SeqOf
  <1> QED  BY <1>6, GraphAssumption DEF Types, TypeOK, Components

LEMMA Safety == Spec => [](Types /\ NoDoubleExecution)
  <1>1. Init => Types /\ NoDoubleExecution
    BY TypesInit DEF Init, NoDoubleExecution, IsInjective
  <1>2. Types /\ NoDoubleExecution /\ [Next]_vars => (Types /\ NoDoubleExecution)'
    BY TypesStep, NoDoubleStep
  <1> QED  BY <1>1, <1>2, PTL DEF Spec

(***************************************************************************)
(* The goroutines of one node keep to the types of their state, and the    *)
(* log has room for every instance once, whatever the graph and however    *)
(* many run (getExecutionOrder, executeDependencyChain).                   *)
(***************************************************************************)
THEOREM TypeCorrect == Spec => []TypeOK
  BY Safety, TypesBound, PTL

(***************************************************************************)
(* No instance is executed twice, in whatever chains of whatever           *)
(* goroutines it is (applyInstance, executeDependencyChain).               *)
(***************************************************************************)
THEOREM ExecutedOnce == Spec => []NoDoubleExecution
  BY Safety, PTL
-----------------------------------------------------------------------------
(* Where of any two instances one depends on the other, nothing but the    *)
(* target itself can be left out, and the graph is closed when it is       *)
(* sorted.                                                                 *)

\* The walk of the target i has left the target out, or has it in the graph and has
\* the dependencies of all that is there in the graph or still to visit
WalkOK(i) ==
    LET g == walk[i]
    IN  \/ g.nodes = {} /\ ToSet(g.todo) \subseteq {i} /\ Len(g.todo) <= 1
        \/ i \in g.nodes /\ \A j \in g.nodes : deps[j] \subseteq g.nodes \cup ToSet(g.todo)

\* What the graph puts before an instance of the chain of i is executed, or is
\* in a component before it, or is a smaller one of its own component
ChainOK(i) ==
    \A k \in DOMAIN chain[i] : \A a \in chain[i][k], b \in Inst :
        Prescribed(b, a) =>
            \/ IsExecuted(b)
            \/ \E l \in DOMAIN chain[i] : l < k /\ b \in chain[i][l]
            \/ b \in chain[i][k] /\ b < a

OrderInv ==
    /\ Types
    /\ DirectlyOrdered(deps)
    /\ \A i \in Inst : pc[i] = "walk" => WalkOK(i)
    /\ \A i \in Inst : ChainOK(i)
    /\ OrderPrescribed

LEMMA OrderInit ==
    ASSUME Init, \A g \in Graphs : DirectlyOrdered(g)
    PROVE  OrderInv
  BY TypesInit DEF Init, OrderInv, ChainOK, OrderPrescribed, IsExecuted

\* Executed instances stay executed and the graph stays
LEMMA StillPrescribed ==
    ASSUME Types, [Next]_vars
    PROVE  /\ deps' = deps
           /\ \A a, b \in Inst : Prescribed(b, a)' <=> Prescribed(b, a)
           /\ \A a \in Inst : IsExecuted(a) => IsExecuted(a)'
  <1>1. deps' = deps
    BY DEF Next, Execute, StartExecution, addInstance, SortGraph, ApplyNext, vars
  <1>2. executed' = executed \/ \E j \in Inst : executed' = Append(executed, j)
    BY ApplyIs DEF Next, Execute, StartExecution, addInstance, SortGraph, vars
  <1>3. executed \in Seq(Inst)
    BY DEF Types
  <1>4. \A a \in Inst : IsExecuted(a) => IsExecuted(a)'
    BY <1>2, <1>3 DEF IsExecuted
  <1>5. \A a, b \in Inst : Prescribed(b, a)' <=> Prescribed(b, a)
    BY <1>1 DEF Prescribed, DependsOn, Reaches
  <1> QED  BY <1>1, <1>4, <1>5

\* With the target in the graph no instance is left out
LEMMA NothingLeftOut ==
    ASSUME OrderInv, NEW i \in Inst, NEW g \in Walk, NEW j \in Inst, i \in g.nodes, j \notin g.nodes
    PROVE  ~Skipped(g, i, j)
  BY DEF Skipped, OrderInv, DirectlyOrdered

LEMMA WalkAdd ==
    ASSUME OrderInv, NEW i \in Inst, addInstance(i)
    PROVE  WalkOK(i)'
  <1>1. PICK h \in Walk, j \in Inst, rest \in Seq(Inst) :
              /\ walk' = [walk EXCEPT ![i] = h]
              /\ j \in ToSet(walk[i].todo) /\ j \notin walk[i].nodes
              /\ ToSet(walk[i].todo) \subseteq walk[i].nodes \cup {j} \cup ToSet(rest)
              /\ Len(walk[i].todo) = 1 => rest = <<>>
              /\ \/ Skipped(walk[i], i, j) /\ h.nodes = walk[i].nodes /\ h.todo = rest
                 \/ /\ ~Skipped(walk[i], i, j)
                    /\ h.nodes = walk[i].nodes \cup {j}
                    /\ ToSet(h.todo) = deps[j] \cup ToSet(rest)
              /\ UNCHANGED <<deps, executed, scc, chain, pc>>
    BY AddIs DEF OrderInv
  <1> DEFINE g == walk[i]
  <1>2. g \in Walk /\ g.todo \in Seq(Inst) /\ walk'[i] = h /\ deps' = deps
    BY <1>1 DEF OrderInv, Types, Walk
  <1>3. WalkOK(i)
    BY DEF OrderInv, addInstance
  <1>4. ToSet(<<>>) = {} /\ Len(<<>>) = 0
    BY DEF ToSet
  <1>5. CASE g.nodes = {} /\ ToSet(g.todo) \subseteq {i} /\ Len(g.todo) <= 1
    <2>1. j = i
      BY <1>1, <1>5
    <2>2. Len(g.todo) = 1
      <3>1. PICK k \in 1..Len(g.todo) : g.todo[k] = j
        BY <1>1, <1>2, ToSetIs
      <3>2. PICK m : m = Len(g.todo)
        OBVIOUS
      <3>3. m \in Nat /\ m <= 1 /\ k \in 1..m
        BY <1>2, <1>5, <3>2
      <3>4. m = 1
        BY <3>3
      <3> QED  BY <3>2, <3>4
    <2>3. rest = <<>>
      BY <1>1, <2>2
    <2>4. CASE h.nodes = g.nodes /\ h.todo = rest
      BY <1>2, <1>4, <1>5, <2>3, <2>4 DEF WalkOK
    <2>5. CASE h.nodes = g.nodes \cup {j} /\ ToSet(h.todo) = deps[j] \cup ToSet(rest)
      BY <1>2, <1>5, <2>1, <2>5 DEF WalkOK
    <2> QED  BY <1>1, <2>4, <2>5
  <1>6. CASE i \in g.nodes /\ \A k \in g.nodes : deps[k] \subseteq g.nodes \cup ToSet(g.todo)
    <2>1. h.nodes = g.nodes \cup {j} /\ ToSet(h.todo) = deps[j] \cup ToSet(rest)
      BY <1>1, <1>2, <1>6, NothingLeftOut
    <2>2. i \in h.nodes /\ \A k \in h.nodes : deps[k] \subseteq h.nodes \cup ToSet(h.todo)
      BY <1>1, <1>6, <2>1
    <2> QED  BY <1>2, <2>2 DEF WalkOK
  <1> QED  BY <1>3, <1>5, <1>6 DEF WalkOK

\* In a closed part of the graph instances depend on each other as in the whole of it
LEMMA ClosedReach ==
    ASSUME NEW D \in [Inst -> SUBSET Inst], NEW G \in SUBSET Inst, \A k \in G : D[k] \subseteq G,
           NEW a \in G, NEW b
    PROVE  /\ Reaches(D, Inst, a, b) <=> Reaches(D, G, a, b)
           /\ Reaches(D, Inst, a, b) => b \in G
  <1>1. ASSUME Reaches(D, Inst, a, b)
        PROVE  Reaches(D, G, a, b) /\ b \in G
    <2>1. ASSUME NEW S \in SUBSET G, a \in S, \A k \in S : D[k] \cap G \subseteq S
          PROVE  b \in S
      <3>1. S \in SUBSET Inst /\ \A k \in S : D[k] \cap Inst \subseteq S
        BY <2>1
      <3> QED  BY <1>1, <2>1, <3>1 DEF Reaches
    <2>2. b \in G
      <3>1. \A k \in G : D[k] \cap G \subseteq G
        OBVIOUS
      <3> QED  BY <2>1, <3>1
    <2> QED  BY <2>1, <2>2 DEF Reaches
  <1>2. ASSUME Reaches(D, G, a, b), NEW S \in SUBSET Inst, a \in S,
               \A k \in S : D[k] \cap Inst \subseteq S
        PROVE  b \in S
    <2>1. S \cap G \in SUBSET G /\ a \in S \cap G /\ \A k \in S \cap G : D[k] \cap G \subseteq S \cap G
      BY <1>2
    <2>2. b \in S \cap G
      BY <1>2, <2>1 DEF Reaches
    <2> QED  BY <2>2
  <1>3. Reaches(D, G, a, b) => Reaches(D, Inst, a, b)
    BY <1>2 DEF Reaches
  <1> QED  BY <1>1, <1>3

LEMMA SortedIsOrdered ==
    ASSUME NEW D \in [Inst -> SUBSET Inst], NEW G \in SUBSET Inst, \A k \in G : D[k] \subseteq G,
           NEW s, SortedComponents(D, G, s),
           NEW k \in DOMAIN s, NEW a \in s[k], NEW b \in Inst,
           a # b, Reaches(D, Inst, a, b), Reaches(D, Inst, b, a) => b < a
    PROVE  (\E l \in DOMAIN s : l < k /\ b \in s[l]) \/ (b \in s[k] /\ b < a)
  <1>1. s \in Seq(SUBSET G) /\ UNION ToSet(s) = G
    BY DEF SortedComponents
  <1>2. \A i \in DOMAIN s : i \in Nat
    BY <1>1
  <1>3. a \in G
    BY <1>1 DEF ToSet
  <1>4. b \in G /\ Reaches(D, G, a, b)
    BY <1>3, ClosedReach
  <1>5. PICK l \in DOMAIN s : b \in s[l]
    BY <1>1, <1>4 DEF ToSet
  <1>6. l <= k
    BY <1>4, <1>5 DEF SortedComponents
  <1>7. CASE l = k
    <2>1. Reaches(D, G, b, a)
      BY <1>5, <1>7 DEF SortedComponents
    <2>2. Reaches(D, Inst, b, a)
      BY <1>4, <2>1, ClosedReach
    <2> QED  BY <1>5, <1>7, <2>2
  <1>8. CASE l # k
    <2>1. l < k
      BY <1>2, <1>6, <1>8
    <2> QED  BY <1>5, <2>1
  <1> QED  BY <1>7, <1>8

LEMMA ChainSort ==
    ASSUME OrderInv, NEW i \in Inst, SortGraph(i), deps' = deps
    PROVE  ChainOK(i)'
  <1> DEFINE G == walk[i].nodes
             s == tarjanConnect(deps, G, walk[i].listing)
  <1>1. G \in SUBSET Inst /\ walk[i].listing \in Listings /\ deps \in [Inst -> SUBSET Inst]
    BY GraphAssumption DEF OrderInv, Types, Walk
  <1>2. SortedComponents(deps, G, s)
    BY <1>1, SortIsChain DEF OrderInv
  <1>3. \A k \in G : deps[k] \subseteq G
    <2>1. WalkOK(i) /\ ToSet(walk[i].todo) \subseteq G
      BY DEF OrderInv, SortGraph
    <2> QED  BY <2>1 DEF WalkOK
  <1>4. chain'[i] = s
    BY DEF SortGraph, OrderInv, Types
  <1> HIDE DEF s, G
  <1>5. ASSUME NEW k \in DOMAIN s, NEW a \in s[k], NEW b \in Inst, Prescribed(b, a)
        PROVE  (\E l \in DOMAIN s : l < k /\ b \in s[l]) \/ (b \in s[k] /\ b < a)
    BY <1>1, <1>2, <1>3, <1>5, SortedIsOrdered DEF Prescribed, DependsOn
  <1>6. \A a, b : Prescribed(b, a)' <=> Prescribed(b, a)
    BY DEF Prescribed, DependsOn, Reaches
  <1> QED  BY <1>4, <1>5, <1>6 DEF ChainOK

\* The next instance of a chain has all executed that the graph puts before it
LEMMA NextIsNext ==
    ASSUME OrderInv, NEW i \in Inst, chain[i] # <<>>, NEW j \in chain[i][1],
           \A k \in chain[i][1] : j <= k, NEW b \in Inst, Prescribed(b, j)
    PROVE  IsExecuted(b)
  <1>1. chain[i] \in Components
    BY DEF OrderInv, Types
  <1>2. 1 \in DOMAIN chain[i] /\ \A l \in DOMAIN chain[i] : ~(l < 1)
    BY <1>1 DEF Components
  <1>3. chain[i][1] \subseteq Nat
    <2>1. chain[i][1] \in SUBSET Inst
      BY <1>1, <1>2 DEF Components
    <2> QED  BY <2>1, GraphAssumption
  <1>4. IsExecuted(b) \/ (b \in chain[i][1] /\ b < j)
    BY <1>2 DEF OrderInv, ChainOK
  <1>5. b \in chain[i][1] => b \in Nat /\ j \in Nat /\ j <= b
    BY <1>3
  <1> QED  BY <1>4, <1>5

LEMMA OrderApply ==
    ASSUME OrderInv, NEW i \in Inst, ApplyNext(i), [Next]_vars
    PROVE  OrderPrescribed'
  <1>1. PICK j \in Inst :
              /\ chain[i] # <<>> /\ j \in chain[i][1]
              /\ \A k \in chain[i][1] : j <= k
              /\ \/ ~IsExecuted(j) /\ executed' = Append(executed, j)
                 \/ IsExecuted(j) /\ executed' = executed
    BY ApplyIs DEF OrderInv
  <1>2. executed \in Seq(Inst) /\ Types
    BY DEF OrderInv, Types
  <1>3. CASE executed' = executed
    BY <1>2, <1>3, StillPrescribed DEF OrderInv, OrderPrescribed, IsExecuted, Before
  <1>4. CASE executed' = Append(executed, j)
    <2>1. /\ DOMAIN executed' = 1..(Len(executed) + 1) /\ DOMAIN executed = 1..Len(executed)
          /\ executed'[Len(executed) + 1] = j /\ Len(executed) \in Nat
          /\ \A k \in 1..Len(executed) : executed'[k] = executed[k]
      BY <1>2, <1>4
    <2>2. \A k \in DOMAIN executed : /\ k \in DOMAIN executed' /\ k < Len(executed) + 1
                                     /\ executed'[k] = executed[k]
      BY <2>1
    <2>3. ASSUME NEW b \in Inst, NEW a \in Inst, IsExecuted(a)', Prescribed(b, a)
          PROVE  Before(b, a)'
      <3>1. CASE IsExecuted(a)
        <4>1. Before(b, a)
          BY <2>3, <3>1 DEF OrderInv, OrderPrescribed
        <4> QED  BY <2>2, <4>1 DEF Before
      <3>2. CASE ~IsExecuted(a)
        <4>1. a = j
          <5>1. PICK k \in DOMAIN executed' : executed'[k] = a
            BY <2>3 DEF IsExecuted
          <5>2. k \notin DOMAIN executed
            BY <2>2, <3>2, <5>1 DEF IsExecuted
          <5>3. k = Len(executed) + 1
            BY <2>1, <5>2
          <5> QED  BY <2>1, <5>1, <5>3
        <4>2. IsExecuted(b)
          BY <1>1, <2>3, <4>1, NextIsNext
        <4>3. PICK k \in DOMAIN executed : executed[k] = b
          BY <4>2 DEF IsExecuted
        <4>4. k < Len(executed) + 1 /\ executed'[k] = b /\ k \in DOMAIN executed'
          BY <2>2, <4>3
        <4>5. Len(executed) + 1 \in DOMAIN executed' /\ executed'[Len(executed) + 1] = a
          BY <2>1, <4>1
        <4> QED  BY <4>4, <4>5 DEF Before
      <3> QED  BY <3>1, <3>2
    <2> QED  BY <1>2, <2>3, StillPrescribed DEF OrderPrescribed
  <1> QED  BY <1>1, <1>3, <1>4

\* What is left of a chain, place by place
LEMMA RestIs ==
    ASSUME NEW s \in Components, s # <<>>, NEW j \in s[1], NEW k \in DOMAIN Rest(s, j)
    PROVE  \E m \in DOMAIN s :
              /\ Rest(s, j)[k] \subseteq s[m]
              /\ \A b \in s[m] : b # j => b \in Rest(s, j)[k]
              /\ \A l \in DOMAIN s : l < m => \A b \in s[l] : b # j =>
                    \E q \in DOMAIN Rest(s, j) : q < k /\ b \in Rest(s, j)[q]
  <1>1. s \in Seq((SUBSET Inst) \ {{}}) /\ Len(s) \in Nat /\ Len(s) >= 1 /\ DOMAIN s = 1..Len(s)
    BY DEF Components
  <1>2. CASE s[1] = {j}
    <2>1. Rest(s, j) = Tail(s)
      BY <1>2 DEF Rest
    <2>2. DOMAIN Tail(s) = 1..(Len(s) - 1) /\ \A q \in 1..(Len(s) - 1) : Tail(s)[q] = s[q + 1]
      BY <1>1
    <2>3. k + 1 \in DOMAIN s /\ Rest(s, j)[k] = s[k + 1]
      BY <1>1, <2>1, <2>2
    <2>4. ASSUME NEW l \in DOMAIN s, l < k + 1, NEW b \in s[l], b # j
          PROVE  \E q \in DOMAIN Rest(s, j) : q < k /\ b \in Rest(s, j)[q]
      <3>1. l # 1
        BY <1>2, <2>4
      <3>2. l - 1 \in 1..(Len(s) - 1) /\ l - 1 < k /\ (l - 1) + 1 = l
        BY <1>1, <2>1, <2>2, <2>4, <3>1
      <3>3. Tail(s)[l - 1] = s[l]
        BY <2>2, <3>2
      <3> QED  BY <2>1, <2>2, <2>4, <3>2, <3>3
    <2> QED  BY <2>3, <2>4
  <1>3. CASE s[1] # {j}
    <2>1. Rest(s, j) = [s EXCEPT ![1] = @ \ {j}]
      BY <1>3 DEF Rest
    <2>2. DOMAIN Rest(s, j) = DOMAIN s /\ 1 \in DOMAIN s
      BY <1>1, <2>1
    <2>3. \A q \in DOMAIN s : Rest(s, j)[q] = IF q = 1 THEN s[1] \ {j} ELSE s[q]
      BY <1>1, <2>1
    <2> QED  BY <2>2, <2>3
  <1> QED  BY <1>2, <1>3

LEMMA ChainApply ==
    ASSUME OrderInv, NEW i \in Inst, ApplyNext(i), [Next]_vars
    PROVE  ChainOK(i)'
  <1>1. PICK j \in Inst :
              /\ chain[i] \in Components /\ chain[i] # <<>> /\ j \in chain[i][1]
              /\ \/ ~IsExecuted(j) /\ executed' = Append(executed, j)
                 \/ IsExecuted(j) /\ executed' = executed
              /\ chain' = [chain EXCEPT ![i] = <<>>] \/ chain' = [chain EXCEPT ![i] = Rest(@, j)]
    BY ApplyIs DEF OrderInv
  <1>2. executed \in Seq(Inst) /\ chain \in [Inst -> Components] /\ Types
    BY DEF OrderInv, Types
  <1>3. IsExecuted(j)'
    <2>1. CASE executed' = Append(executed, j)
      <3>1. Len(executed) + 1 \in DOMAIN executed' /\ executed'[Len(executed) + 1] = j
        BY <1>2, <2>1
      <3> QED  BY <3>1 DEF IsExecuted
    <2>2. CASE IsExecuted(j) /\ executed' = executed
      BY <2>2 DEF IsExecuted
    <2> QED  BY <1>1, <2>1, <2>2
  <1>4. CASE chain'[i] = <<>>
    BY <1>4 DEF ChainOK
  <1>5. CASE chain'[i] = Rest(chain[i], j)
    <2> DEFINE s == chain[i]
               t == Rest(s, j)
    <2>1. ASSUME NEW k \in DOMAIN t, NEW a \in t[k], NEW b \in Inst, Prescribed(b, a)
          PROVE  \/ IsExecuted(b)'
                 \/ \E l \in DOMAIN t : l < k /\ b \in t[l]
                 \/ b \in t[k] /\ b < a
      <3>1. PICK m \in DOMAIN s :
              /\ t[k] \subseteq s[m]
              /\ \A c \in s[m] : c # j => c \in t[k]
              /\ \A l \in DOMAIN s : l < m => \A c \in s[l] : c # j =>
                    \E q \in DOMAIN t : q < k /\ c \in t[q]
        BY <1>1, RestIs
      <3>2. \/ IsExecuted(b)
            \/ \E l \in DOMAIN s : l < m /\ b \in s[l]
            \/ b \in s[m] /\ b < a
        BY <2>1, <3>1 DEF OrderInv, ChainOK
      <3>3. IsExecuted(b) => IsExecuted(b)'
        BY <1>2, StillPrescribed
      <3> HIDE DEF t, s
      <3> QED  BY <1>3, <3>1, <3>2, <3>3
    <2>2. t \in Components
      BY <1>1, RestIsChain
    <2>3. \A k \in DOMAIN t : t[k] \subseteq Inst
      <3> HIDE DEF t
      <3> QED  BY <2>2 DEF Components
    <2>4. chain'[i] = t
      BY <1>5
    <2> HIDE DEF t
    <2>5. \A a, b \in Inst : Prescribed(b, a)' <=> Prescribed(b, a)
      BY <1>2, StillPrescribed
    <2> QED  BY <2>1, <2>3, <2>4, <2>5 DEF ChainOK
  <1> QED  BY <1>1, <1>2, <1>4, <1>5

\* What a step leaves alone
LEMMA ChainKept ==
    ASSUME OrderInv, [Next]_vars, NEW i \in Inst, chain'[i] = chain[i]
    PROVE  ChainOK(i)'
  <1>1. chain[i] \in Components /\ Types
    BY DEF OrderInv, Types
  <1>2. \A k \in DOMAIN chain[i] : chain[i][k] \subseteq Inst
    BY <1>1 DEF Components
  <1>3. ChainOK(i)
    BY DEF OrderInv
  <1>4. \A a, b \in Inst : Prescribed(b, a)' <=> Prescribed(b, a)
    BY <1>1, StillPrescribed
  <1>5. \A a \in Inst : IsExecuted(a) => IsExecuted(a)'
    BY <1>1, StillPrescribed
  <1> QED  BY <1>2, <1>3, <1>4, <1>5 DEF ChainOK

LEMMA OrderKept ==
    ASSUME OrderInv, [Next]_vars, executed' = executed
    PROVE  OrderPrescribed'
  BY StillPrescribed DEF OrderInv, OrderPrescribed, IsExecuted, Before

LEMMA OrderStep == OrderInv /\ [Next]_vars => OrderInv'
  <1> SUFFICES ASSUME OrderInv, [Next]_vars PROVE OrderInv'
    OBVIOUS
  <1>1. Types /\ Types' /\ deps' = deps
    BY TypesStep, StillPrescribed DEF OrderInv
  <1>2. DirectlyOrdered(deps)'
    BY <1>1 DEF OrderInv, DirectlyOrdered
  <1>3. \A i \in Inst : (pc[i] = "walk" => WalkOK(i)) /\ ChainOK(i)
    BY DEF OrderInv
  <1>4. CASE UNCHANGED vars
    BY <1>1, <1>2, <1>3, <1>4, ChainKept, OrderKept DEF OrderInv, vars, WalkOK
  <1>5. ASSUME NEW i \in Inst, StartExecution(i)
        PROVE  OrderInv'
    <2>1. chain' = chain /\ executed' = executed
      BY <1>5 DEF StartExecution
    <2>2. PICK ls \in Listings : walk' = [walk EXCEPT ![i] = NewWalk(<<i>>, ls)]
      BY <1>5 DEF StartExecution
    <2>3. walk'[i].nodes = {} /\ walk'[i].todo = <<i>>
      BY <1>1, <2>2 DEF Types, NewWalk
    <2>4. ToSet(<<i>>) \subseteq {i} /\ Len(<<i>>) <= 1
      BY DEF ToSet
    <2>5. WalkOK(i)'
      BY <2>3, <2>4 DEF WalkOK
    <2>6. \A j \in Inst \ {i} : pc'[j] = pc[j] /\ walk'[j] = walk[j]
      BY <1>1, <1>5, <2>2 DEF StartExecution, Types
    <2>7. \A j \in Inst : pc'[j] = "walk" => WalkOK(j)'
      BY <1>1, <1>3, <2>5, <2>6 DEF WalkOK
    <2> QED  BY <1>1, <1>2, <2>1, <2>7, ChainKept, OrderKept DEF OrderInv
  <1>6. ASSUME NEW i \in Inst, addInstance(i)
        PROVE  OrderInv'
    <2>1. chain' = chain /\ executed' = executed /\ pc' = pc
      BY <1>6 DEF addInstance
    <2>2. WalkOK(i)'
      BY <1>6, WalkAdd
    <2>3. \A j \in Inst \ {i} : walk'[j] = walk[j]
      BY <1>1, <1>6, AddIs DEF Types
    <2>4. \A j \in Inst : pc'[j] = "walk" => WalkOK(j)'
      BY <1>1, <1>3, <2>1, <2>2, <2>3 DEF WalkOK
    <2> QED  BY <1>1, <1>2, <2>1, <2>4, ChainKept, OrderKept DEF OrderInv
  <1>7. ASSUME NEW i \in Inst, SortGraph(i)
        PROVE  OrderInv'
    <2>1. executed' = executed /\ pc' = [pc EXCEPT ![i] = "apply"]
      BY <1>7 DEF SortGraph
    <2>2. ChainOK(i)'
      BY <1>1, <1>7, ChainSort
    <2>3. \A j \in Inst \ {i} : walk'[j] = walk[j] /\ chain'[j] = chain[j] /\ pc'[j] = pc[j]
      BY <1>1, <1>7 DEF SortGraph, Types
    <2>4. \A j \in Inst : pc'[j] = "walk" => WalkOK(j)'
      BY <1>1, <1>3, <2>1, <2>3 DEF WalkOK, Types
    <2>5. \A j \in Inst : ChainOK(j)'
      BY <2>2, <2>3, ChainKept
    <2> QED  BY <1>1, <1>2, <2>1, <2>4, <2>5, OrderKept DEF OrderInv
  <1>8. ASSUME NEW i \in Inst, ApplyNext(i)
        PROVE  OrderInv'
    <2>1. pc' = pc /\ walk' = walk
      BY <1>8 DEF ApplyNext
    <2>2. \A j \in Inst \ {i} : chain'[j] = chain[j]
      BY <1>1, <1>8, ApplyIs DEF Types
    <2>3. \A j \in Inst : ChainOK(j)'
      BY <1>8, <2>2, ChainApply, ChainKept
    <2>4. \A j \in Inst : pc'[j] = "walk" => WalkOK(j)'
      BY <1>1, <1>3, <2>1 DEF WalkOK
    <2> QED  BY <1>1, <1>2, <1>8, <2>3, <2>4, OrderApply DEF OrderInv
  <1> QED  BY <1>4, <1>5, <1>6, <1>7, <1>8 DEF Next, Execute

(***************************************************************************)
(* Where of any two instances one depends on the other, goroutines that    *)
(* walk the graph while others execute execute every instance after those  *)
(* the whole graph puts before it, whatever they leave out: two nodes with *)
(* that graph have the same log up to what is not executed yet             *)
(* (getExecutionOrder, executeDependencyChain).                            *)
(***************************************************************************)
THEOREM ExecutedInOrder ==
    ASSUME \A g \in Graphs : DirectlyOrdered(g)
    PROVE  Spec => []OrderPrescribed
  <1>1. Init => OrderInv
    BY OrderInit
  <1>2. OrderInv => OrderPrescribed
    BY DEF OrderInv
  <1> QED  BY <1>1, <1>2, OrderStep, PTL DEF Spec
=============================================================================
