----------------------------- MODULE Algorithms -----------------------------
(***************************************************************************)
(* Tarjan's algorithm as consensus/algorithms.go has it.  D maps every     *)
(* instance to its dependencies, G is the set of instances in the graph,   *)
(* and ls maps a set of instances to the order in which Go lists it.       *)
(***************************************************************************)
EXTENDS Naturals, Sequences, SequencesExt

Lower(a, b) == IF a < b THEN a ELSE b

\* Pop the vertices down to v off the stack: a component
PopComponent(t, v) ==
    LET k == CHOOSE k \in DOMAIN t.stack : t.stack[k] = v
    IN  [t EXCEPT !.stack  = SubSeq(@, 1, k - 1),
                  !.output = Append(@, {t.stack[l] : l \in k..Len(t.stack)})]

\* strongConnect on vertex v with the state t of tarjanConnect: the vertices'
\* index (0: not visited) and lowlink, the stack and the output
RECURSIVE strongConnect(_, _, _, _, _)
strongConnect(t, D, G, v, ls) ==
    LET n == t.count + 1
        enter == [t EXCEPT !.count = n, !.index[v] = n, !.lowlink[v] = n,
                           !.stack = Append(@, v)]
        look(u, w) ==
            IF w \notin G THEN u
            ELSE IF u.index[w] = 0
                 THEN LET x == strongConnect(u, D, G, w, ls)
                      IN  [x EXCEPT !.lowlink[v] = Lower(@, x.lowlink[w])]
            ELSE IF \E k \in DOMAIN u.stack : u.stack[k] = w
                 THEN [u EXCEPT !.lowlink[v] = Lower(@, u.index[w])]
            ELSE u
        done == FoldLeft(look, enter, ls[D[v]])
    IN  IF done.index[v] = done.lowlink[v] THEN PopComponent(done, v) ELSE done

\* tarjanConnect: the components of the graph, dependencies first
tarjan(D, G, ls) ==
    LET start == [count |-> 0, index |-> [v \in G |-> 0], lowlink |-> [v \in G |-> 0],
                  stack |-> <<>>, output |-> <<>>]
    IN  FoldLeft(LAMBDA t, v : IF t.index[v] = 0 THEN strongConnect(t, D, G, v, ls) ELSE t,
                 start, ls[G]).output
=============================================================================
