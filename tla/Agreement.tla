----------------------------- MODULE Agreement -----------------------------
(***************************************************************************)
(* What the consensus of the replicas of a token range promises, without   *)
(* phases, messages or ballots: an instance gets its dependencies once and *)
(* for all, nodes learn them, and every node executes what it has learned  *)
(* in the order the graph of these dependencies prescribes.                *)
(***************************************************************************)
EXTENDS Naturals, Sequences

CONSTANTS Node, Inst, Nil

VARIABLES
    chosen,    \* instance -> the dependencies it is committed with, or Nil
    learned,   \* node -> the instances it has committed
    log        \* node -> the instances it has executed, in order

avars == <<chosen, learned, log>>

Init ==
    /\ chosen = [i \in Inst |-> Nil]
    /\ learned = [n \in Node |-> {}]
    /\ log = [n \in Node |-> <<>>]

\* j is reached from i along chosen dependencies
DependsOn(i, j) ==
    \A S \in SUBSET Inst :
        (i \in S /\ \A k \in S : chosen[k] # Nil => chosen[k] \subseteq S) => j \in S

\* The smaller id goes first among instances that depend on each other
Precedes(j, i) ==
    /\ j # i
    /\ DependsOn(i, j)
    /\ DependsOn(j, i) => j < i

Logged(n) == {log[n][k] : k \in DOMAIN log[n]}

\* Node n decides on the dependencies of i
Choose(n, i) ==
    /\ chosen[i] = Nil
    /\ \E D \in SUBSET Inst : chosen' = [chosen EXCEPT ![i] = D]
    /\ learned' = [learned EXCEPT ![n] = @ \cup {i}]
    /\ UNCHANGED log

\* Node n hears of instances others have decided on
Learn(n) ==
    /\ \E S \in SUBSET {i \in Inst : chosen[i] # Nil} :
          learned' = [learned EXCEPT ![n] = @ \cup S]
    /\ UNCHANGED <<chosen, log>>

\* Node n executes i after everything that precedes it in the complete graph
Execute(n, i) ==
    /\ i \in learned[n] \ Logged(n)
    /\ \A j \in Inst : DependsOn(i, j) => j \in learned[n]
    /\ \A j \in Inst : Precedes(j, i) => j \in Logged(n)
    /\ log' = [log EXCEPT ![n] = Append(@, i)]
    /\ UNCHANGED <<chosen, learned>>

Next ==
    \E n \in Node : Learn(n) \/ \E i \in Inst : Choose(n, i) \/ Execute(n, i)

Spec == Init /\ [][Next]_avars
=============================================================================
