---------------------------- MODULE Dependencies ----------------------------
(***************************************************************************)
(* The `dependencies` object of consensus/manager_depedencies.go: what one *)
(* replica remembers about the instances on one key.  Every operator takes *)
(* the object d and returns its new value, as the method does under the    *)
(* object's lock.                                                          *)
(***************************************************************************)

\* The fields of the `dependencies` struct, as sets of instance ids
DependenciesType(Inst) ==
    [reads        : SUBSET Inst,
     writes       : SUBSET Inst,
     executed     : SUBSET Inst,
     acknowledged : SUBSET Inst]

newDependencies ==
    [reads |-> {}, writes |-> {}, executed |-> {}, acknowledged |-> {}]

\* Writes depend on reads and writes, a read only on writes
getLocalDeps(d, readOnly) ==
    d.writes \cup IF readOnly THEN {} ELSE d.reads

\* AddDependency on the last key, also the middle of GetAndSetDeps
AddLocal(d, i, readOnly) ==
    IF readOnly THEN [d EXCEPT !.reads  = @ \cup {i}]
                ELSE [d EXCEPT !.writes = @ \cup {i}]

\* Mutants: what is executed is forgotten before anyone depends on it; the
\* rebuilt object has no acknowledged map
PruneExecuted(d) ==
    [d EXCEPT !.reads = @ \ d.executed, !.writes = @ \ d.executed, !.executed = {}]
PruneLosesField(d) ==
    LET exAcked == d.executed \cap d.acknowledged
    IN  [reads    |-> d.reads \ exAcked,
         writes   |-> d.writes \ exAcked,
         executed |-> d.executed \ exAcked]

\* The end of GetAndSetDeps on the last key: what has been both executed here
\* and acknowledged as somebody's dependency is forgotten
Prune(d) ==
    LET exAcked == d.executed \cap d.acknowledged
    IN  [reads        |-> d.reads \ exAcked,
         writes       |-> d.writes \ exAcked,
         executed     |-> d.executed \ exAcked,
         acknowledged |-> d.acknowledged \ exAcked]

\* ReportAcknowledged on the last key: an accepted or committed instance
\* acknowledges its dependencies, never itself
AcknowledgeLocal(d, i, deps) ==
    [d EXCEPT !.acknowledged =
        (@ \cup deps) \ IF i \in @ THEN {} ELSE {i}]

\* ReportExecuted on the last key
MarkExecutedLocal(d, i) == [d EXCEPT !.executed = @ \cup {i}]
=============================================================================
