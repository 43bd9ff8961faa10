------------------------------ MODULE Manager ------------------------------
(***************************************************************************)
(* One replica's consensus Manager (consensus/manager*.go, instance.go):   *)
(* the instances it knows, its dependency manager and its execution log.   *)
(* The operators take the manager m, the id i of an instance and, where    *)
(* the method takes one, the instance x it is given (the leader's own, or  *)
(* the copy in a message), and return the manager the method leaves.       *)
(***************************************************************************)
EXTENDS Naturals, Sequences, FiniteSets, Dependencies

CONSTANTS
    Inst,      \* instance ids
    Key,       \* keys
    KeyOf,     \* InterferingKeys of each instance's command: a single key
    Nil        \* no such instance

ASSUME KeyOfAssumption == KeyOf \in [Inst -> Key]

INSTANCE_PREACCEPTED == 1
INSTANCE_ACCEPTED    == 2
INSTANCE_COMMITTED   == 3
INSTANCE_EXECUTED    == 4

\* The fields of Instance that decide anything; a new instance has status 0
Instance == [status : 0..INSTANCE_EXECUTED,
             deps   : SUBSET Inst,
             ballot : Nat,
             noop   : BOOLEAN]

\* nil is no instance and no list of dependencies
ASSUME NilAssumption == Nil \notin Instance /\ \A D \in SUBSET Inst : D # Nil

ManagerType == [instances : [Inst -> Instance \cup {Nil}],
                depsMngr  : [Key -> DependenciesType(Inst)],
                executed  : Seq(Inst)]

NewManager == [instances |-> [i \in Inst |-> Nil],
               depsMngr  |-> [k \in Key |-> newDependencies],
               executed  |-> <<>>]

makeInstance == [status |-> 0, deps |-> {}, ballot |-> 0, noop |-> FALSE]

Larger(a, b) == IF a > b THEN a ELSE b
-----------------------------------------------------------------------------
\* Mutant: the ballot is counted down
decrementBallot(x, increment) ==
    [x EXCEPT !.ballot = @ - IF increment THEN 1 ELSE 0]

\* Instance.updateBallot, and incrementBallot where a phase asks for it
updateBallot(x, b) == [x EXCEPT !.ballot = Larger(b, @)]
incrementBallot(x, increment) ==
    [x EXCEPT !.ballot = @ + IF increment THEN 1 ELSE 0]

\* What Instance.preaccept, accept and commit take from the instance y
Adopt(x, y, s, d) ==
    [updateBallot(x, y.ballot) EXCEPT !.status = s, !.deps = d, !.noop = y.noop]

\* Mutant: commit keeps the dependencies the replica computed itself
commitOwnDeps(x, y, increment) ==
    incrementBallot(Adopt(x, y, INSTANCE_COMMITTED, x.deps), increment)

\* Each is refused (InvalidStatusUpdateError) once the instance is past it
preaccept(x, y, d, increment) ==
    incrementBallot(Adopt(x, y, INSTANCE_PREACCEPTED, d), increment)
accept(x, y, increment) ==
    incrementBallot(Adopt(x, y, INSTANCE_ACCEPTED, y.deps), increment)
commit(x, y, increment) ==
    incrementBallot(Adopt(x, y, INSTANCE_COMMITTED, y.deps), increment)
-----------------------------------------------------------------------------
AddDependency(m, i) ==
    [m EXCEPT !.depsMngr[KeyOf[i]] = AddLocal(@, i, FALSE)]

ReportAcknowledged(m, i) ==
    [m EXCEPT !.depsMngr[KeyOf[i]] = AcknowledgeLocal(@, i, m.instances[i].deps)]

\* An instance unknown here is stored as it came, an executed one as committed;
\* past pre-accept it is added to the dependency manager at once
getOrSetInstance(m, i, x) ==
    LET y == IF x.status > INSTANCE_COMMITTED
             THEN [x EXCEPT !.status = INSTANCE_COMMITTED] ELSE x
        n == [m EXCEPT !.instances[i] = y]
    IN  IF m.instances[i] # Nil THEN m
        ELSE IF y.status > INSTANCE_PREACCEPTED THEN AddDependency(n, i) ELSE n

\* The dependencies are computed afresh here, not taken from x
preAcceptInstance(m, i, x, increment) ==
    LET n == getOrSetInstance(m, i, x)
        d == getLocalDeps(n.depsMngr[KeyOf[i]], FALSE) \ {i}
    IN  IF n.instances[i].status > INSTANCE_PREACCEPTED THEN n
        ELSE [n EXCEPT !.instances[i] = preaccept(@, x, d, increment),
                       !.depsMngr[KeyOf[i]] = Prune(AddLocal(@, i, FALSE))]

acceptInstance(m, i, x, increment) ==
    LET n == getOrSetInstance(m, i, x)
    IN  IF n.instances[i].status > INSTANCE_ACCEPTED THEN n
        ELSE ReportAcknowledged(
                [n EXCEPT !.instances[i] = accept(@, x, increment)], i)

\* Mutant: the check for an instance that is past committed is missing
commitInstanceUnchecked(m, i, x, increment) ==
    LET n == getOrSetInstance(m, i, x)
    IN  ReportAcknowledged([n EXCEPT !.instances[i] = commit(@, x, increment)], i)

commitInstance(m, i, x, increment) ==
    LET n == getOrSetInstance(m, i, x)
    IN  IF n.instances[i].status > INSTANCE_COMMITTED THEN n
        ELSE ReportAcknowledged(
                [n EXCEPT !.instances[i] = commit(@, x, increment)], i)

\* Mutant: copies of missing instances are ignored
addNoMissingInstances(m, missing) == m

\* missing maps the ids of missing instances to their copies, others to Nil; the
\* unknown ones are stored and each of these is added to the dependency manager
addMissingInstances(m, missing) ==
    LET new == {i \in Inst : m.instances[i] = Nil /\ missing[i] # Nil}
    IN  [m EXCEPT
           !.instances = [i \in Inst |->
               IF i \notin new THEN m.instances[i]
               ELSE IF missing[i].status > INSTANCE_COMMITTED
                    THEN [missing[i] EXCEPT !.status = INSTANCE_COMMITTED]
                    ELSE missing[i]],
           !.depsMngr = [k \in Key |->
               [m.depsMngr[k] EXCEPT !.writes = @ \cup {i \in new : KeyOf[i] = k}]]]

\* mergeAttributes over all the replies: nothing happens to an instance that is
\* not pre-accepted any more
mergeAttributes(x, replyDeps) ==
    IF x.status # INSTANCE_PREACCEPTED THEN x
    ELSE [x EXCEPT !.deps = @ \cup UNION replyDeps]
mergeChanges(x, replyDeps) ==
    x.status = INSTANCE_PREACCEPTED /\ \E d \in replyDeps : d # x.deps

\* Mutant: the instance is not marked as executed
applyUnmarked(m, i) ==
    [m EXCEPT !.executed = Append(@, i),
              !.depsMngr[KeyOf[i]] = MarkExecutedLocal(@, i)]

\* applyInstance on a committed instance that the store executed
applyInstance(m, i) ==
    [m EXCEPT !.instances[i].status = INSTANCE_EXECUTED,
              !.executed = Append(@, i),
              !.depsMngr[KeyOf[i]] = MarkExecutedLocal(@, i)]
-----------------------------------------------------------------------------
\* The dependency graph getExecutionOrder walks: what it finds at this replica
Closed(m, S) == \A i \in S : m.instances[i] # Nil => m.instances[i].deps \subseteq S

Reaches(m, i, j) == \A S \in SUBSET Inst : (i \in S /\ Closed(m, S)) => j \in S

ExecutionGraph(m, i) == {j \in Inst : Reaches(m, i, j)}
=============================================================================
