------------------------- MODULE DependencyManager -------------------------
(***************************************************************************)
(* The dependencyManager of one replica, driven by the calls its Manager   *)
(* makes: GetAndSetDeps when an instance is pre-accepted, AddDependency    *)
(* when one arrives already past that, ReportAcknowledged when one is      *)
(* accepted or committed, ReportExecuted when one is applied to the store. *)
(* The manager forgets instances as they are executed, so the question is  *)
(* whether what it answers still orders a new instance after all the       *)
(* interfering ones this replica knows.                                    *)
(***************************************************************************)
EXTENDS Sequences, Naturals, Dependencies

CONSTANTS
    Inst,           \* instance ids
    Paths,          \* the key paths of the tree, e.g. <<a>>, <<a, b>>
    KeysOf,         \* InterferingKeys of each instance's command
    ReadOnly,       \* instances flagged as read only
    Missed,         \* instances this replica first hears of without a pre-accept
    Repreaccepted   \* instances a preparing node may pre-accept once more

\* A path is non-empty and its non-empty prefixes are paths of the tree too
ASSUME PathsAssumption ==
    /\ \A p \in Paths : Len(p) >= 1
    /\ \A p \in Paths : \A k \in 1..Len(p) : SubSeq(p, 1, k) \in Paths

ASSUME InstAssumption ==
    /\ KeysOf \in [Inst -> Paths]
    /\ ReadOnly \subseteq Inst
    /\ Missed \subseteq Inst
    /\ Repreaccepted \subseteq Inst

VARIABLES
    tree,      \* path -> dependencies object (nodes are created on demand, empty)
    status,    \* instance -> its Status at this replica, "none" when unknown
    deps,      \* instance -> its Dependencies at this replica
    answered   \* instance -> what this replica last answered when pre-accepting it

vars == <<tree, status, deps, answered>>

Status == {"none", "preaccepted", "accepted", "committed", "executed"}

TypeOK ==
    /\ tree \in [Paths -> DependenciesType(Inst)]
    /\ status \in [Inst -> Status]
    /\ deps \in [Inst -> SUBSET Inst]
    /\ answered \in [Inst -> SUBSET Inst]

Init ==
    /\ tree = [p \in Paths |-> newDependencies]
    /\ status = [i \in Inst |-> "none"]
    /\ deps = [i \in Inst |-> {}]
    /\ answered = [i \in Inst |-> {}]
-----------------------------------------------------------------------------
\* p is a proper ancestor of q in the tree
Above(p, q) == Len(p) < Len(q) /\ SubSeq(q, 1, Len(p)) = p

\* getLocalDeps at every key on the way, getChildDeps under the last one, and
\* never the instance itself
CollectDeps(i) ==
    LET visited == {p \in Paths : \/ p = KeysOf[i]
                                  \/ Above(p, KeysOf[i])
                                  \/ Above(KeysOf[i], p)}
    IN  (UNION {getLocalDeps(tree[p], i \in ReadOnly) : p \in visited}) \ {i}

\* The tree after GetAndSetDeps: only the last key's node changes
GetAndSetDeps(i) ==
    [tree EXCEPT ![KeysOf[i]] = Prune(AddLocal(@, i, i \in ReadOnly))]

ReportAcknowledged(t, i, d) ==
    [t EXCEPT ![KeysOf[i]] = AcknowledgeLocal(@, i, d)]

\* On the way to the last key the code calls ReportAcknowledged instead of
\* itself, so a nested key never records an executed instance ...
ReportExecuted(t, i) ==
    IF Len(KeysOf[i]) = 1
    THEN [t EXCEPT ![KeysOf[i]] = MarkExecutedLocal(@, i)]
    ELSE ReportAcknowledged(t, i, deps[i])

\* Mutant: a copy of a missing instance is stored but not registered
AddDependencyForgotten(t, i, d) == t

\* ... and AddDependency does not register an instance on a nested key
AddDependency(t, i, d) ==
    IF Len(KeysOf[i]) = 1
    THEN [t EXCEPT ![KeysOf[i]] = AddLocal(@, i, i \in ReadOnly)]
    ELSE ReportAcknowledged(t, i, d)
-----------------------------------------------------------------------------
\* Manager.preAcceptInstance: the first pre-accept of an instance, or the one
\* a node running an explicit prepare asks for (a higher ballot)
PreAccept(i) ==
    /\ \/ status[i] = "none" /\ i \notin Missed
       \/ status[i] = "preaccepted" /\ i \in Repreaccepted
    /\ status' = [status EXCEPT ![i] = "preaccepted"]
    /\ deps' = [deps EXCEPT ![i] = CollectDeps(i)]
    /\ answered' = [answered EXCEPT ![i] = CollectDeps(i)]
    /\ tree' = GetAndSetDeps(i)

\* Manager.addMissingInstancesUnsafe: a copy another replica sent along with
\* its pre-accept reply, of an instance unknown here; an executed copy is only
\* committed here
AddMissing(i, s, d) ==
    /\ status[i] = "none" /\ i \in Missed
    /\ status' = [status EXCEPT ![i] = s]
    /\ deps' = [deps EXCEPT ![i] = d]
    /\ tree' = AddDependency(tree, i, d)
    /\ UNCHANGED answered

\* getOrSetInstance: an instance first seen in an accept or commit message is
\* added to the dependency manager
Registered(i, d) ==
    IF status[i] = "none" THEN AddDependency(tree, i, d) ELSE tree

\* The dependencies the leader sends for i: it may have heard this replica's
\* answer or only those of others, but once it has had them accepted they stay
LeaderSends(i, d) ==
    /\ status[i] = "none" => i \in Missed
    /\ status[i] \in {"accepted", "committed"} => d = deps[i]

\* Manager.acceptInstance with the leader's dependencies
Accept(i, d) ==
    /\ status[i] \in {"none", "preaccepted", "accepted"}
    /\ LeaderSends(i, d)
    /\ status' = [status EXCEPT ![i] = "accepted"]
    /\ deps' = [deps EXCEPT ![i] = d]
    /\ tree' = ReportAcknowledged(Registered(i, d), i, d)
    /\ UNCHANGED answered

\* Manager.commitInstance with the leader's dependencies
Commit(i, d) ==
    /\ status[i] # "executed"
    /\ LeaderSends(i, d)
    /\ status' = [status EXCEPT ![i] = "committed"]
    /\ deps' = [deps EXCEPT ![i] = d]
    /\ tree' = ReportAcknowledged(Registered(i, d), i, d)
    /\ UNCHANGED answered

\* Manager.applyInstance, once everything it depends on here is committed
Execute(i) ==
    /\ status[i] = "committed"
    /\ \A j \in deps[i] : status[j] \in {"committed", "executed"}
    /\ status' = [status EXCEPT ![i] = "executed"]
    /\ tree' = ReportExecuted(tree, i)
    /\ UNCHANGED <<deps, answered>>

Next ==
    \/ \E i \in Inst : PreAccept(i) \/ Execute(i)
    \/ \E i \in Inst : \E d \in SUBSET (Inst \ {i}) :
          \/ \E s \in {"preaccepted", "accepted", "committed"} : AddMissing(i, s, d)
          \/ Accept(i, d)
          \/ Commit(i, d)

Spec == Init /\ [][Next]_vars
-----------------------------------------------------------------------------
Known == {i \in Inst : status[i] # "none"}

\* Two commands interfere when one key path leads to the other, unless both
\* only read
Interfere(i, j) ==
    /\ \/ KeysOf[i] = KeysOf[j]
       \/ Above(KeysOf[i], KeysOf[j])
       \/ Above(KeysOf[j], KeysOf[i])
    /\ ~(i \in ReadOnly /\ j \in ReadOnly)

\* The dependencies f of the members of S stay within S
Closed(S, f) == \A i \in S : f[i] \subseteq S

\* i depends on j, directly or through others: j is in every closed set around i
DependsOn(i, j, f) == \A S \in SUBSET Inst : (i \in S /\ Closed(S, f)) => j \in S

\* What this replica has told others, or been told, that each instance depends on
Told == [i \in Inst |-> deps[i] \cup answered[i]]

(***************************************************************************)
(* What preAcceptInstance answers for an instance orders it after every    *)
(* interfering instance this replica already knows, executed and forgotten *)
(* ones included, for a leader that takes this replica's answers.          *)
(***************************************************************************)
AnswerCoversKnown ==
    [][\A i \in Inst : PreAccept(i) =>
          \A j \in Known \ {i} : Interfere(i, j) => DependsOn(i, j, Told')]_vars

(***************************************************************************)
(* An instance is forgotten for good reason only: when it is gone from the *)
(* tree it is executed here, and an instance that a leader has had         *)
(* accepted or committed depends on it, which no answer of a single        *)
(* replica guarantees (GetAndSetDeps, ReportAcknowledged, ReportExecuted). *)
(***************************************************************************)
ForgottenTaken ==
    \A j \in Known : j \notin tree[KeysOf[j]].writes \cup tree[KeysOf[j]].reads =>
        /\ status[j] = "executed"
        /\ \E k \in Inst \ {j} :
              status[k] \in {"accepted", "committed", "executed"} /\ j \in deps[k]
=============================================================================
