---------------------- MODULE DependencyManagerProofs ----------------------
(***************************************************************************)
(* For any number of instances and keys: with one-level keys, writes only  *)
(* and each instance pre-accepted once at most, pruning the dependency     *)
(* manager never splits the dependency graph.                              *)
(***************************************************************************)
EXTENDS DependencyManager, TLAPS

\* The stores of this repository name one key for an instruction
OneLevelKeys == \A i \in Inst : Len(KeysOf[i]) = 1

\* Nothing in the repository flags an instance read only, and only an explicit
\* prepare pre-accepts an instance twice
OneLevelWrites ==
    /\ OneLevelKeys
    /\ ReadOnly = {}
    /\ Repreaccepted = {}

\* The instances registered at path p of the tree t
Members(t, p) == t[p].writes \cup t[p].reads

\* Linked along the replica's own answers alone, which stay in deps
LinkedByAnswers ==
    \A p \in Paths : \A S \in SUBSET Inst :
        (Members(tree, p) \subseteq S /\ Closed(S, answered))
            => {i \in Known : KeysOf[i] = p} \subseteq S

\* Only an instance that was pre-accepted here has an answer
AnswersKept == \A i \in Inst : status[i] = "none" => answered[i] = {}

\* What a node of the tree records as executed is executed
ExecutedRecorded ==
    \A p \in Paths : \A i \in tree[p].executed : status[i] = "executed"

IInv == TypeOK /\ LinkedByAnswers /\ AnswersKept /\ ExecutedRecorded

-----------------------------------------------------------------------------
LEMMA PruneType ==
    ASSUME NEW d \in DependenciesType(Inst)
    PROVE  Prune(d) \in DependenciesType(Inst)
  BY DEF Prune, DependenciesType

LEMMA AddLocalType ==
    ASSUME NEW d \in DependenciesType(Inst), NEW i \in Inst
    PROVE  AddLocal(d, i, i \in ReadOnly) \in DependenciesType(Inst)
  BY DEF AddLocal, DependenciesType

LEMMA AcknowledgeLocalType ==
    ASSUME NEW d \in DependenciesType(Inst), NEW i \in Inst, NEW ds \in SUBSET Inst
    PROVE  AcknowledgeLocal(d, i, ds) \in DependenciesType(Inst)
  BY DEF AcknowledgeLocal, DependenciesType

LEMMA MarkExecutedLocalType ==
    ASSUME NEW d \in DependenciesType(Inst), NEW i \in Inst
    PROVE  MarkExecutedLocal(d, i) \in DependenciesType(Inst)
  BY DEF MarkExecutedLocal, DependenciesType

LEMMA AddLocalWrite ==
    ASSUME OneLevelWrites, NEW i \in Inst, NEW d
    PROVE  AddLocal(d, i, i \in ReadOnly) = [d EXCEPT !.writes = @ \cup {i}]
  BY DEF OneLevelWrites, AddLocal

\* The type of the tree operations, for any tree
LEMMA TreeTypes ==
    ASSUME NEW t \in [Paths -> DependenciesType(Inst)], NEW i \in Inst,
           NEW d \in SUBSET Inst, deps \in [Inst -> SUBSET Inst]
    PROVE  /\ ReportAcknowledged(t, i, d) \in [Paths -> DependenciesType(Inst)]
           /\ ReportExecuted(t, i) \in [Paths -> DependenciesType(Inst)]
           /\ AddDependency(t, i, d) \in [Paths -> DependenciesType(Inst)]
  <1>1. KeysOf[i] \in Paths
    BY InstAssumption
  <1>2. t[KeysOf[i]] \in DependenciesType(Inst)
    BY <1>1
  <1>3. \A e \in SUBSET Inst :
            ReportAcknowledged(t, i, e) \in [Paths -> DependenciesType(Inst)]
    BY <1>1, <1>2, AcknowledgeLocalType DEF ReportAcknowledged
  <1>4. ReportExecuted(t, i) \in [Paths -> DependenciesType(Inst)]
    <2>1. deps[i] \in SUBSET Inst
      OBVIOUS
    <2> QED
      BY <1>1, <1>2, <1>3, <2>1, MarkExecutedLocalType DEF ReportExecuted
  <1>5. AddDependency(t, i, d) \in [Paths -> DependenciesType(Inst)]
    <2>1. AddLocal(t[KeysOf[i]], i, i \in ReadOnly) \in DependenciesType(Inst)
      BY <1>2, AddLocalType
    <2> QED
      BY <1>1, <1>3, <2>1 DEF AddDependency
  <1> QED
    BY <1>3, <1>4, <1>5

LEMMA CollectDepsType ==
    ASSUME TypeOK, NEW i \in Inst
    PROVE  CollectDeps(i) \in SUBSET Inst
  BY DEF TypeOK, CollectDeps, getLocalDeps, DependenciesType

\* What each tree operation does to the instances registered at each path, and
\* to what is recorded as executed and as acknowledged
LEMMA AcknowledgeMembers ==
    ASSUME NEW t \in [Paths -> DependenciesType(Inst)], NEW i \in Inst,
           NEW d \in SUBSET Inst, NEW p \in Paths
    PROVE  /\ Members(ReportAcknowledged(t, i, d), p) = Members(t, p)
           /\ ReportAcknowledged(t, i, d)[p].executed = t[p].executed
           /\ ReportAcknowledged(t, i, d)[p].acknowledged \subseteq t[p].acknowledged \cup d
  BY InstAssumption DEF ReportAcknowledged, AcknowledgeLocal, Members, DependenciesType

LEMMA ExecutedMembers ==
    ASSUME OneLevelKeys,
           NEW t \in [Paths -> DependenciesType(Inst)], NEW i \in Inst, NEW p \in Paths
    PROVE  /\ Members(ReportExecuted(t, i), p) = Members(t, p)
           /\ ReportExecuted(t, i)[p].executed \subseteq t[p].executed \cup {i}
           /\ ReportExecuted(t, i)[p].acknowledged = t[p].acknowledged
  BY InstAssumption
     DEF OneLevelKeys, ReportExecuted, MarkExecutedLocal, Members, DependenciesType

LEMMA AddMembers ==
    ASSUME OneLevelKeys,
           NEW t \in [Paths -> DependenciesType(Inst)], NEW i \in Inst,
           NEW d \in SUBSET Inst, NEW p \in Paths
    PROVE  /\ Members(AddDependency(t, i, d), p) =
                 Members(t, p) \cup (IF p = KeysOf[i] THEN {i} ELSE {})
           /\ AddDependency(t, i, d)[p].executed = t[p].executed
           /\ AddDependency(t, i, d)[p].acknowledged = t[p].acknowledged
  <1>1. AddDependency(t, i, d) =
            [t EXCEPT ![KeysOf[i]] = AddLocal(t[KeysOf[i]], i, i \in ReadOnly)]
    BY DEF OneLevelKeys, AddDependency
  <1>2. CASE i \in ReadOnly
    BY <1>1, <1>2, InstAssumption DEF AddLocal, Members, DependenciesType
  <1>3. CASE i \notin ReadOnly
    BY <1>1, <1>3, InstAssumption DEF AddLocal, Members, DependenciesType
  <1> QED
    BY <1>2, <1>3

LEMMA SetMembers ==
    ASSUME OneLevelWrites, TypeOK, ExecutedRecorded,
           NEW i \in Inst, status[i] # "executed", NEW p \in Paths
    PROVE  /\ GetAndSetDeps(i)[p].executed \subseteq tree[p].executed
           /\ p # KeysOf[i] => Members(GetAndSetDeps(i), p) = Members(tree, p)
           /\ p = KeysOf[i] =>
                 /\ i \in Members(GetAndSetDeps(i), p)
                 /\ Members(tree, p) \subseteq CollectDeps(i) \cup {i}
  <1>1. GetAndSetDeps(i) =
            [tree EXCEPT ![KeysOf[i]] = Prune([tree[KeysOf[i]] EXCEPT !.writes = @ \cup {i}])]
    BY AddLocalWrite DEF GetAndSetDeps
  <1>2. tree \in [Paths -> DependenciesType(Inst)] /\ KeysOf[i] \in Paths
    BY InstAssumption DEF TypeOK
  <1>3. GetAndSetDeps(i)[p].executed \subseteq tree[p].executed
    BY <1>1, <1>2 DEF Prune, DependenciesType
  <1>4. ASSUME p # KeysOf[i]
        PROVE  Members(GetAndSetDeps(i), p) = Members(tree, p)
    BY <1>1, <1>2, <1>4 DEF Members
  <1>5. ASSUME p = KeysOf[i]
        PROVE  i \in Members(GetAndSetDeps(i), p)
    <2>1. i \notin tree[p].executed
      BY DEF ExecutedRecorded
    <2> QED
      BY <1>1, <1>2, <1>5, <2>1 DEF Members, Prune, DependenciesType
  <1>6. ASSUME p = KeysOf[i]
        PROVE  Members(tree, p) \subseteq CollectDeps(i) \cup {i}
    <2>1. getLocalDeps(tree[p], i \in ReadOnly) = Members(tree, p)
      BY DEF OneLevelWrites, getLocalDeps, Members
    <2>2. getLocalDeps(tree[p], i \in ReadOnly) \ {i} \subseteq CollectDeps(i)
      BY <1>6 DEF CollectDeps
    <2> QED
      BY <2>1, <2>2
  <1> QED
    BY <1>3, <1>4, <1>5, <1>6

-----------------------------------------------------------------------------
\* TypeOK does not depend on the workload: any keys, reads, repeated pre-accepts
LEMMA TypeStep == TypeOK /\ [Next]_vars => TypeOK'
  <1> SUFFICES ASSUME TypeOK, [Next]_vars PROVE TypeOK'
    OBVIOUS
  <1> USE DEF TypeOK, Status
  <1>1. ASSUME NEW i \in Inst, PreAccept(i) PROVE TypeOK'
    <2>1. AddLocal(tree[KeysOf[i]], i, i \in ReadOnly) \in DependenciesType(Inst)
      BY AddLocalType, InstAssumption
    <2>2. GetAndSetDeps(i) \in [Paths -> DependenciesType(Inst)]
      BY <2>1, PruneType, InstAssumption DEF GetAndSetDeps
    <2> QED
      BY <1>1, <2>2, CollectDepsType DEF PreAccept
  <1>2. ASSUME NEW i \in Inst, Execute(i) PROVE TypeOK'
    BY <1>2, TreeTypes DEF Execute
  <1>3. ASSUME NEW i \in Inst, NEW d \in SUBSET (Inst \ {i}),
               NEW s \in {"preaccepted", "accepted", "committed"}, AddMissing(i, s, d)
        PROVE  TypeOK'
    BY <1>3, TreeTypes DEF AddMissing
  <1>4. ASSUME NEW i \in Inst, NEW d \in SUBSET (Inst \ {i})
        PROVE  ReportAcknowledged(Registered(i, d), i, d) \in [Paths -> DependenciesType(Inst)]
    <2>1. Registered(i, d) \in [Paths -> DependenciesType(Inst)]
      BY TreeTypes DEF Registered
    <2> QED
      BY <2>1, TreeTypes
  <1>5. ASSUME NEW i \in Inst, NEW d \in SUBSET (Inst \ {i}), Accept(i, d)
        PROVE  TypeOK'
    BY <1>4, <1>5 DEF Accept
  <1>6. ASSUME NEW i \in Inst, NEW d \in SUBSET (Inst \ {i}), Commit(i, d)
        PROVE  TypeOK'
    BY <1>4, <1>6 DEF Commit
  <1>7. CASE UNCHANGED vars
    BY <1>7 DEF vars
  <1> QED
    BY <1>1, <1>2, <1>3, <1>5, <1>6, <1>7 DEF Next

\* Every behaviour of the dependency manager is type correct, whatever the workload
THEOREM TypeCorrect == Spec => []TypeOK
  <1>1. Init => TypeOK
    BY DEF Init, TypeOK, Status, newDependencies, DependenciesType
  <1> QED
    BY <1>1, TypeStep, PTL DEF Spec

-----------------------------------------------------------------------------
\* A set closed under the new answers is closed under the old ones, when an
\* instance answered for the first time is the only change
LEMMA ClosedBefore ==
    ASSUME TypeOK, AnswersKept, NEW i \in Inst, status[i] = "none",
           NEW d \in SUBSET Inst, NEW S \in SUBSET Inst,
           Closed(S, [answered EXCEPT ![i] = d])
    PROVE  Closed(S, answered)
  BY DEF TypeOK, AnswersKept, Closed

\* The steps that answer nothing: registered instances are never removed and
\* an instance that becomes known is registered
LEMMA LinkedUnlessAnswered ==
    ASSUME IInv, UNCHANGED answered, NEW i \in Inst,
           \A p \in Paths : Members(tree, p) \subseteq Members(tree', p),
           Known' \subseteq Known \cup {i},
           i \in Known \/ i \in Members(tree', KeysOf[i])
    PROVE  LinkedByAnswers'
  <1> SUFFICES ASSUME NEW p \in Paths, NEW S \in SUBSET Inst,
                      Members(tree', p) \subseteq S, Closed(S, answered'),
                      NEW j \in Inst, j \in Known', KeysOf[j] = p
               PROVE  j \in S
    BY DEF LinkedByAnswers, Known
  <1>1. {k \in Known : KeysOf[k] = p} \subseteq S
    BY DEF IInv, LinkedByAnswers
  <1>2. CASE j \in Known
    BY <1>1, <1>2
  <1>3. CASE j \notin Known
    BY <1>3
  <1> QED
    BY <1>2, <1>3

LEMMA IInvStep == OneLevelWrites /\ IInv /\ [Next]_vars => IInv'
  <1> SUFFICES ASSUME OneLevelWrites, IInv, [Next]_vars PROVE IInv'
    OBVIOUS
  <1>0. TypeOK /\ TypeOK'
    BY TypeStep DEF IInv
  <1>t. tree \in [Paths -> DependenciesType(Inst)]
    BY <1>0 DEF TypeOK
  <1>k. OneLevelKeys
    BY DEF OneLevelWrites
  <1>1. ASSUME NEW i \in Inst, PreAccept(i) PROVE IInv'
    <2>1. status[i] = "none"
      BY <1>1 DEF OneLevelWrites, PreAccept
    <2>2. AnswersKept'
      BY <1>0, <1>1 DEF PreAccept, IInv, AnswersKept, TypeOK
    <2>3. ExecutedRecorded'
      <3>1. \A p \in Paths : tree'[p].executed \subseteq tree[p].executed
        BY <1>0, <1>1, <2>1, SetMembers DEF PreAccept, IInv
      <3>2. \A j \in Inst : status[j] = "executed" => status'[j] = "executed"
        BY <1>0, <1>1, <2>1 DEF PreAccept, TypeOK
      <3>3. \A p \in Paths : tree[p].executed \subseteq Inst
        BY <1>t DEF DependenciesType
      <3> QED
        BY <3>1, <3>2, <3>3 DEF IInv, ExecutedRecorded
    <2>4. LinkedByAnswers'
      <3> SUFFICES ASSUME NEW p \in Paths, NEW S \in SUBSET Inst,
                          Members(tree', p) \subseteq S, Closed(S, answered'),
                          NEW j \in Inst, j \in Known', KeysOf[j] = p
                   PROVE  j \in S
        BY DEF LinkedByAnswers, Known
      <3>1. answered' = [answered EXCEPT ![i] = CollectDeps(i)] /\ tree' = GetAndSetDeps(i)
        BY <1>1 DEF PreAccept
      <3>2. Closed(S, answered)
        BY <1>0, <2>1, <3>1, ClosedBefore, CollectDepsType DEF IInv
      <3>3. Members(tree, p) \subseteq S /\ (j = i => i \in S)
        <4>1. CASE p # KeysOf[i]
          <5>1. Members(tree, p) = Members(tree', p)
            BY <1>0, <2>1, <3>1, <4>1, SetMembers DEF IInv
          <5> QED
            BY <4>1, <5>1
        <4>2. CASE p = KeysOf[i]
          <5>1. i \in S
            BY <1>0, <2>1, <3>1, <4>2, SetMembers DEF IInv
          <5>2. answered'[i] = CollectDeps(i)
            BY <1>0, <3>1 DEF TypeOK
          <5>3. CollectDeps(i) \subseteq S
            BY <5>1, <5>2 DEF Closed
          <5>4. Members(tree, p) \subseteq CollectDeps(i) \cup {i}
            BY <1>0, <2>1, <4>2, SetMembers DEF IInv
          <5> QED
            BY <5>1, <5>3, <5>4
        <4> QED
          BY <4>1, <4>2
      <3>4. j \in Known \/ j = i
        BY <1>0, <1>1 DEF Known, PreAccept, TypeOK
      <3>5. {k \in Known : KeysOf[k] = p} \subseteq S
        BY <3>2, <3>3 DEF IInv, LinkedByAnswers
      <3> QED
        BY <3>3, <3>4, <3>5
    <2> QED
      BY <1>0, <2>2, <2>3, <2>4 DEF IInv
  <1>2. ASSUME NEW i \in Inst, Execute(i) PROVE IInv'
    <2>1. AnswersKept'
      BY <1>0, <1>2 DEF Execute, IInv, AnswersKept, TypeOK
    <2>2. ExecutedRecorded'
      <3>1. \A p \in Paths : tree'[p].executed \subseteq tree[p].executed \cup {i}
        BY <1>k, <1>t, <1>2, ExecutedMembers DEF Execute
      <3>2. \A j \in Inst : status[j] = "executed" \/ j = i => status'[j] = "executed"
        BY <1>0, <1>2 DEF Execute, TypeOK
      <3>3. \A p \in Paths : tree[p].executed \subseteq Inst
        BY <1>t DEF DependenciesType
      <3> QED
        BY <3>1, <3>2, <3>3 DEF IInv, ExecutedRecorded
    <2>3. LinkedByAnswers'
      <3>1. \A p \in Paths : Members(tree, p) \subseteq Members(tree', p)
        BY <1>k, <1>t, <1>2, ExecutedMembers DEF Execute
      <3>2. Known' \subseteq Known \cup {i} /\ i \in Known
        BY <1>0, <1>2 DEF Execute, Known, TypeOK
      <3> QED
        BY <1>2, <3>1, <3>2, LinkedUnlessAnswered DEF Execute
    <2> QED
      BY <1>0, <2>1, <2>2, <2>3 DEF IInv
  <1>3. ASSUME NEW i \in Inst, NEW d \in SUBSET (Inst \ {i}),
               NEW s \in {"preaccepted", "accepted", "committed"}, AddMissing(i, s, d)
        PROVE  IInv'
    <2>1. AnswersKept'
      BY <1>0, <1>3 DEF AddMissing, IInv, AnswersKept, TypeOK
    <2>2. ExecutedRecorded'
      <3>1. \A p \in Paths : tree'[p].executed = tree[p].executed
        BY <1>k, <1>t, <1>3, AddMembers DEF AddMissing
      <3>2. \A j \in Inst : status[j] = "executed" => status'[j] = "executed"
        BY <1>0, <1>3 DEF AddMissing, TypeOK
      <3>3. \A p \in Paths : tree[p].executed \subseteq Inst
        BY <1>t DEF DependenciesType
      <3> QED
        BY <3>1, <3>2, <3>3 DEF IInv, ExecutedRecorded
    <2>3. LinkedByAnswers'
      <3>1. \A p \in Paths : Members(tree, p) \subseteq Members(tree', p)
        BY <1>k, <1>t, <1>3, AddMembers DEF AddMissing
      <3>2. i \in Members(tree', KeysOf[i])
        BY <1>k, <1>t, <1>3, AddMembers, InstAssumption DEF AddMissing
      <3>3. Known' \subseteq Known \cup {i}
        BY <1>0, <1>3 DEF AddMissing, Known, TypeOK
      <3> QED
        BY <1>3, <3>1, <3>2, <3>3, LinkedUnlessAnswered DEF AddMissing
    <2> QED
      BY <1>0, <2>1, <2>2, <2>3 DEF IInv
  <1>4. ASSUME NEW i \in Inst, NEW d \in SUBSET (Inst \ {i}), Accept(i, d) \/ Commit(i, d)
        PROVE  IInv'
    <2> DEFINE t == Registered(i, d)
    <2>1. /\ tree' = ReportAcknowledged(t, i, d)
          /\ UNCHANGED answered
          /\ deps' = [deps EXCEPT ![i] = d]
          /\ status[i] # "executed"
          /\ status' = [status EXCEPT ![i] = "accepted"] \/ status' = [status EXCEPT ![i] = "committed"]
      BY <1>4 DEF Accept, Commit, LeaderSends
    <2>2. t \in [Paths -> DependenciesType(Inst)]
      BY <1>0, <1>t, TreeTypes DEF Registered, TypeOK
    <2>3. \A p \in Paths : /\ Members(tree, p) \subseteq Members(t, p)
                           /\ t[p].executed = tree[p].executed
      BY <1>k, <1>t, AddMembers DEF Registered
    <2>4. \A p \in Paths : /\ Members(tree, p) \subseteq Members(tree', p)
                           /\ tree'[p].executed = tree[p].executed
      <3> HIDE DEF t
      <3> QED
        BY <1>k, <2>1, <2>2, <2>3, AcknowledgeMembers
    <2>5. AnswersKept'
      BY <1>0, <2>1 DEF IInv, AnswersKept, TypeOK
    <2>6. ExecutedRecorded'
      <3>1. \A j \in Inst : status[j] = "executed" => status'[j] = "executed"
        BY <1>0, <2>1 DEF TypeOK
      <3>2. \A p \in Paths : tree[p].executed \subseteq Inst
        BY <1>t DEF DependenciesType
      <3> QED
        BY <2>4, <3>1, <3>2 DEF IInv, ExecutedRecorded
    <2>7. LinkedByAnswers'
      <3>1. i \in Known \/ i \in Members(tree', KeysOf[i])
        <4>1. CASE status[i] = "none"
          <5>1. i \in Members(t, KeysOf[i])
            BY <1>k, <1>t, <4>1, AddMembers, InstAssumption DEF Registered
          <5> HIDE DEF t
          <5> QED
            BY <1>k, <2>1, <2>2, <5>1, AcknowledgeMembers, InstAssumption
        <4>2. CASE status[i] # "none"
          BY <4>2 DEF Known
        <4> QED
          BY <4>1, <4>2
      <3>2. Known' \subseteq Known \cup {i}
        BY <1>0, <2>1 DEF Known, TypeOK
      <3> QED
        BY <2>1, <2>4, <3>1, <3>2, LinkedUnlessAnswered
    <2> QED
      BY <1>0, <2>5, <2>6, <2>7 DEF IInv
  <1>5. CASE UNCHANGED vars
    BY <1>5 DEF vars, IInv, TypeOK, LinkedByAnswers, AnswersKept, ExecutedRecorded,
                Members, Known, Closed
  <1> QED
    BY <1>1, <1>2, <1>3, <1>4, <1>5 DEF Next

LEMMA IInvInit == Init => IInv
  <1> SUFFICES ASSUME Init PROVE IInv
    OBVIOUS
  <1>1. TypeOK
    BY DEF Init, TypeOK, Status, newDependencies, DependenciesType
  <1>2. LinkedByAnswers
    BY DEF Init, LinkedByAnswers, Known
  <1>3. AnswersKept /\ ExecutedRecorded
    BY DEF Init, AnswersKept, ExecutedRecorded, newDependencies
  <1> QED
    BY <1>1, <1>2, <1>3 DEF IInv

\* One pre-accept answers enough to reach every known instance on the key
LEMMA AnswerStep ==
    ASSUME OneLevelWrites, IInv, IInv', NEW i \in Inst, PreAccept(i),
           NEW j \in Known \ {i}, Interfere(i, j)
    PROVE  DependsOn(i, j, Told')
  <1> SUFFICES ASSUME NEW S \in SUBSET Inst, i \in S, Closed(S, Told')
               PROVE  j \in S
    BY DEF DependsOn
  <1>1. KeysOf[j] = KeysOf[i]
    BY DEF Interfere, Above, OneLevelWrites, OneLevelKeys, Known
  <1>2. /\ status[i] = "none"
        /\ answered' = [answered EXCEPT ![i] = CollectDeps(i)]
    BY DEF OneLevelWrites, PreAccept
  <1>3. Closed(S, answered')
    BY DEF Told, Closed
  <1>4. Closed(S, answered)
    BY <1>2, <1>3, ClosedBefore, CollectDepsType DEF IInv
  <1>5. CollectDeps(i) \subseteq S
    <2>1. answered'[i] = CollectDeps(i)
      BY <1>2 DEF IInv, TypeOK
    <2> QED
      BY <1>3, <2>1 DEF Closed
  <1>6. Members(tree, KeysOf[i]) \subseteq CollectDeps(i) \cup {i}
    BY <1>2, SetMembers, InstAssumption DEF IInv
  <1>7. {k \in Known : KeysOf[k] = KeysOf[i]} \subseteq S
    BY <1>4, <1>5, <1>6, InstAssumption DEF IInv, LinkedByAnswers
  <1> QED
    BY <1>1, <1>7

(***************************************************************************)
(* A replica's pre-accept answer orders the instance after every           *)
(* interfering instance the replica knows, forgotten ones included         *)
(* (Manager.preAcceptInstance), for any instances and one-level keys.      *)
(***************************************************************************)
THEOREM AnswersAlwaysCover == ASSUME OneLevelWrites PROVE Spec => AnswerCoversKnown
  <1>1. IInv /\ [Next]_vars => IInv'
    BY IInvStep
  <1>2. IInv /\ IInv' /\ [Next]_vars =>
          [\A i \in Inst : PreAccept(i) =>
              \A j \in Known \ {i} : Interfere(i, j) => DependsOn(i, j, Told')]_vars
    BY AnswerStep
  <1> QED
    BY <1>1, <1>2, IInvInit, PTL DEF Spec, AnswerCoversKnown

-----------------------------------------------------------------------------
\* What a leader has had accepted or committed depends on j
Taken(j) ==
    \E k \in Inst \ {j} : status[k] \in {"accepted", "committed", "executed"} /\ j \in deps[k]

\* Only such instances are recorded as acknowledged
AcknowledgedTaken ==
    \A p \in Paths : \A j \in tree[p].acknowledged : Taken(j)

FInv == TypeOK /\ ExecutedRecorded /\ AcknowledgedTaken /\ ForgottenTaken

\* No step but its own first accept or commit changes what a leader has had accepted
LEMMA TakenStays ==
    ASSUME TypeOK, [Next]_vars, NEW j \in Inst, Taken(j)
    PROVE  Taken(j)'
  <1>1. PICK k \in Inst \ {j} :
            status[k] \in {"accepted", "committed", "executed"} /\ j \in deps[k]
    BY DEF Taken
  <1> SUFFICES status'[k] \in {"accepted", "committed", "executed"} /\ j \in deps'[k]
    BY <1>1 DEF Taken
  <1> USE DEF TypeOK
  <1>2. ASSUME NEW i \in Inst, PreAccept(i) \/ Execute(i)
        PROVE  status'[k] \in {"accepted", "committed", "executed"} /\ j \in deps'[k]
    BY <1>1, <1>2 DEF PreAccept, Execute
  <1>3. ASSUME NEW i \in Inst, NEW d \in SUBSET (Inst \ {i}), Accept(i, d) \/ Commit(i, d)
        PROVE  status'[k] \in {"accepted", "committed", "executed"} /\ j \in deps'[k]
    BY <1>1, <1>3 DEF Accept, Commit, LeaderSends
  <1>4. ASSUME NEW i \in Inst, NEW d \in SUBSET (Inst \ {i}),
               NEW s \in {"preaccepted", "accepted", "committed"}, AddMissing(i, s, d)
        PROVE  status'[k] \in {"accepted", "committed", "executed"} /\ j \in deps'[k]
    BY <1>1, <1>4 DEF AddMissing
  <1>5. CASE UNCHANGED vars
    BY <1>1, <1>5 DEF vars
  <1> QED
    BY <1>2, <1>3, <1>4, <1>5 DEF Next

\* The steps that forget nothing: nothing is unregistered, an instance that
\* becomes known is registered
LEMMA ForgottenStays ==
    ASSUME FInv, [Next]_vars, NEW i \in Inst,
           \A p \in Paths : Members(tree, p) \subseteq Members(tree', p),
           \A j \in Inst : status[j] = "executed" => status'[j] = "executed",
           Known' \subseteq Known \cup {i},
           i \in Known \/ i \in Members(tree', KeysOf[i])
    PROVE  ForgottenTaken'
  <1> SUFFICES ASSUME NEW j \in Inst, j \in Known', j \notin Members(tree', KeysOf[j])
               PROVE  status'[j] = "executed" /\ Taken(j)'
    BY DEF ForgottenTaken, Taken, Members, Known
  <1>1. j \in Known /\ j \notin Members(tree, KeysOf[j])
    BY InstAssumption
  <1>2. status[j] = "executed" /\ Taken(j)
    BY <1>1 DEF FInv, ForgottenTaken, Taken, Members
  <1> QED
    BY <1>2, TakenStays DEF FInv


\* A pre-accept registers its instance and forgets only what is recorded both as
\* executed and as acknowledged
LEMMA SetForgets ==
    ASSUME TypeOK, NEW i \in Inst, NEW p \in Paths
    PROVE  /\ GetAndSetDeps(i)[p].executed \subseteq tree[p].executed
           /\ GetAndSetDeps(i)[p].acknowledged \subseteq tree[p].acknowledged
           /\ \A j \in Inst :
                 j \in Members(tree, p) \/ (j = i /\ p = KeysOf[i]) =>
                    \/ j \in Members(GetAndSetDeps(i), p)
                    \/ j \in tree[p].executed /\ j \in tree[p].acknowledged
  <1> DEFINE q == KeysOf[i]
             n == AddLocal(tree[q], i, i \in ReadOnly)
  <1>1. tree \in [Paths -> DependenciesType(Inst)] /\ q \in Paths
    BY InstAssumption DEF TypeOK
  <1>2. GetAndSetDeps(i) = [tree EXCEPT ![q] = Prune(n)]
    BY DEF GetAndSetDeps
  <1>3. /\ n.executed = tree[q].executed
        /\ n.acknowledged = tree[q].acknowledged
        /\ n.writes \cup n.reads = Members(tree, q) \cup {i}
    <2>1. CASE i \in ReadOnly
      BY <1>1, <2>1 DEF AddLocal, Members, DependenciesType
    <2>2. CASE i \notin ReadOnly
      BY <1>1, <2>2 DEF AddLocal, Members, DependenciesType
    <2> QED
      BY <2>1, <2>2
  <1> HIDE DEF n
  <1>4. CASE p = q
    <2>1. GetAndSetDeps(i)[p] = Prune(n)
      BY <1>1, <1>2, <1>4
    <2> QED
      BY <1>3, <1>4, <2>1 DEF Prune, Members
  <1>5. CASE p # q
    <2>1. GetAndSetDeps(i)[p] = tree[p]
      BY <1>1, <1>2, <1>5
    <2> QED
      BY <1>5, <2>1 DEF Members
  <1> QED
    BY <1>4, <1>5

LEMMA FInvStep == OneLevelKeys /\ FInv /\ [Next]_vars => FInv'
  <1> SUFFICES ASSUME OneLevelKeys, FInv, [Next]_vars PROVE FInv'
    OBVIOUS
  <1>0. TypeOK /\ TypeOK'
    BY TypeStep DEF FInv
  <1>t. /\ tree \in [Paths -> DependenciesType(Inst)]
        /\ \A p \in Paths : tree[p].executed \subseteq Inst /\ tree[p].acknowledged \subseteq Inst
    BY <1>0 DEF TypeOK, DependenciesType
  <1>s. \A j \in Inst : Taken(j) => Taken(j)'
    BY <1>0, TakenStays
  \* what is enough in every step
  <1>e. ASSUME \A j \in Inst : status[j] = "executed" => status'[j] = "executed",
               \A p \in Paths : \A j \in tree'[p].executed :
                   j \in tree[p].executed \/ status'[j] = "executed",
               \A p \in Paths : \A j \in tree'[p].acknowledged :
                   j \in tree[p].acknowledged \/ Taken(j)'
        PROVE  ExecutedRecorded' /\ AcknowledgedTaken'
    <2>1. ExecutedRecorded'
      BY <1>t, <1>e DEF FInv, ExecutedRecorded
    <2>2. AcknowledgedTaken'
      <3> SUFFICES ASSUME NEW p \in Paths, NEW j \in tree'[p].acknowledged
                   PROVE  Taken(j)'
        BY DEF AcknowledgedTaken
      <3>1. CASE j \in tree[p].acknowledged
        BY <1>t, <1>s, <3>1 DEF FInv, AcknowledgedTaken
      <3> QED
        BY <1>e, <3>1
    <2> QED
      BY <2>1, <2>2
  <1>1. ASSUME NEW i \in Inst, PreAccept(i) PROVE FInv'
    <2>1. /\ tree' = GetAndSetDeps(i)
          /\ status[i] \in {"none", "preaccepted"}
          /\ \A j \in Inst : status[j] = "executed" => status'[j] = "executed"
          /\ \A j \in Inst : status'[j] # "none" => j = i \/ status[j] # "none"
      BY <1>0, <1>1 DEF PreAccept, TypeOK
    <2>2. ExecutedRecorded' /\ AcknowledgedTaken'
      BY <1>0, <1>e, <2>1, SetForgets
    <2>3. ForgottenTaken'
      <3> SUFFICES ASSUME NEW j \in Inst, j \in Known', j \notin Members(tree', KeysOf[j])
                   PROVE  status'[j] = "executed" /\ Taken(j)'
        BY DEF ForgottenTaken, Taken, Members, Known
      <3>1. KeysOf[j] \in Paths
        BY InstAssumption
      <3>2. CASE j \in Members(tree, KeysOf[j]) \/ j = i
        <4>1. j \in tree[KeysOf[j]].executed /\ j \in tree[KeysOf[j]].acknowledged
          BY <1>0, <2>1, <3>1, <3>2, SetForgets
        <4> QED
          BY <1>s, <2>1, <3>1, <4>1 DEF FInv, ExecutedRecorded, AcknowledgedTaken
      <3>3. CASE j \notin Members(tree, KeysOf[j]) /\ j # i
        <4>1. j \in Known
          BY <2>1, <3>3 DEF Known
        <4>2. status[j] = "executed" /\ Taken(j)
          BY <3>3, <4>1 DEF FInv, ForgottenTaken, Taken, Members
        <4> QED
          BY <1>s, <2>1, <4>2
      <3> QED
        BY <3>2, <3>3
    <2> QED
      BY <1>0, <2>2, <2>3 DEF FInv
  <1>2. ASSUME NEW i \in Inst, Execute(i) PROVE FInv'
    <2>1. /\ tree' = ReportExecuted(tree, i)
          /\ \A j \in Inst : status[j] = "executed" \/ j = i => status'[j] = "executed"
          /\ Known' \subseteq Known \cup {i}
          /\ i \in Known
      BY <1>0, <1>2 DEF Execute, Known, TypeOK
    <2>2. ExecutedRecorded' /\ AcknowledgedTaken'
      BY <1>t, <1>e, <2>1, ExecutedMembers
    <2>3. ForgottenTaken'
      BY <1>t, <2>1, ExecutedMembers, ForgottenStays
    <2> QED
      BY <1>0, <2>2, <2>3 DEF FInv
  <1>3. ASSUME NEW i \in Inst, NEW d \in SUBSET (Inst \ {i}),
               NEW s \in {"preaccepted", "accepted", "committed"}, AddMissing(i, s, d)
        PROVE  FInv'
    <2>1. /\ tree' = AddDependency(tree, i, d)
          /\ \A j \in Inst : status[j] = "executed" => status'[j] = "executed"
          /\ Known' \subseteq Known \cup {i}
      BY <1>0, <1>3 DEF AddMissing, Known, TypeOK
    <2>2. \A p \in Paths : /\ Members(tree', p) =
                                  Members(tree, p) \cup (IF p = KeysOf[i] THEN {i} ELSE {})
                           /\ tree'[p].executed = tree[p].executed
                           /\ tree'[p].acknowledged = tree[p].acknowledged
      BY <1>t, <2>1, AddMembers
    <2>3. ExecutedRecorded' /\ AcknowledgedTaken'
      BY <1>e, <2>1, <2>2
    <2>4. i \in Members(tree', KeysOf[i])
      BY <2>2, InstAssumption
    <2>5. ForgottenTaken'
      BY <2>1, <2>2, <2>4, ForgottenStays
    <2> QED
      BY <1>0, <2>3, <2>5 DEF FInv
  <1>4. ASSUME NEW i \in Inst, NEW d \in SUBSET (Inst \ {i}), Accept(i, d) \/ Commit(i, d)
        PROVE  FInv'
    <2> DEFINE t == Registered(i, d)
    <2>1. /\ tree' = ReportAcknowledged(t, i, d)
          /\ deps'[i] = d
          /\ status'[i] \in {"accepted", "committed"}
          /\ \A j \in Inst : status[j] = "executed" => status'[j] = "executed"
          /\ Known' \subseteq Known \cup {i}
      BY <1>0, <1>4 DEF Accept, Commit, Known, TypeOK
    <2>2. /\ t \in [Paths -> DependenciesType(Inst)]
          /\ \A p \in Paths : /\ Members(tree, p) \subseteq Members(t, p)
                                /\ t[p].executed = tree[p].executed
                                /\ t[p].acknowledged = tree[p].acknowledged
          /\ i \in Known \/ i \in Members(t, KeysOf[i])
      <3>1. CASE status[i] = "none"
        <4>1. t = AddDependency(tree, i, d)
          BY <3>1 DEF Registered
        <4>2. t \in [Paths -> DependenciesType(Inst)]
          BY <1>0, <1>t, <4>1, TreeTypes DEF TypeOK
        <4>3. KeysOf[i] \in Paths
          BY InstAssumption
        <4> QED
          BY <1>t, <4>1, <4>2, <4>3, AddMembers
      <3>2. CASE status[i] # "none"
        BY <1>t, <3>2 DEF Registered, Known
      <3> QED
        BY <3>1, <3>2
    <2> HIDE DEF t
    <2>3. \A p \in Paths : /\ Members(tree', p) = Members(t, p)
                           /\ tree'[p].executed = tree[p].executed
                           /\ tree'[p].acknowledged \subseteq tree[p].acknowledged \cup d
      BY <2>1, <2>2, AcknowledgeMembers
    <2>4. \A j \in d : Taken(j)'
      BY <2>1 DEF Taken
    <2>5. ExecutedRecorded' /\ AcknowledgedTaken'
      BY <1>e, <2>1, <2>3, <2>4
    <2>6. i \in Known \/ i \in Members(tree', KeysOf[i])
      BY <2>2, <2>3, InstAssumption
    <2>7. ForgottenTaken'
      BY <2>1, <2>2, <2>3, <2>6, ForgottenStays
    <2> QED
      BY <1>0, <2>5, <2>7 DEF FInv
  <1>5. CASE UNCHANGED vars
    BY <1>5 DEF vars, FInv, TypeOK, ExecutedRecorded, AcknowledgedTaken, ForgottenTaken,
                Taken, Known
  <1> QED
    BY <1>1, <1>2, <1>3, <1>4, <1>5 DEF Next

(***************************************************************************)
(* A replica forgets an instance only once it has executed it and another  *)
(* instance that a leader has had accepted or committed depends on it      *)
(* (GetAndSetDeps, ReportAcknowledged, ReportExecuted), for any instances, *)
(* reads and repeated pre-accepts, on any number of one-level keys.        *)
(***************************************************************************)
THEOREM ForgetsOnlyTaken == ASSUME OneLevelKeys PROVE Spec => []ForgottenTaken
  <1>1. Init => FInv
    BY DEF Init, FInv, TypeOK, Status, ExecutedRecorded, AcknowledgedTaken, ForgottenTaken,
           Known, newDependencies, DependenciesType
  <1>2. FInv /\ [Next]_vars => FInv'
    BY FInvStep
  <1>3. FInv => ForgottenTaken
    BY DEF FInv
  <1> QED
    BY <1>1, <1>2, <1>3, PTL DEF Spec
=============================================================================
