---------------------------- MODULE ManagerProofs ----------------------------
(***************************************************************************)
(* What the methods of one Manager may do to its instances, whoever calls  *)
(* them: the facts the proofs about the consensus and about explicit       *)
(* prepare rest on.                                                        *)
(***************************************************************************)
EXTENDS Manager, TLAPS

Row == Instance \cup {Nil}

\* An instance that is committed, if there is one
IsCommitted(x) == x # Nil /\ x.status >= INSTANCE_COMMITTED
IsExecuted(x) == x # Nil /\ x.status = INSTANCE_EXECUTED

\* A row y that becomes z advances
Advances(y, z) == y # Nil => z # Nil /\ z.status >= y.status /\ z.ballot >= y.ballot

\* What a method of Manager called on instance i with copy x may do to the row of
\* i: the instance advances, is committed only as it was or as the copy is, and
\* is not executed
RowLearns(y, z, x) ==
    /\ z \in Instance
    /\ y # Nil => z.status >= y.status /\ z.ballot >= y.ballot
    /\ IsCommitted(z) => \/ IsCommitted(y) /\ z.deps = y.deps
                         \/ IsCommitted(x) /\ z.deps = x.deps
    /\ IsExecuted(z) <=> IsExecuted(y)

\* and to the rest of the manager
Learns(m, n, i, x) ==
    /\ n \in ManagerType
    /\ n.executed = m.executed
    /\ \A j \in Inst \ {i} : n.instances[j] = m.instances[j]
    /\ RowLearns(m.instances[i], n.instances[i], x)

USE DEF INSTANCE_PREACCEPTED, INSTANCE_ACCEPTED, INSTANCE_COMMITTED, INSTANCE_EXECUTED
-----------------------------------------------------------------------------
LEMMA DependenciesMethods ==
    ASSUME NEW d \in DependenciesType(Inst), NEW i \in Inst, NEW ds \in SUBSET Inst
    PROVE  /\ AddLocal(d, i, FALSE) \in DependenciesType(Inst)
           /\ Prune(d) \in DependenciesType(Inst)
           /\ AcknowledgeLocal(d, i, ds) \in DependenciesType(Inst)
           /\ MarkExecutedLocal(d, i) \in DependenciesType(Inst)
  <1>1. AddLocal(d, i, FALSE) \in DependenciesType(Inst)
    BY DEF AddLocal, DependenciesType
  <1>2. Prune(d) \in DependenciesType(Inst)
    BY DEF Prune, DependenciesType
  <1>3. AcknowledgeLocal(d, i, ds) \in DependenciesType(Inst)
    BY DEF AcknowledgeLocal, DependenciesType
  <1>4. MarkExecutedLocal(d, i) \in DependenciesType(Inst)
    BY DEF MarkExecutedLocal, DependenciesType
  <1> QED  BY <1>1, <1>2, <1>3, <1>4

\* A change of one key's dependencies leaves the rest of the manager alone
LEMMA SetDependencies ==
    ASSUME NEW m \in ManagerType, NEW k \in Key, NEW d \in DependenciesType(Inst)
    PROVE  /\ [m EXCEPT !.depsMngr[k] = d] \in ManagerType
           /\ [m EXCEPT !.depsMngr[k] = d].executed = m.executed
           /\ [m EXCEPT !.depsMngr[k] = d].instances = m.instances
  BY DEF ManagerType

LEMMA DependencyMethods ==
    ASSUME NEW m \in ManagerType, NEW i \in Inst
    PROVE  /\ AddDependency(m, i) \in ManagerType
           /\ AddDependency(m, i).executed = m.executed
           /\ AddDependency(m, i).instances = m.instances
           /\ m.instances[i] # Nil =>
                /\ ReportAcknowledged(m, i) \in ManagerType
                /\ ReportAcknowledged(m, i).executed = m.executed
                /\ ReportAcknowledged(m, i).instances = m.instances
  <1>1. KeyOf[i] \in Key /\ m.depsMngr[KeyOf[i]] \in DependenciesType(Inst)
    BY KeyOfAssumption DEF ManagerType
  <1>2. AddLocal(m.depsMngr[KeyOf[i]], i, FALSE) \in DependenciesType(Inst)
    <2> {} \in SUBSET Inst
      OBVIOUS
    <2> QED  BY <1>1, DependenciesMethods
  <1>3. m.instances[i] # Nil =>
          AcknowledgeLocal(m.depsMngr[KeyOf[i]], i, m.instances[i].deps) \in DependenciesType(Inst)
    <2> SUFFICES ASSUME m.instances[i] # Nil
                 PROVE  m.instances[i].deps \in SUBSET Inst
      BY <1>1, DependenciesMethods
    <2> QED  BY DEF ManagerType, Instance
  <1> QED  BY <1>1, <1>2, <1>3, SetDependencies DEF AddDependency, ReportAcknowledged

\* An instance that advances without being committed
LEMMA RowAdvances ==
    ASSUME NEW y \in Row, NEW w \in Instance, NEW z \in Instance, NEW x,
           RowLearns(y, w, x),
           z.status >= w.status, z.ballot >= w.ballot, z.status < INSTANCE_COMMITTED
    PROVE  RowLearns(y, z, x)
  <1>1. y # Nil => y \in Instance
    BY DEF Row
  <1>2. y # Nil => z.status >= y.status /\ z.ballot >= y.ballot /\ y.status < INSTANCE_COMMITTED
    BY <1>1 DEF RowLearns, Instance
  <1> QED  BY <1>1, <1>2 DEF RowLearns, IsCommitted, IsExecuted, Instance

\* getOrSetInstance leaves a known instance alone and stores a copy of x otherwise
LEMMA GetOrSetLearns ==
    ASSUME NEW m \in ManagerType, NEW i \in Inst, NEW x \in Instance
    PROVE  Learns(m, getOrSetInstance(m, i, x), i, x)
  <1> DEFINE y == IF x.status > INSTANCE_COMMITTED
                  THEN [x EXCEPT !.status = INSTANCE_COMMITTED] ELSE x
             n == [m EXCEPT !.instances[i] = y]
  <1>1. CASE m.instances[i] # Nil
    BY <1>1 DEF getOrSetInstance, Learns, RowLearns, IsCommitted, IsExecuted,
       ManagerType, Instance
  <1>2. CASE m.instances[i] = Nil
    <2>1. y \in Instance /\ y.status # INSTANCE_EXECUTED /\ y.deps = x.deps
          /\ (y.status >= INSTANCE_COMMITTED => x.status >= INSTANCE_COMMITTED)
      BY DEF Instance
    <2>2. n \in ManagerType /\ n.executed = m.executed /\ n.instances[i] = y
          /\ \A j \in Inst \ {i} : n.instances[j] = m.instances[j]
      BY <2>1 DEF ManagerType
    <2>3. RowLearns(m.instances[i], y, x)
      BY <1>2, <2>1, NilAssumption DEF RowLearns, IsCommitted, IsExecuted
    <2>4. getOrSetInstance(m, i, x) \in {n, AddDependency(n, i)}
      BY <1>2 DEF getOrSetInstance
    <2> HIDE DEF y, n
    <2>5. \A p \in {n, AddDependency(n, i)} :
            p \in ManagerType /\ p.executed = n.executed /\ p.instances = n.instances
      BY <2>2, DependencyMethods
    <2> QED  BY <2>2, <2>3, <2>4, <2>5 DEF Learns
  <1> QED  BY <1>1, <1>2

\* Instance.preaccept, accept and commit return an instance and advance the ballot
LEMMA AdoptType ==
    ASSUME NEW x \in Instance, NEW y \in Instance, NEW d \in SUBSET Inst, NEW inc \in BOOLEAN
    PROVE  /\ preaccept(x, y, d, inc) \in Instance
           /\ preaccept(x, y, d, inc).status = INSTANCE_PREACCEPTED
           /\ preaccept(x, y, d, inc).ballot >= x.ballot
           /\ accept(x, y, inc) \in Instance
           /\ accept(x, y, inc).status = INSTANCE_ACCEPTED
           /\ accept(x, y, inc).ballot >= x.ballot
           /\ accept(x, y, inc).deps = y.deps
           /\ commit(x, y, inc) \in Instance
           /\ commit(x, y, inc).status = INSTANCE_COMMITTED
           /\ commit(x, y, inc).ballot >= x.ballot
           /\ commit(x, y, inc).deps = y.deps
  <1>1. /\ updateBallot(x, y.ballot) \in Instance
        /\ updateBallot(x, y.ballot).ballot >= x.ballot
    BY DEF updateBallot, Larger, Instance
  <1>2. \A s \in 1..3, e \in SUBSET Inst :
          /\ Adopt(x, y, s, e) \in Instance
          /\ Adopt(x, y, s, e).ballot >= x.ballot
          /\ Adopt(x, y, s, e).status = s
          /\ Adopt(x, y, s, e).deps = e
    <2> TAKE s \in 1..3, e \in SUBSET Inst
    <2>1. PICK u \in Instance : u = updateBallot(x, y.ballot) /\ u.ballot >= x.ballot
      BY <1>1
    <2>2. [u EXCEPT !.status = s] \in Instance
      BY DEF Instance
    <2>3. PICK v \in Instance : v = [u EXCEPT !.status = s]
      BY <2>2
    <2>4. v.status = s /\ v.ballot = u.ballot
      BY <2>3 DEF Instance
    <2>5. PICK w \in Instance : w = [v EXCEPT !.deps = e]
      BY DEF Instance
    <2>6. w.status = s /\ w.ballot = u.ballot /\ w.deps = e
      BY <2>4, <2>5 DEF Instance
    <2>7. Adopt(x, y, s, e) = [w EXCEPT !.noop = y.noop]
      BY <2>1, <2>3, <2>5 DEF Adopt
    <2> QED  BY <2>1, <2>6, <2>7 DEF Instance
  <1>3. \A w \in Instance :
          /\ incrementBallot(w, inc) \in Instance
          /\ incrementBallot(w, inc).ballot >= w.ballot
          /\ incrementBallot(w, inc).status = w.status
          /\ incrementBallot(w, inc).deps = w.deps
    BY DEF incrementBallot, Instance
  <1>4. \A s \in 1..3, e \in SUBSET Inst :
          /\ incrementBallot(Adopt(x, y, s, e), inc) \in Instance
          /\ incrementBallot(Adopt(x, y, s, e), inc).ballot >= x.ballot
          /\ incrementBallot(Adopt(x, y, s, e), inc).status = s
          /\ incrementBallot(Adopt(x, y, s, e), inc).deps = e
    <2> TAKE s \in 1..3, e \in SUBSET Inst
    <2>1. /\ Adopt(x, y, s, e) \in Instance /\ Adopt(x, y, s, e).ballot >= x.ballot
          /\ Adopt(x, y, s, e).status = s /\ Adopt(x, y, s, e).deps = e
      BY <1>2
    <2>2. /\ incrementBallot(Adopt(x, y, s, e), inc) \in Instance
          /\ incrementBallot(Adopt(x, y, s, e), inc).ballot >= Adopt(x, y, s, e).ballot
          /\ incrementBallot(Adopt(x, y, s, e), inc).status = s
          /\ incrementBallot(Adopt(x, y, s, e), inc).deps = e
      BY <1>3, <2>1
    <2> QED  BY <2>1, <2>2 DEF Instance
  <1>5. y.deps \in SUBSET Inst
    BY DEF Instance
  <1> QED  BY <1>4, <1>5 DEF preaccept, accept, commit

LEMMA PreAcceptLearns ==
    ASSUME NEW m \in ManagerType, NEW i \in Inst, NEW x \in Instance, NEW inc \in BOOLEAN
    PROVE  Learns(m, preAcceptInstance(m, i, x, inc), i, x)
  <1> DEFINE n == getOrSetInstance(m, i, x)
             d == getLocalDeps(n.depsMngr[KeyOf[i]], FALSE) \ {i}
             z == preaccept(n.instances[i], x, d, inc)
             p == [n EXCEPT !.instances[i] = z,
                            !.depsMngr[KeyOf[i]] = Prune(AddLocal(@, i, FALSE))]
  <1>1. Learns(m, n, i, x)
    BY GetOrSetLearns
  <1>2. n \in ManagerType /\ n.instances[i] \in Instance
    BY <1>1 DEF Learns, RowLearns
  <1> HIDE DEF n
  <1>3. CASE n.instances[i].status > INSTANCE_PREACCEPTED
    BY <1>1, <1>3 DEF preAcceptInstance, n
  <1>4. CASE ~(n.instances[i].status > INSTANCE_PREACCEPTED)
    <2>1. d \in SUBSET Inst
      BY <1>2, KeyOfAssumption DEF ManagerType, DependenciesType, getLocalDeps
    <2>2. z \in Instance /\ z.status = INSTANCE_PREACCEPTED /\ z.ballot >= n.instances[i].ballot
      <3> HIDE DEF d
      <3> QED  BY <1>2, <2>1, AdoptType
    <2> HIDE DEF z
    <2>3. Prune(AddLocal(n.depsMngr[KeyOf[i]], i, FALSE)) \in DependenciesType(Inst)
      BY <1>2, KeyOfAssumption DEF ManagerType, DependenciesType, Prune, AddLocal
    <2>4. /\ p \in ManagerType /\ p.executed = n.executed /\ p.instances[i] = z
          /\ \A j \in Inst \ {i} : p.instances[j] = n.instances[j]
      BY <1>2, <2>2, <2>3, KeyOfAssumption DEF ManagerType
    <2>5. RowLearns(m.instances[i], z, x)
      <3>1. m.instances[i] \in Row /\ n.instances[i].status <= z.status
        BY <1>2, <1>4, <2>2 DEF ManagerType, Row, Instance
      <3> QED  BY <1>1, <1>2, <2>2, <3>1, RowAdvances DEF Learns
    <2>6. preAcceptInstance(m, i, x, inc) = p
      BY <1>4 DEF preAcceptInstance, n, z
    <2> HIDE DEF p
    <2> QED  BY <1>1, <2>4, <2>5, <2>6 DEF Learns
  <1> QED  BY <1>3, <1>4

LEMMA AcceptLearns ==
    ASSUME NEW m \in ManagerType, NEW i \in Inst, NEW x \in Instance, NEW inc \in BOOLEAN
    PROVE  Learns(m, acceptInstance(m, i, x, inc), i, x)
  <1> DEFINE n == getOrSetInstance(m, i, x)
             z == accept(n.instances[i], x, inc)
             p == [n EXCEPT !.instances[i] = z]
  <1>1. Learns(m, n, i, x)
    BY GetOrSetLearns
  <1>2. n \in ManagerType /\ n.instances[i] \in Instance
    BY <1>1 DEF Learns, RowLearns
  <1>3. CASE n.instances[i].status > INSTANCE_ACCEPTED
    BY <1>1, <1>3 DEF acceptInstance
  <1>4. CASE ~(n.instances[i].status > INSTANCE_ACCEPTED)
    <2>1. acceptInstance(m, i, x, inc) = ReportAcknowledged(p, i)
      BY <1>4 DEF acceptInstance
    <2> HIDE DEF n
    <2>2. z \in Instance /\ z.status = INSTANCE_ACCEPTED /\ z.ballot >= n.instances[i].ballot
      <3> {} \in SUBSET Inst
        OBVIOUS
      <3> QED BY <1>2, AdoptType
    <2> HIDE DEF z
    <2>3. /\ p \in ManagerType /\ p.executed = n.executed /\ p.instances[i] = z
          /\ \A j \in Inst \ {i} : p.instances[j] = n.instances[j]
      BY <1>2, <2>2 DEF ManagerType
    <2>4. z # Nil
      BY <2>2, NilAssumption
    <2> HIDE DEF p
    <2>5. /\ ReportAcknowledged(p, i) \in ManagerType
          /\ ReportAcknowledged(p, i).executed = p.executed
          /\ ReportAcknowledged(p, i).instances = p.instances
      BY <2>3, <2>4, DependencyMethods
    <2>6. RowLearns(m.instances[i], z, x)
      <3>1. m.instances[i] \in Row /\ n.instances[i].status <= z.status
        BY <1>2, <1>4, <2>2 DEF ManagerType, Row, Instance
      <3> QED  BY <1>1, <1>2, <2>2, <3>1, RowAdvances DEF Learns
    <2> QED  BY <1>1, <2>1, <2>3, <2>5, <2>6 DEF Learns
  <1> QED  BY <1>3, <1>4

\* commitInstance commits with the dependencies of x, unless the instance is
\* executed: it is a Learns with x seen as committed
LEMMA CommitLearns ==
    ASSUME NEW m \in ManagerType, NEW i \in Inst, NEW x \in Instance, NEW inc \in BOOLEAN
    PROVE  /\ Learns(m, commitInstance(m, i, x, inc), i,
                     [x EXCEPT !.status = INSTANCE_COMMITTED])
           /\ IsCommitted(commitInstance(m, i, x, inc).instances[i])
  <1> DEFINE n == getOrSetInstance(m, i, x)
             z == commit(n.instances[i], x, inc)
             p == [n EXCEPT !.instances[i] = z]
             c == [x EXCEPT !.status = INSTANCE_COMMITTED]
  <1>1. Learns(m, n, i, x)
    BY GetOrSetLearns
  <1>2. n \in ManagerType /\ n.instances[i] \in Instance
    BY <1>1 DEF Learns, RowLearns
  <1>3. c \in Instance /\ c.deps = x.deps /\ c.status = INSTANCE_COMMITTED /\ c # Nil
    BY NilAssumption DEF Instance
  <1>4. CASE n.instances[i].status > INSTANCE_COMMITTED
    <2>1. commitInstance(m, i, x, inc) = n
      BY <1>4 DEF commitInstance
    <2> HIDE DEF n, c
    <2> QED  BY <1>1, <1>2, <1>3, <1>4, <2>1, NilAssumption
             DEF Learns, RowLearns, IsCommitted, IsExecuted, Instance, c
  <1>5. CASE ~(n.instances[i].status > INSTANCE_COMMITTED)
    <2>1. commitInstance(m, i, x, inc) = ReportAcknowledged(p, i)
      BY <1>5 DEF commitInstance
    <2> HIDE DEF n
    <2>2. /\ z \in Instance /\ z.status = INSTANCE_COMMITTED
          /\ z.ballot >= n.instances[i].ballot /\ z.deps = x.deps
      <3> {} \in SUBSET Inst
        OBVIOUS
      <3> QED BY <1>2, AdoptType
    <2> HIDE DEF z, c
    <2>3. /\ p \in ManagerType /\ p.executed = n.executed /\ p.instances[i] = z
          /\ \A j \in Inst \ {i} : p.instances[j] = n.instances[j]
      BY <1>2, <2>2 DEF ManagerType
    <2>4. z # Nil
      BY <2>2, NilAssumption
    <2> HIDE DEF p
    <2>5. /\ ReportAcknowledged(p, i) \in ManagerType
          /\ ReportAcknowledged(p, i).executed = p.executed
          /\ ReportAcknowledged(p, i).instances = p.instances
      BY <2>3, <2>4, DependencyMethods
    <2>6. RowLearns(m.instances[i], z, c)
      <3>1. m.instances[i] # Nil => m.instances[i] \in Instance
        BY DEF ManagerType
      <3>2. m.instances[i] # Nil => /\ z.status >= m.instances[i].status
                                   /\ z.ballot >= m.instances[i].ballot
                                   /\ m.instances[i].status # INSTANCE_EXECUTED
        BY <1>1, <1>2, <1>5, <2>2, <3>1 DEF Learns, RowLearns, Instance
      <3> QED  BY <1>3, <2>2, <2>4, <3>2 DEF RowLearns, IsCommitted, IsExecuted
    <2>7. Learns(m, ReportAcknowledged(p, i), i, c)
      BY <1>1, <2>3, <2>5, <2>6 DEF Learns
    <2>8. IsCommitted(ReportAcknowledged(p, i).instances[i])
      BY <2>2, <2>3, <2>4, <2>5 DEF IsCommitted
    <2> QED  BY <2>1, <2>7, <2>8 DEF c
  <1> QED  BY <1>4, <1>5

\* addMissingInstances stores copies of instances that were unknown
LEMMA AddMissing ==
    ASSUME NEW m \in ManagerType, NEW f \in [Inst -> Row]
    PROVE  /\ addMissingInstances(m, f) \in ManagerType
           /\ addMissingInstances(m, f).executed = m.executed
           /\ \A j \in Inst : LET z == addMissingInstances(m, f).instances[j]
                              IN  \/ z = m.instances[j]
                                  \/ m.instances[j] = Nil /\ f[j] # Nil /\ RowLearns(Nil, z, f[j])
  <1> DEFINE new == {i \in Inst : m.instances[i] = Nil /\ f[i] # Nil}
             I == [i \in Inst |->
                     IF i \notin new THEN m.instances[i]
                     ELSE IF f[i].status > INSTANCE_COMMITTED
                          THEN [f[i] EXCEPT !.status = INSTANCE_COMMITTED]
                          ELSE f[i]]
             D == [k \in Key |-> [m.depsMngr[k] EXCEPT !.writes = @ \cup {i \in new : KeyOf[i] = k}]]
             n == addMissingInstances(m, f)
  <1>1. n = [m EXCEPT !.instances = I, !.depsMngr = D]
    BY DEF addMissingInstances
  <1>2. \A j \in Inst : \/ I[j] = m.instances[j]
                        \/ m.instances[j] = Nil /\ f[j] # Nil /\ RowLearns(Nil, I[j], f[j])
    <2> TAKE j \in Inst
    <2>1. CASE j \in new
      <3>1. f[j] \in Instance /\ f[j] # Nil
        BY <2>1 DEF Row
      <3>2. CASE f[j].status > INSTANCE_COMMITTED
        <4>1. I[j] = [f[j] EXCEPT !.status = INSTANCE_COMMITTED]
          BY <2>1, <3>2
        <4>2. I[j] \in Instance /\ I[j].status = INSTANCE_COMMITTED /\ I[j].deps = f[j].deps
          BY <3>1, <4>1 DEF Instance
        <4> QED  BY <2>1, <3>1, <3>2, <4>2 DEF RowLearns, IsCommitted, IsExecuted, Instance
      <3>3. CASE ~(f[j].status > INSTANCE_COMMITTED)
        <4>1. I[j] = f[j]
          BY <2>1, <3>3
        <4> QED  BY <2>1, <3>1, <3>3, <4>1 DEF RowLearns, IsCommitted, IsExecuted, Instance
      <3> QED  BY <3>2, <3>3
    <2>2. CASE j \notin new
      BY <2>2
    <2> QED  BY <2>1, <2>2
  <1>3. I \in [Inst -> Instance \cup {Nil}]
    <2>1. \A j \in Inst : I[j] \in Instance \cup {Nil}
      BY <1>2 DEF RowLearns, ManagerType
    <2> QED  BY <2>1
  <1>4. D \in [Key -> DependenciesType(Inst)]
    <2>1. \A k \in Key : m.depsMngr[k] \in DependenciesType(Inst)
      BY DEF ManagerType
    <2> QED  BY <2>1 DEF DependenciesType
  <1> HIDE DEF I, D, n
  <1>5. n \in ManagerType /\ n.executed = m.executed /\ n.instances = I
    BY <1>1, <1>3, <1>4 DEF ManagerType
  <1> QED  BY <1>2, <1>5 DEF n

\* applyInstance executes a committed instance and appends it to the log
LEMMA Apply ==
    ASSUME NEW m \in ManagerType, NEW i \in Inst, IsCommitted(m.instances[i])
    PROVE  /\ applyInstance(m, i) \in ManagerType
           /\ applyInstance(m, i).executed = Append(m.executed, i)
           /\ \A j \in Inst \ {i} : applyInstance(m, i).instances[j] = m.instances[j]
           /\ applyInstance(m, i).instances[i] \in Instance
           /\ applyInstance(m, i).instances[i].status = INSTANCE_EXECUTED
           /\ applyInstance(m, i).instances[i].ballot = m.instances[i].ballot
           /\ applyInstance(m, i).instances[i].deps = m.instances[i].deps
  <1> DEFINE x == [m.instances[i] EXCEPT !.status = INSTANCE_EXECUTED]
             d == MarkExecutedLocal(m.depsMngr[KeyOf[i]], i)
  <1>1. m.instances[i] \in Instance
    BY DEF ManagerType, IsCommitted
  <1>2. /\ x \in Instance /\ x.status = INSTANCE_EXECUTED
        /\ x.ballot = m.instances[i].ballot /\ x.deps = m.instances[i].deps
    BY <1>1 DEF Instance
  <1>3. KeyOf[i] \in Key /\ m.depsMngr[KeyOf[i]] \in DependenciesType(Inst)
    BY KeyOfAssumption DEF ManagerType
  <1>4. d \in DependenciesType(Inst)
    <2> {} \in SUBSET Inst
      OBVIOUS
    <2> QED  BY <1>3, DependenciesMethods
  <1>5. applyInstance(m, i) = [m EXCEPT !.instances[i] = x, !.executed = Append(@, i),
                                        !.depsMngr[KeyOf[i]] = d]
    BY DEF applyInstance
  <1>6. Append(m.executed, i) \in Seq(Inst)
    BY DEF ManagerType
  <1> HIDE DEF x, d
  <1>7. PICK n \in ManagerType : n = [m EXCEPT !.instances[i] = x]
    BY <1>2 DEF ManagerType
  <1>8. /\ n.executed = m.executed /\ n.depsMngr = m.depsMngr /\ n.instances[i] = x
        /\ \A j \in Inst \ {i} : n.instances[j] = m.instances[j]
    BY <1>7 DEF ManagerType
  <1>9. PICK p \in ManagerType : p = [n EXCEPT !.executed = Append(m.executed, i)]
    BY <1>6 DEF ManagerType
  <1>10. /\ p.executed = Append(m.executed, i) /\ p.depsMngr = m.depsMngr
         /\ p.instances = n.instances
    BY <1>8, <1>9 DEF ManagerType
  <1>11. applyInstance(m, i) = [p EXCEPT !.depsMngr[KeyOf[i]] = d]
    BY <1>5, <1>7, <1>8, <1>9
  <1> QED  BY <1>2, <1>3, <1>4, <1>8, <1>10, <1>11, SetDependencies
-----------------------------------------------------------------------------
\* An instance somebody has pre-accepted
HasStarted(x) == x.status >= INSTANCE_PREACCEPTED /\ x.ballot >= 1

\* getOrSetInstance stores a started instance as one
LEMMA GetOrSetRow ==
    ASSUME NEW m \in ManagerType, NEW i \in Inst, NEW x \in Instance
    PROVE  LET n == getOrSetInstance(m, i, x)
           IN  /\ m.instances[i] # Nil => n = m
               /\ m.instances[i] = Nil => /\ n.instances[i].ballot = x.ballot
                                          /\ HasStarted(x) => HasStarted(n.instances[i])
               /\ (m.instances[i] = Nil /\ x.status <= INSTANCE_PREACCEPTED)
                     => n = [m EXCEPT !.instances[i] = x]
  <1> DEFINE y == IF x.status > INSTANCE_COMMITTED
                  THEN [x EXCEPT !.status = INSTANCE_COMMITTED] ELSE x
             n == [m EXCEPT !.instances[i] = y]
  <1>1. y \in Instance /\ y.ballot = x.ballot /\ (HasStarted(x) => HasStarted(y))
    BY DEF Instance, HasStarted
  <1>2. n \in ManagerType /\ n.instances[i] = y
    BY <1>1 DEF ManagerType
  <1>3. m.instances[i] = Nil => getOrSetInstance(m, i, x) \in {n, AddDependency(n, i)}
    BY DEF getOrSetInstance
  <1>4. x.status <= INSTANCE_PREACCEPTED => y = x
    BY DEF Instance
  <1>5. (m.instances[i] = Nil /\ x.status <= INSTANCE_PREACCEPTED)
           => getOrSetInstance(m, i, x) = [m EXCEPT !.instances[i] = x]
    BY <1>4 DEF getOrSetInstance, Instance
  <1>6. m.instances[i] # Nil => getOrSetInstance(m, i, x) = m
    BY DEF getOrSetInstance
  <1> HIDE DEF y, n
  <1>7. \A p \in {n, AddDependency(n, i)} : p.instances = n.instances
    BY <1>2, DependencyMethods
  <1> QED  BY <1>1, <1>2, <1>3, <1>5, <1>6, <1>7

\* preAcceptInstance on an instance unknown so far: the dependencies are all that
\* is remembered of the key
LEMMA PreAcceptRow ==
    ASSUME NEW m \in ManagerType, NEW i \in Inst, NEW x \in Instance, NEW inc \in BOOLEAN,
           m.instances[i] = Nil, x.status <= INSTANCE_PREACCEPTED
    PROVE  LET z == preAcceptInstance(m, i, x, inc).instances[i]
           IN  /\ z.status = INSTANCE_PREACCEPTED
               /\ z.ballot = x.ballot + IF inc THEN 1 ELSE 0
               /\ m.depsMngr[KeyOf[i]].writes \ {i} \subseteq z.deps
  <1> DEFINE n == getOrSetInstance(m, i, x)
             d == getLocalDeps(n.depsMngr[KeyOf[i]], FALSE) \ {i}
             z == preaccept(x, x, d, inc)
  <1>1. n = [m EXCEPT !.instances[i] = x]
    BY GetOrSetRow
  <1>2. n \in ManagerType /\ n.depsMngr = m.depsMngr /\ n.instances[i] = x
    BY <1>1 DEF ManagerType
  <1>3. /\ m.depsMngr[KeyOf[i]].writes \ {i} \subseteq d
        /\ d \in SUBSET Inst
    BY <1>2, KeyOfAssumption DEF getLocalDeps, ManagerType, DependenciesType
  <1> HIDE DEF n, d
  <1>4. /\ z.status = INSTANCE_PREACCEPTED /\ z.deps = d
        /\ z.ballot = x.ballot + IF inc THEN 1 ELSE 0
    <2>1. updateBallot(x, x.ballot) = x
      BY DEF updateBallot, Larger, Instance
    <2> DEFINE w == Adopt(x, x, INSTANCE_PREACCEPTED, d)
    <2>2. w \in Instance /\ w.status = INSTANCE_PREACCEPTED /\ w.deps = d /\ w.ballot = x.ballot
      <3>0. [x EXCEPT !.status = INSTANCE_PREACCEPTED] \in Instance
        BY DEF Instance
      <3>1. PICK u \in Instance : u = [x EXCEPT !.status = INSTANCE_PREACCEPTED]
        BY <3>0
      <3>2. u.status = INSTANCE_PREACCEPTED /\ u.ballot = x.ballot
        BY <3>1 DEF Instance
      <3>3. PICK v \in Instance : v = [u EXCEPT !.deps = d]
        BY <1>3 DEF Instance
      <3>4. v.deps = d /\ v.status = u.status /\ v.ballot = u.ballot
        BY <3>3 DEF Instance
      <3>5. w = [v EXCEPT !.noop = x.noop]
        BY <2>1, <3>1, <3>3 DEF Adopt
      <3> HIDE DEF w
      <3> QED  BY <3>2, <3>4, <3>5 DEF Instance
    <2>3. z = incrementBallot(w, inc)
      BY DEF preaccept
    <2> HIDE DEF w, z
    <2> QED  BY <2>2, <2>3 DEF incrementBallot, Instance
  <1>5. preAcceptInstance(m, i, x, inc)
          = [n EXCEPT !.instances[i] = z, !.depsMngr[KeyOf[i]] = Prune(AddLocal(@, i, FALSE))]
    BY <1>2 DEF preAcceptInstance, n, d, Instance
  <1> HIDE DEF z
  <1>6. preAcceptInstance(m, i, x, inc).instances[i] = z
    BY <1>2, <1>5 DEF ManagerType
  <1> QED  BY <1>3, <1>4, <1>6

\* The other methods keep a started instance started, and a leader that calls them
\* on its own instance keeps the dependencies
LEMMA StartedRow ==
    ASSUME NEW m \in ManagerType, NEW i \in Inst, NEW x \in Instance, NEW inc \in BOOLEAN,
           HasStarted(x), m.instances[i] # Nil => HasStarted(m.instances[i])
    PROVE  /\ HasStarted(acceptInstance(m, i, x, inc).instances[i])
           /\ HasStarted(commitInstance(m, i, x, inc).instances[i])
           /\ m.instances[i] = x => acceptInstance(m, i, x, inc).instances[i].deps = x.deps
           /\ m.instances[i] = x => commitInstance(m, i, x, inc).instances[i].deps = x.deps
  <1> DEFINE n == getOrSetInstance(m, i, x)
             w == n.instances[i]
             a == accept(w, x, inc)
             c == commit(w, x, inc)
             p(z) == [n EXCEPT !.instances[i] = z]
  <1>1. n \in ManagerType /\ w \in Instance /\ HasStarted(w) /\ (m.instances[i] = x => w = x)
    BY GetOrSetLearns, GetOrSetRow, NilAssumption DEF Learns, RowLearns
  <1>2. /\ acceptInstance(m, i, x, inc) \in {n, ReportAcknowledged(p(a), i)}
        /\ commitInstance(m, i, x, inc) \in {n, ReportAcknowledged(p(c), i)}
    BY DEF acceptInstance, commitInstance
  <1> HIDE DEF n
  <1>3. /\ a \in Instance /\ HasStarted(a) /\ a.deps = x.deps
        /\ c \in Instance /\ HasStarted(c) /\ c.deps = x.deps
    <2>1. {} \in SUBSET Inst
      OBVIOUS
    <2>2. /\ a \in Instance /\ a.status = INSTANCE_ACCEPTED /\ a.ballot >= w.ballot /\ a.deps = x.deps
          /\ c \in Instance /\ c.status = INSTANCE_COMMITTED /\ c.ballot >= w.ballot /\ c.deps = x.deps
      BY <1>1, <2>1, AdoptType
    <2> HIDE DEF a, c, w
    <2> QED  BY <1>1, <2>2 DEF HasStarted, Instance
  <1> HIDE DEF a, c, w
  <1>4. \A z \in {a, c} : ReportAcknowledged(p(z), i).instances[i] = z
    <2> TAKE z \in {a, c}
    <2>1. z \in Instance /\ z # Nil
      BY <1>3, NilAssumption
    <2>2. p(z) \in ManagerType /\ p(z).instances[i] = z
      BY <1>1, <2>1 DEF ManagerType
    <2> HIDE DEF p
    <2> QED  BY <2>1, <2>2, DependencyMethods
  <1> HIDE DEF p
  <1> QED  BY <1>1, <1>2, <1>3, <1>4 DEF w

\* addMissingInstances stores started copies as started instances
LEMMA AddMissingRow ==
    ASSUME NEW m \in ManagerType, NEW f \in [Inst -> Row], NEW j \in Inst,
           m.instances[j] = Nil, f[j] # Nil => HasStarted(f[j])
    PROVE  LET z == addMissingInstances(m, f).instances[j]
           IN  z # Nil => f[j] # Nil /\ HasStarted(z)
  <1> DEFINE n == addMissingInstances(m, f)
             z == IF f[j].status > INSTANCE_COMMITTED
                  THEN [f[j] EXCEPT !.status = INSTANCE_COMMITTED] ELSE f[j]
  <1>1. n.instances[j] = IF f[j] = Nil THEN Nil ELSE z
    BY DEF addMissingInstances, ManagerType
  <1>2. ASSUME f[j] # Nil PROVE HasStarted(z)
    <2>1. f[j] \in Instance /\ HasStarted(f[j])
      BY <1>2 DEF Row
    <2>2. CASE f[j].status > INSTANCE_COMMITTED
      BY <2>1, <2>2 DEF Instance, HasStarted
    <2>3. CASE ~(f[j].status > INSTANCE_COMMITTED)
      BY <2>1, <2>3
    <2> QED  BY <2>2, <2>3
  <1> HIDE DEF z, n
  <1> QED  BY <1>1, <1>2 DEF n
=============================================================================
