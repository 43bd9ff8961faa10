---------------------------- MODULE EPaxosProofs ----------------------------
(***************************************************************************)
(* For any number of nodes, instances and keys, any timeouts and store     *)
(* errors: the replicas agree on the dependencies of what is committed, no *)
(* replica ever goes back, and each executes an instance once at most      *)
(* (part 1); the consensus implements Agreement, so that nodes execute     *)
(* linked instances in the same order (part 2); and with an odd number of  *)
(* nodes, as long as nothing is forgotten and every pre-accept is          *)
(* accepted, all committed instances on a key are linked (part 3).         *)
(***************************************************************************)
EXTENDS EPaxos, ManagerProofs, FiniteSetTheorems, TLAPS

USE DEF INSTANCE_PREACCEPTED, INSTANCE_ACCEPTED, INSTANCE_COMMITTED, INSTANCE_EXECUTED
-----------------------------------------------------------------------------
\* x, if it is committed, is a copy of the committed instance l of the leader
CopyOf(x, l) == IsCommitted(x) => IsCommitted(l) /\ x.deps = l.deps

\* The leader's own row of instance i
Led(i) == manager[Leader[i]].instances[i]

\* Until its leader commits an instance it is not committed there
PhaseInv ==
    \A i \in Inst :
        /\ pc[i] # "idle" => Led(i) # Nil
        /\ pc[i] \in {"idle", "preaccept", "mustAccept", "accept", "mustCommit"}
              => ~IsCommitted(Led(i))

\* Wherever an instance is committed (at a replica, in a request, in a copy sent
\* along with a reply) it is a copy of the leader's
CopiesAgree ==
    /\ \A n \in Node, i \in Inst : CopyOf(manager[n].instances[i], Led(i))
    /\ \A r \in net : /\ CopyOf(r.inst, Led(r.id))
                      /\ r.type = "Commit" => IsCommitted(r.inst)
    /\ \A r \in replies, j \in Inst : CopyOf(r.missing[j], Led(j))

\* The log of a node holds the instances that are executed there, each once
LogOf(m) ==
    /\ \A k, l \in DOMAIN m.executed : m.executed[k] = m.executed[l] => k = l
    /\ \A i \in Inst : (\E k \in DOMAIN m.executed : m.executed[k] = i)
                          <=> IsExecuted(m.instances[i])

LogInv == \A n \in Node : LogOf(manager[n])

IInv == TypeOK /\ PhaseInv /\ CopiesAgree /\ LogInv

NobodyBack == \A n \in Node, i \in Inst : NeverBack(n, i)
-----------------------------------------------------------------------------
\* Node n may replace its manager by m, committing the instances in C as leader
MayBecome(n, m, C) ==
    /\ m \in ManagerType
    /\ \A i \in Inst :
          /\ Advances(manager[n].instances[i], m.instances[i])
          /\ i \notin C => CopyOf(m.instances[i], Led(i))
          /\ i \in C => n = Leader[i] /\ ~IsCommitted(Led(i))

\* Only the manager of n changes, which executes nothing, and of the instances no
\* leader had committed before only those in C are committed by theirs
LearnStep(n, C) ==
    /\ \A n2 \in Node \ {n} : manager'[n2] = manager[n2]
    /\ manager'[n].executed = manager[n].executed
    /\ \A i \in Inst \ C : IsCommitted(Led(i)') => IsCommitted(Led(i))

\* A node learns what leaders have decided, or a leader decides
LearnsOnly ==
    /\ UNCHANGED chain
    /\ \/ \E n \in Node : LearnStep(n, {})
       \/ \E i \in Inst : /\ LearnStep(Leader[i], {i})
                         /\ ~IsCommitted(Led(i)) /\ IsCommitted(Led(i)')
                         /\ \A j \in Inst \ {i} : manager'[Leader[i]].instances[j]
                                                  = manager[Leader[i]].instances[j]

LEMMA Rows ==
    ASSUME TypeOK, NEW n \in Node, NEW i \in Inst
    PROVE  /\ manager[n] \in ManagerType
           /\ manager[n].instances[i] \in Row
           /\ manager[n].instances[i] # Nil => manager[n].instances[i] \in Instance
           /\ Leader[i] \in Node
           /\ Led(i) \in Row
           /\ Committed(n, i) <=> IsCommitted(manager[n].instances[i])
  <1>1. manager[n] \in ManagerType /\ Leader[i] \in Node
    BY NodeAssumption DEF TypeOK
  <1>2. manager[n].instances[i] \in Row /\ manager[Leader[i]].instances[i] \in Row
    BY <1>1 DEF TypeOK, ManagerType, Row
  <1> QED  BY <1>1, <1>2 DEF Row, Led, Committed, Status, IsCommitted

\* Such a step keeps every copy a copy and takes nothing back
LEMMA ManagerStep ==
    ASSUME TypeOK, CopiesAgree,
           NEW n \in Node, NEW m, NEW C \in SUBSET Inst, MayBecome(n, m, C),
           manager' = [manager EXCEPT ![n] = m]
    PROVE  /\ manager' \in [Node -> ManagerType]
           /\ NobodyBack
           /\ \A i \in Inst : \A x : CopyOf(x, Led(i)) => CopyOf(x, Led(i)')
           /\ \A n2 \in Node, i \in Inst : CopyOf(manager'[n2].instances[i], Led(i)')
           /\ \A i \in Inst \ C : IsCommitted(Led(i)') => IsCommitted(Led(i))
           /\ \A i \in Inst : Led(i) # Nil => Led(i)' # Nil
  <1>1. manager' \in [Node -> ManagerType]
    BY DEF TypeOK, MayBecome
  <1>2. \A n2 \in Node, i \in Inst :
          /\ Advances(manager[n2].instances[i], manager'[n2].instances[i])
          /\ i \notin C => CopyOf(manager'[n2].instances[i], Led(i))
          /\ n2 # Leader[i] => CopyOf(manager'[n2].instances[i], Led(i))
          /\ i \in C => ~IsCommitted(Led(i))
    <2> TAKE n2 \in Node, i \in Inst
    <2>1. CASE n2 = n
      <3>1. manager'[n2] = m
        BY <2>1 DEF TypeOK
      <3> QED  BY <2>1, <3>1 DEF MayBecome
    <2>2. CASE n2 # n
      <3>1. manager'[n2] = manager[n2]
        BY <2>2 DEF TypeOK
      <3>2. Advances(manager[n2].instances[i], manager[n2].instances[i])
        BY Rows DEF Advances, Instance
      <3> QED  BY <3>1, <3>2 DEF CopiesAgree, MayBecome
    <2> QED  BY <2>1, <2>2
  <1>3. \A n2 \in Node, i \in Inst : manager'[n2].instances[i] \in Row
    BY <1>1 DEF ManagerType, Row
  <1>4. \A i \in Inst : IsCommitted(Led(i)) => IsCommitted(Led(i)') /\ Led(i)'.deps = Led(i).deps
    <2> TAKE i \in Inst
    <2> HAVE IsCommitted(Led(i))
    <2>1. Leader[i] \in Node /\ i \notin C
      BY Rows, <1>2
    <2>2. Led(i) \in Instance /\ Led(i)' \in Row /\ Advances(Led(i), Led(i)') /\ CopyOf(Led(i)', Led(i))
      BY <1>2, <1>3, <2>1, Rows DEF Led, IsCommitted
    <2>3. Led(i)' \in Instance
      BY <2>2 DEF Advances, Row, IsCommitted
    <2> QED  BY <2>2, <2>3 DEF Advances, CopyOf, IsCommitted, Instance
  <1>5. \A i \in Inst : \A x : CopyOf(x, Led(i)) => CopyOf(x, Led(i)')
    BY <1>4 DEF CopyOf
  <1>6. \A n2 \in Node, i \in Inst : CopyOf(manager'[n2].instances[i], Led(i)')
    <2> TAKE n2 \in Node, i \in Inst
    <2>1. CASE n2 = Leader[i]
      BY <2>1 DEF CopyOf, Led
    <2>2. CASE n2 # Leader[i]
      BY <2>2, <1>2, <1>5
    <2> QED  BY <2>1, <2>2
  <1>7. \A i \in Inst \ C : IsCommitted(Led(i)') => IsCommitted(Led(i))
    BY <1>2, Rows DEF CopyOf, Led
  <1>8. \A i \in Inst : Led(i) # Nil => Led(i)' # Nil
    BY <1>2, Rows DEF Advances, Led
  <1>9. NobodyBack
    <2> SUFFICES ASSUME NEW n2 \in Node, NEW i \in Inst, manager[n2].instances[i] # Nil
                 PROVE  /\ manager'[n2].instances[i] # Nil
                        /\ Status(n2, i)' >= Status(n2, i)
                        /\ manager'[n2].instances[i].ballot >= manager[n2].instances[i].ballot
                        /\ Committed(n2, i) => Deps(n2, i)' = Deps(n2, i)
      BY DEF NobodyBack, NeverBack
    <2> DEFINE y == manager[n2].instances[i]
               z == manager'[n2].instances[i]
    <2>1. y \in Instance /\ z \in Instance /\ z # Nil /\ z.status >= y.status /\ z.ballot >= y.ballot
      BY <1>2, <1>3, Rows DEF Advances, Row
    <2>2. Status(n2, i) = y.status /\ Status(n2, i)' = z.status
      BY <2>1 DEF Status
    <2>3. ASSUME Committed(n2, i) PROVE z.deps = y.deps
      <3>1. IsCommitted(y) /\ IsCommitted(z)
        BY <2>1, <2>3, Rows DEF IsCommitted, Instance
      <3>2. IsCommitted(Led(i)) /\ y.deps = Led(i).deps
        BY <3>1 DEF CopiesAgree, CopyOf
      <3>3. z.deps = Led(i)'.deps
        BY <1>6, <3>1 DEF CopyOf
      <3> QED  BY <1>4, <3>2, <3>3
    <2> QED  BY <2>1, <2>2, <2>3 DEF Deps
  <1> QED  BY <1>1, <1>5, <1>6, <1>7, <1>8, <1>9

\* A step that executes nothing keeps the logs
LEMMA LogKept ==
    ASSUME TypeOK, LogInv, NEW n \in Node, NEW m, manager' = [manager EXCEPT ![n] = m],
           m.executed = manager[n].executed,
           \A i \in Inst : IsExecuted(m.instances[i]) <=> IsExecuted(manager[n].instances[i])
    PROVE  LogInv'
  <1>1. LogOf(m)
    BY DEF LogInv, LogOf
  <1>2. \A n2 \in Node : LogOf(manager'[n2])
    BY <1>1 DEF TypeOK, LogInv
  <1> QED  BY <1>2 DEF LogInv

\* A Learns from a copy of the leader's instance is such a step
LEMMA LearnsMayBecome ==
    ASSUME TypeOK, CopiesAgree, NEW n \in Node, NEW m, NEW i \in Inst, NEW x,
           Learns(manager[n], m, i, x), CopyOf(x, Led(i))
    PROVE  /\ MayBecome(n, m, {})
           /\ m.executed = manager[n].executed
           /\ \A j \in Inst : IsExecuted(m.instances[j]) <=> IsExecuted(manager[n].instances[j])
           /\ m.instances[i] \in Instance /\ m.instances[i] # Nil
  <1>1. m.instances[i] \in Instance /\ m.instances[i] # Nil
    BY NilAssumption DEF Learns, RowLearns
  <1>2. /\ Advances(manager[n].instances[i], m.instances[i])
        /\ CopyOf(m.instances[i], Led(i))
        /\ IsExecuted(m.instances[i]) <=> IsExecuted(manager[n].instances[i])
    BY <1>1 DEF Learns, RowLearns, Advances, CopyOf, CopiesAgree
  <1>3. \A j \in Inst \ {i} :
          /\ m.instances[j] = manager[n].instances[j]
          /\ Advances(manager[n].instances[j], m.instances[j])
          /\ CopyOf(m.instances[j], Led(j))
    BY Rows DEF Learns, Advances, CopiesAgree, Instance
  <1> QED  BY <1>1, <1>2, <1>3 DEF MayBecome, Learns
-----------------------------------------------------------------------------
\* The leader of i goes on to phase p with manager m and has sent the requests N;
\* C holds i if that commits it
LEMMA LeaderSteps ==
    ASSUME IInv, NEW i \in Inst, NEW p \in Phases, NEW m, NEW C \in SUBSET {i},
           MayBecome(Leader[i], m, C),
           m.executed = manager[Leader[i]].executed,
           \A j \in Inst : IsExecuted(m.instances[j])
                              <=> IsExecuted(manager[Leader[i]].instances[j]),
           m.instances[i] # Nil, p # "idle",
           C = {i} => /\ p = "execute"
                      /\ \A j \in Inst \ {i} : m.instances[j] = manager[Leader[i]].instances[j],
           C = {} => pc[i] \in {"idle", "preaccept", "mustAccept", "accept", "mustCommit"},
           manager' = [manager EXCEPT ![Leader[i]] = m],
           pc' = [pc EXCEPT ![i] = p],
           UNCHANGED chain,
           net' \subseteq Request, replies' \subseteq replies,
           \A r \in net' : \/ \E q \in net : q.id = r.id /\ q.inst = r.inst /\ q.type = r.type
                           \/ /\ r.id = i /\ r.inst = m.instances[i]
                              /\ r.type = "Commit" => IsCommitted(r.inst)
    PROVE  IInv' /\ NobodyBack /\ LearnsOnly
  <1> DEFINE l == Leader[i]
  <1>1. TypeOK /\ PhaseInv /\ CopiesAgree /\ LogInv
    BY DEF IInv
  <1>2. l \in Node /\ C \in SUBSET Inst
    BY NodeAssumption
  <1>3. /\ manager' \in [Node -> ManagerType]
        /\ NobodyBack
        /\ \A j \in Inst : \A x : CopyOf(x, Led(j)) => CopyOf(x, Led(j)')
        /\ \A n2 \in Node, j \in Inst : CopyOf(manager'[n2].instances[j], Led(j)')
        /\ \A j \in Inst \ C : IsCommitted(Led(j)') => IsCommitted(Led(j))
        /\ \A j \in Inst : Led(j) # Nil => Led(j)' # Nil
    BY <1>1, <1>2, ManagerStep
  <1>4. Led(i)' = m.instances[i]
    BY <1>1, <1>2 DEF TypeOK, Led
  <1>5. TypeOK'
    BY <1>1, <1>3 DEF TypeOK
  <1>6. PhaseInv'
    <2> SUFFICES ASSUME NEW j \in Inst
                 PROVE  /\ pc'[j] # "idle" => Led(j)' # Nil
                        /\ pc'[j] \in {"idle", "preaccept", "mustAccept", "accept", "mustCommit"}
                              => ~IsCommitted(Led(j)')
      BY DEF PhaseInv
    <2>1. CASE j = i
      <3>1. pc'[i] = p
        BY <1>1 DEF TypeOK
      <3>2. CASE C = {i}
        BY <1>4, <2>1, <3>1, <3>2
      <3>3. CASE C = {}
        BY <1>1, <1>3, <1>4, <2>1, <3>1, <3>3 DEF PhaseInv
      <3> QED  BY <3>2, <3>3
    <2>2. CASE j # i
      <3>1. pc'[j] = pc[j] /\ j \in Inst \ C
        BY <1>1, <2>2 DEF TypeOK
      <3> QED  BY <1>1, <1>3, <3>1 DEF PhaseInv
    <2> QED  BY <2>1, <2>2
  <1>7. CopiesAgree'
    <2>1. \A r \in net' : CopyOf(r.inst, Led(r.id)') /\ (r.type = "Commit" => IsCommitted(r.inst))
      <3> TAKE r \in net'
      <3>1. CASE \E q \in net : q.id = r.id /\ q.inst = r.inst /\ q.type = r.type
        <4>1. PICK q \in net : q.id = r.id /\ q.inst = r.inst /\ q.type = r.type
          BY <3>1
        <4>2. q.id \in Inst
          BY <1>1 DEF TypeOK, Request
        <4> QED  BY <1>1, <1>3, <4>1, <4>2 DEF CopiesAgree
      <3>2. CASE /\ r.id = i /\ r.inst = m.instances[i]
                 /\ r.type = "Commit" => IsCommitted(r.inst)
        BY <1>4, <3>2 DEF CopyOf
      <3> QED  BY <3>1, <3>2
    <2>2. \A r \in replies', j \in Inst : CopyOf(r.missing[j], Led(j)')
      BY <1>1, <1>3 DEF CopiesAgree
    <2> QED  BY <1>3, <2>1, <2>2 DEF CopiesAgree
  <1>8. LogInv'
    BY <1>1, <1>2, LogKept
  <1>9. LearnsOnly
    <2>1. /\ \A n2 \in Node \ {l} : manager'[n2] = manager[n2]
          /\ manager'[l].executed = manager[l].executed
      BY <1>1, <1>2 DEF TypeOK
    <2>2. CASE C = {} \/ (IsCommitted(Led(i)') => IsCommitted(Led(i)))
      <3>1. LearnStep(l, {})
        BY <1>3, <2>1, <2>2 DEF LearnStep
      <3> QED  BY <1>2, <3>1 DEF LearnsOnly
    <2>3. CASE C = {i} /\ IsCommitted(Led(i)') /\ ~IsCommitted(Led(i))
      <3>1. LearnStep(Leader[i], {i})
        BY <1>3, <2>1, <2>3 DEF LearnStep
      <3>2. \A j \in Inst \ {i} : manager'[l].instances[j] = manager[l].instances[j]
        BY <1>1, <1>2, <2>3 DEF TypeOK
      <3> QED  BY <2>3, <3>1, <3>2 DEF LearnsOnly
    <2> QED  BY <2>2, <2>3
  <1> QED  BY <1>3, <1>5, <1>6, <1>7, <1>8, <1>9 DEF IInv

\* The ways a leader stops waiting
LEMMA EndWaitSteps ==
    ASSUME IInv, NEW i \in Inst, NEW p \in {"mustAccept", "mustCommit"}, NEW m,
           pc[i] \in {"preaccept", "accept"},
           MayBecome(Leader[i], m, {}),
           m.executed = manager[Leader[i]].executed,
           \A j \in Inst : IsExecuted(m.instances[j])
                              <=> IsExecuted(manager[Leader[i]].instances[j]),
           m.instances[i] # Nil,
           EndWait(i, p, m)
    PROVE  IInv' /\ NobodyBack /\ LearnsOnly
  <1>1. net \subseteq Request
    BY DEF IInv, TypeOK
  <1>2. net' \subseteq Request
    BY <1>1 DEF EndWait, Unawaited, Request
  <1>3. \A r \in net' : \E q \in net : q.id = r.id /\ q.inst = r.inst /\ q.type = r.type
    BY <1>1 DEF EndWait, Unawaited, Request
  <1>4. p \in Phases /\ p # "idle" /\ {} \in SUBSET {i} /\ {} # {i}
    BY DEF Phases
  <1>5. /\ manager' = [manager EXCEPT ![Leader[i]] = m]
        /\ pc' = [pc EXCEPT ![i] = p]
        /\ UNCHANGED chain
        /\ replies' \subseteq replies
    BY DEF EndWait
  <1>6. pc[i] \in {"idle", "preaccept", "mustAccept", "accept", "mustCommit"}
    OBVIOUS
  <1> QED  BY <1>2, <1>3, <1>4, <1>5, <1>6, LeaderSteps

\* The ways a leader starts a phase
LEMMA BroadcastSteps ==
    ASSUME IInv, NEW i \in Inst, NEW p \in Phases, NEW m, NEW C \in SUBSET {i},
           NEW type \in {"PreAccept", "Accept", "Commit"}, NEW awaited \in BOOLEAN,
           MayBecome(Leader[i], m, C),
           m.executed = manager[Leader[i]].executed,
           \A j \in Inst : IsExecuted(m.instances[j])
                              <=> IsExecuted(manager[Leader[i]].instances[j]),
           m.instances[i] # Nil, p # "idle",
           C = {i} => /\ p = "execute"
                      /\ \A j \in Inst \ {i} : m.instances[j] = manager[Leader[i]].instances[j],
           C = {} => pc[i] \in {"idle", "preaccept", "mustAccept", "accept", "mustCommit"},
           type = "Commit" => IsCommitted(m.instances[i]),
           manager' = [manager EXCEPT ![Leader[i]] = m],
           pc' = [pc EXCEPT ![i] = p],
           net' = net \cup Broadcast(type, i, m.instances[i], awaited),
           UNCHANGED <<replies, chain>>
    PROVE  IInv' /\ NobodyBack /\ LearnsOnly
  <1>1. net \subseteq Request
    BY DEF IInv, TypeOK
  <1>2. m.instances[i] \in Instance
    BY DEF MayBecome, ManagerType
  <1>3. net' \subseteq Request
    BY <1>1, <1>2 DEF Broadcast, Replicas, Request
  <1>4. \A r \in net' : \/ \E q \in net : q.id = r.id /\ q.inst = r.inst /\ q.type = r.type
                        \/ /\ r.id = i /\ r.inst = m.instances[i]
                           /\ r.type = "Commit" => IsCommitted(r.inst)
    BY DEF Broadcast
  <1>5. UNCHANGED chain /\ replies' \subseteq replies
    OBVIOUS
  <1> QED  BY <1>3, <1>4, <1>5, LeaderSteps

\* A replica handles a request and learns from the copy x
LEMMA HandledSteps ==
    ASSUME IInv, NEW r \in net, NEW m, NEW Answers, NEW x,
           Learns(manager[r.to], m, r.id, x), CopyOf(x, Led(r.id)),
           Answers \subseteq Reply,
           \A a \in Answers, j \in Inst : a.missing[j] \in {Nil, m.instances[j]},
           Handled(r, m, Answers)
    PROVE  IInv' /\ NobodyBack /\ LearnsOnly
  <1>1. TypeOK /\ PhaseInv /\ CopiesAgree /\ LogInv
    BY DEF IInv
  <1>2. r.to \in Node /\ r.id \in Inst
    BY <1>1 DEF TypeOK, Request
  <1>3. /\ MayBecome(r.to, m, {})
        /\ m.executed = manager[r.to].executed
        /\ \A j \in Inst : IsExecuted(m.instances[j]) <=> IsExecuted(manager[r.to].instances[j])
    BY <1>1, <1>2, LearnsMayBecome
  <1>4. /\ manager' = [manager EXCEPT ![r.to] = m]
        /\ net' = net \ {r}
        /\ replies' \subseteq replies \cup Answers
        /\ UNCHANGED <<pc, chain>>
    BY DEF Handled
  <1>5. /\ manager' \in [Node -> ManagerType]
        /\ NobodyBack
        /\ \A j \in Inst : \A y : CopyOf(y, Led(j)) => CopyOf(y, Led(j)')
        /\ \A n2 \in Node, j \in Inst : CopyOf(manager'[n2].instances[j], Led(j)')
        /\ \A j \in Inst \ {} : IsCommitted(Led(j)') => IsCommitted(Led(j))
        /\ \A j \in Inst : Led(j) # Nil => Led(j)' # Nil
    <2> {} \in SUBSET Inst
      OBVIOUS
    <2> QED  BY <1>1, <1>2, <1>3, <1>4, ManagerStep
  <1>6. TypeOK'
    BY <1>1, <1>4, <1>5 DEF TypeOK
  <1>7. PhaseInv'
    BY <1>1, <1>4, <1>5 DEF PhaseInv
  <1>8. CopiesAgree'
    <2>1. \A q \in net' : CopyOf(q.inst, Led(q.id)') /\ (q.type = "Commit" => IsCommitted(q.inst))
      <3> TAKE q \in net'
      <3>1. q \in net /\ q.id \in Inst
        BY <1>1, <1>4 DEF TypeOK, Request
      <3> QED  BY <1>1, <1>5, <3>1 DEF CopiesAgree
    <2>2. \A a \in replies', j \in Inst : CopyOf(a.missing[j], Led(j)')
      <3> TAKE a \in replies', j \in Inst
      <3>1. CASE a \in replies
        BY <1>1, <1>5, <3>1 DEF CopiesAgree
      <3>2. CASE a \in Answers
        <4>1. manager'[r.to] = m
          BY <1>1, <1>2, <1>4 DEF TypeOK
        <4>2. CopyOf(Nil, Led(j)')
          BY DEF CopyOf, IsCommitted
        <4> QED  BY <1>2, <1>5, <3>2, <4>1, <4>2
      <3> QED  BY <1>4, <3>1, <3>2
    <2> QED  BY <1>5, <2>1, <2>2 DEF CopiesAgree
  <1>9. LogInv'
    BY <1>1, <1>2, <1>3, <1>4, LogKept
  <1>10. LearnsOnly
    <2>1. /\ \A n2 \in Node \ {r.to} : manager'[n2] = manager[n2]
          /\ manager'[r.to].executed = manager[r.to].executed
      BY <1>1, <1>2, <1>3, <1>4 DEF TypeOK
    <2>2. LearnStep(r.to, {})
      BY <1>5, <2>1 DEF LearnStep
    <2> QED  BY <1>2, <1>4, <2>2 DEF LearnsOnly
  <1> QED  BY <1>5, <1>6, <1>7, <1>8, <1>9, <1>10 DEF IInv

\* A step of a leader past its commit, that touches no replica
LEMMA LocalSteps ==
    ASSUME IInv, NEW i \in Inst, pc[i] \in {"execute", "apply"},
           NEW p \in {"execute", "apply", "done", "failed"},
           pc' = [pc EXCEPT ![i] = p],
           chain' \in [Inst -> Seq(Inst)], UNCHANGED <<manager, net, replies>>
    PROVE  IInv' /\ NobodyBack
  <1>1. TypeOK'
    BY DEF IInv, TypeOK, Phases
  <1>2. \A j \in Inst : Led(j)' = Led(j)
    BY DEF Led
  <1>3. PhaseInv'
    BY <1>2 DEF IInv, TypeOK, PhaseInv
  <1>4. CopiesAgree' /\ LogInv'
    BY DEF IInv, CopiesAgree, LogInv, Led
  <1>5. NobodyBack
    <2> SUFFICES ASSUME NEW n \in Node, NEW j \in Inst
                 PROVE  NeverBack(n, j)
      BY DEF NobodyBack
    <2>1. manager[n].instances[j] # Nil => manager[n].instances[j] \in Instance
      BY Rows DEF IInv
    <2> QED  BY <2>1 DEF NeverBack, Status, Deps, Instance
  <1> QED  BY <1>1, <1>3, <1>4, <1>5 DEF IInv
-----------------------------------------------------------------------------
\* Nothing but the row of i changes, to an uncommitted instance or by its ballot
LEMMA RowChange ==
    ASSUME IInv, NEW i \in Inst, NEW m, NEW x \in Instance,
           MayBecome(Leader[i], m, {}),
           m.executed = manager[Leader[i]].executed,
           \A j \in Inst : IsExecuted(m.instances[j])
                              <=> IsExecuted(manager[Leader[i]].instances[j]),
           m.instances[i] # Nil,
           x.status = m.instances[i].status, x.ballot >= m.instances[i].ballot,
           IsCommitted(x) => x.deps = m.instances[i].deps
    PROVE  LET n == [m EXCEPT !.instances[i] = x]
           IN  /\ MayBecome(Leader[i], n, {})
               /\ n.executed = manager[Leader[i]].executed
               /\ \A j \in Inst : IsExecuted(n.instances[j])
                                     <=> IsExecuted(manager[Leader[i]].instances[j])
               /\ n.instances[i] # Nil
  <1> DEFINE n == [m EXCEPT !.instances[i] = x]
  <1>1. m \in ManagerType /\ m.instances[i] \in Instance
    BY DEF MayBecome, ManagerType
  <1>2. /\ n \in ManagerType /\ n.executed = m.executed /\ n.instances[i] = x
        /\ \A j \in Inst \ {i} : n.instances[j] = m.instances[j]
    BY <1>1 DEF ManagerType
  <1>3. x # Nil
    BY NilAssumption
  <1>4. manager[Leader[i]].instances[i] # Nil => manager[Leader[i]].instances[i] \in Instance
    BY Rows, NodeAssumption DEF IInv
  <1>5. Advances(manager[Leader[i]].instances[i], x)
    BY <1>1, <1>3, <1>4 DEF MayBecome, Advances, Instance
  <1>6. CopyOf(x, Led(i)) /\ (IsExecuted(x) <=> IsExecuted(m.instances[i]))
    BY <1>3 DEF MayBecome, CopyOf, IsCommitted, IsExecuted
  <1> HIDE DEF n
  <1>7. MayBecome(Leader[i], n, {})
    BY <1>2, <1>5, <1>6 DEF MayBecome
  <1>8. \A j \in Inst : IsExecuted(n.instances[j])
                           <=> IsExecuted(manager[Leader[i]].instances[j])
    BY <1>2, <1>6
  <1> QED  BY <1>2, <1>3, <1>7, <1>8 DEF n

\* Doing nothing is a step a node may take
LEMMA StayPut ==
    ASSUME IInv, NEW n \in Node
    PROVE  MayBecome(n, manager[n], {})
  <1> SUFFICES ASSUME NEW i \in Inst
               PROVE  /\ Advances(manager[n].instances[i], manager[n].instances[i])
                      /\ CopyOf(manager[n].instances[i], Led(i))
    BY Rows DEF MayBecome, IInv, TypeOK
  <1>1. manager[n].instances[i] # Nil => manager[n].instances[i] \in Instance
    BY Rows DEF IInv
  <1> QED  BY <1>1 DEF Advances, Instance, IInv, CopiesAgree

\* The ballot of a rejection is taken over
LEMMA BallotStep ==
    ASSUME IInv, NEW i \in Inst, pc[i] \in {"preaccept", "accept"},
           NEW R \in SUBSET replies, NEW b \in BallotFrom(manager[Leader[i]], i, R)
    PROVE  LET n == [manager[Leader[i]] EXCEPT !.instances[i].ballot = b]
           IN  /\ MayBecome(Leader[i], n, {})
               /\ n.executed = manager[Leader[i]].executed
               /\ \A j \in Inst : IsExecuted(n.instances[j])
                                     <=> IsExecuted(manager[Leader[i]].instances[j])
               /\ n.instances[i] # Nil
  <1> DEFINE m == manager[Leader[i]]
             x == [m.instances[i] EXCEPT !.ballot = b]
  <1>1. TypeOK /\ PhaseInv /\ Leader[i] \in Node
    BY NodeAssumption DEF IInv
  <1>2. m \in ManagerType /\ m.instances[i] \in Instance /\ m.instances[i] # Nil
    BY <1>1, Rows DEF PhaseInv, Led
  <1>3. b \in Nat /\ b >= m.instances[i].ballot
    <2>1. m.instances[i].ballot \in Nat
      BY <1>2 DEF Instance
    <2>2. \A r \in R : r.ballot \in Nat
      BY <1>1 DEF TypeOK, Reply
    <2> QED  BY <2>1, <2>2 DEF BallotFrom
  <1>4. /\ x \in Instance /\ x.status = m.instances[i].status
        /\ x.ballot >= m.instances[i].ballot /\ x.deps = m.instances[i].deps
    BY <1>2, <1>3 DEF Instance
  <1>5. [manager[Leader[i]] EXCEPT !.instances[i].ballot = b] = [m EXCEPT !.instances[i] = x]
    OBVIOUS
  <1>6. MayBecome(Leader[i], m, {})
    BY <1>1, StayPut
  <1> HIDE DEF x
  <1>7. LET n == [m EXCEPT !.instances[i] = x]
        IN  /\ MayBecome(Leader[i], n, {})
            /\ n.executed = manager[Leader[i]].executed
            /\ \A j \in Inst : IsExecuted(n.instances[j])
                                  <=> IsExecuted(manager[Leader[i]].instances[j])
            /\ n.instances[i] # Nil
    BY <1>2, <1>4, <1>6, RowChange
  <1> QED  BY <1>5, <1>7

LEMMA StartPreAcceptStep ==
    ASSUME IInv, NEW i \in Inst, StartPreAccept(i)
    PROVE  IInv' /\ NobodyBack /\ LearnsOnly
  <1> DEFINE l == Leader[i]
             m == preAcceptInstance(manager[l], i, makeInstance, TRUE)
  <1>1. l \in Node /\ TypeOK /\ CopiesAgree /\ manager[l] \in ManagerType
    BY NodeAssumption DEF IInv, TypeOK
  <1>2. makeInstance \in Instance /\ CopyOf(makeInstance, Led(i))
    BY DEF makeInstance, Instance, CopyOf, IsCommitted
  <1>3. Learns(manager[l], m, i, makeInstance)
    BY <1>1, <1>2, PreAcceptLearns
  <1>4. /\ pc[i] = "idle"
        /\ manager' = [manager EXCEPT ![l] = m]
        /\ net' = net \cup Broadcast("PreAccept", i, m.instances[i], TRUE)
        /\ pc' = [pc EXCEPT ![i] = "preaccept"]
        /\ UNCHANGED <<replies, chain>>
    BY DEF StartPreAccept
  <1> HIDE DEF m
  <1>5. /\ MayBecome(l, m, {})
        /\ m.executed = manager[l].executed
        /\ \A j \in Inst : IsExecuted(m.instances[j]) <=> IsExecuted(manager[l].instances[j])
        /\ m.instances[i] # Nil
    BY <1>1, <1>2, <1>3, LearnsMayBecome
  <1>6. "preaccept" \in Phases /\ {} \in SUBSET {i} /\ {} # {i}
    BY DEF Phases
  <1> QED  BY <1>4, <1>5, <1>6, BroadcastSteps

LEMMA StartAcceptStep ==
    ASSUME IInv, NEW i \in Inst, StartAccept(i)
    PROVE  IInv' /\ NobodyBack /\ LearnsOnly
  <1> DEFINE l == Leader[i]
             x == manager[l].instances[i]
             m == acceptInstance(manager[l], i, x, TRUE)
  <1>1. l \in Node /\ TypeOK /\ CopiesAgree /\ PhaseInv /\ manager[l] \in ManagerType
    BY NodeAssumption DEF IInv, TypeOK
  <1>2. /\ pc[i] = "mustAccept"
        /\ manager' = [manager EXCEPT ![l] = m]
        /\ net' = net \cup Broadcast("Accept", i, m.instances[i], TRUE)
        /\ pc' = [pc EXCEPT ![i] = "accept"]
        /\ UNCHANGED <<replies, chain>>
    BY DEF StartAccept
  <1>3. x \in Instance /\ CopyOf(x, Led(i))
    BY <1>1, <1>2, Rows DEF PhaseInv, Led, CopiesAgree
  <1>4. Learns(manager[l], m, i, x)
    BY <1>1, <1>3, AcceptLearns
  <1> HIDE DEF m
  <1>5. /\ MayBecome(l, m, {})
        /\ m.executed = manager[l].executed
        /\ \A j \in Inst : IsExecuted(m.instances[j]) <=> IsExecuted(manager[l].instances[j])
        /\ m.instances[i] # Nil
    BY <1>1, <1>3, <1>4, LearnsMayBecome
  <1>6. "accept" \in Phases /\ {} \in SUBSET {i} /\ {} # {i}
    BY DEF Phases
  <1> QED  BY <1>2, <1>5, <1>6, BroadcastSteps

LEMMA LeaderCommitStep ==
    ASSUME IInv, NEW i \in Inst, LeaderCommit(i)
    PROVE  IInv' /\ NobodyBack /\ LearnsOnly
  <1> DEFINE l == Leader[i]
             x == manager[l].instances[i]
             c == [x EXCEPT !.status = INSTANCE_COMMITTED]
             m == commitInstance(manager[l], i, x, TRUE)
  <1>1. l \in Node /\ TypeOK /\ CopiesAgree /\ PhaseInv /\ manager[l] \in ManagerType
    BY NodeAssumption DEF IInv, TypeOK
  <1>2. /\ pc[i] = "mustCommit"
        /\ manager' = [manager EXCEPT ![l] = m]
        /\ net' = net \cup Broadcast("Commit", i, m.instances[i], FALSE)
        /\ pc' = [pc EXCEPT ![i] = "execute"]
        /\ UNCHANGED <<replies, chain>>
    BY DEF LeaderCommit
  <1>3. x \in Instance /\ ~IsCommitted(Led(i))
    BY <1>1, <1>2, Rows DEF PhaseInv, Led
  <1>4. Learns(manager[l], m, i, c) /\ IsCommitted(m.instances[i])
    BY <1>1, <1>3, CommitLearns
  <1> HIDE DEF m, c
  <1>5. /\ m \in ManagerType /\ m.executed = manager[l].executed
        /\ m.instances[i] \in Instance /\ m.instances[i] # Nil
        /\ Advances(x, m.instances[i])
        /\ IsExecuted(m.instances[i]) <=> IsExecuted(x)
    BY <1>4, NilAssumption DEF Learns, RowLearns, Advances
  <1>6. \A j \in Inst \ {i} :
          /\ m.instances[j] = manager[l].instances[j]
          /\ Advances(manager[l].instances[j], m.instances[j])
          /\ CopyOf(m.instances[j], Led(j))
    BY <1>1, <1>4, Rows DEF Learns, Advances, CopiesAgree, Instance
  <1>7. MayBecome(l, m, {i})
    BY <1>3, <1>5, <1>6 DEF MayBecome
  <1>8. \A j \in Inst : IsExecuted(m.instances[j]) <=> IsExecuted(manager[l].instances[j])
    BY <1>5, <1>6
  <1>9. "execute" \in Phases /\ {i} \in SUBSET {i} /\ {i} # {}
    BY DEF Phases
  <1> QED  BY <1>2, <1>4, <1>5, <1>6, <1>7, <1>8, <1>9, BroadcastSteps

LEMMA RejectedStep ==
    ASSUME IInv, NEW i \in Inst, PreAcceptRejected(i) \/ AcceptRejected(i)
    PROVE  IInv' /\ NobodyBack /\ LearnsOnly
  <1> DEFINE m(b) == [manager[Leader[i]] EXCEPT !.instances[i].ballot = b]
  <1>1. PICK R \in QuorumsOf(i) : \E b \in BallotFrom(manager[Leader[i]], i, R) :
            EndWait(i, "mustCommit", m(b))
    BY DEF PreAcceptRejected, AcceptRejected
  <1>2. PICK b \in BallotFrom(manager[Leader[i]], i, R) : EndWait(i, "mustCommit", m(b))
    BY <1>1
  <1>3. R \in SUBSET replies /\ pc[i] \in {"preaccept", "accept"}
    BY DEF QuorumsOf, RepliesTo, PreAcceptRejected, AcceptRejected
  <1>4. /\ MayBecome(Leader[i], m(b), {})
        /\ m(b).executed = manager[Leader[i]].executed
        /\ \A j \in Inst : IsExecuted(m(b).instances[j])
                              <=> IsExecuted(manager[Leader[i]].instances[j])
        /\ m(b).instances[i] # Nil
    BY <1>3, BallotStep
  <1> HIDE DEF m
  <1> QED  BY <1>2, <1>3, <1>4, EndWaitSteps

LEMMA GoOnStep ==
    ASSUME IInv, NEW i \in Inst, AcceptQuorum(i) \/ PhaseTimeout(i)
    PROVE  IInv' /\ NobodyBack /\ LearnsOnly
  <1>1. pc[i] \in {"preaccept", "accept"} /\ EndWait(i, "mustCommit", manager[Leader[i]])
    BY DEF AcceptQuorum, PhaseTimeout
  <1>2. Leader[i] \in Node /\ manager[Leader[i]].instances[i] # Nil
    BY <1>1, NodeAssumption DEF IInv, PhaseInv, Led
  <1> QED  BY <1>1, <1>2, StayPut, EndWaitSteps

LEMMA PreAcceptQuorumStep ==
    ASSUME IInv, NEW i \in Inst, PreAcceptQuorum(i)
    PROVE  IInv' /\ NobodyBack /\ LearnsOnly
  <1> DEFINE l == Leader[i]
             m(f) == addMissingInstances(manager[l], f)
             x(f) == m(f).instances[i]
             d(R) == {r.deps : r \in R}
             p(R, f) == IF mergeChanges(x(f), d(R)) THEN "mustAccept" ELSE "mustCommit"
             n(R, f) == [m(f) EXCEPT !.instances[i] = mergeAttributes(x(f), d(R))]
  <1>1. PICK R \in QuorumsOf(i) : \E f \in MissingFrom(R) : EndWait(i, p(R, f), n(R, f))
    BY DEF PreAcceptQuorum
  <1>2. PICK f \in MissingFrom(R) : EndWait(i, p(R, f), n(R, f))
    BY <1>1
  <1>3. R \in SUBSET replies /\ pc[i] = "preaccept"
    BY DEF QuorumsOf, RepliesTo, PreAcceptQuorum
  <1>4. /\ l \in Node /\ TypeOK /\ CopiesAgree /\ manager[l] \in ManagerType
        /\ manager[l].instances[i] # Nil /\ manager[l].instances[i] \in Instance
        /\ ~IsCommitted(manager[l].instances[i])
    BY <1>3, NodeAssumption, Rows DEF IInv, TypeOK, PhaseInv, Led
  <1>5. f \in [Inst -> Row] /\ \A j \in Inst : CopyOf(f[j], Led(j))
    <2>1. \A j \in Inst : f[j] = Nil \/ \E r \in R : f[j] = r.missing[j]
      BY DEF MissingFrom
    <2>2. \A r \in R, j \in Inst : r.missing[j] \in Row /\ CopyOf(r.missing[j], Led(j))
      BY <1>3, <1>4 DEF TypeOK, Reply, Row, CopiesAgree
    <2>3. \A j \in Inst : f[j] \in Row /\ CopyOf(f[j], Led(j))
      BY <2>1, <2>2 DEF Row, CopyOf, IsCommitted
    <2>4. f \in [Inst -> {Nil} \cup UNION {{r.missing[j] : j \in Inst} : r \in R}]
      BY DEF MissingFrom
    <2> QED  BY <2>3, <2>4
  <1>6. /\ m(f) \in ManagerType
        /\ m(f).executed = manager[l].executed
        /\ \A j \in Inst : \/ m(f).instances[j] = manager[l].instances[j]
                           \/ /\ manager[l].instances[j] = Nil /\ f[j] # Nil
                              /\ RowLearns(Nil, m(f).instances[j], f[j])
    BY <1>4, <1>5, AddMissing
  <1> HIDE DEF m
  <1>7. x(f) = manager[l].instances[i]
    BY <1>4, <1>6
  <1>8. MayBecome(l, m(f), {})
    <2> SUFFICES ASSUME NEW j \in Inst
                 PROVE  /\ Advances(manager[l].instances[j], m(f).instances[j])
                        /\ CopyOf(m(f).instances[j], Led(j))
      BY <1>6 DEF MayBecome
    <2>1. CASE m(f).instances[j] = manager[l].instances[j]
      BY <1>4, <2>1, Rows DEF Advances, Instance, CopiesAgree
    <2>2. CASE manager[l].instances[j] = Nil /\ RowLearns(Nil, m(f).instances[j], f[j])
      BY <1>5, <2>2 DEF RowLearns, Advances, CopyOf, IsCommitted
    <2> QED  BY <1>6, <2>1, <2>2
  <1>9. \A j \in Inst : IsExecuted(m(f).instances[j]) <=> IsExecuted(manager[l].instances[j])
    BY <1>6 DEF RowLearns
  <1>10. \A r \in R : r.deps \in SUBSET Inst
    BY <1>3, <1>4 DEF TypeOK, Reply
  <1>11. LET z == mergeAttributes(x(f), d(R))
         IN  z \in Instance /\ z.status = x(f).status /\ z.ballot >= x(f).ballot
             /\ (IsCommitted(z) => z.deps = x(f).deps)
    <2>1. CASE x(f).status # INSTANCE_PREACCEPTED
      BY <1>4, <1>7, <2>1 DEF mergeAttributes, Instance
    <2>2. CASE x(f).status = INSTANCE_PREACCEPTED
      <3>1. UNION d(R) \in SUBSET Inst
        BY <1>10
      <3>2. mergeAttributes(x(f), d(R)) = [x(f) EXCEPT !.deps = @ \cup UNION d(R)]
        BY <2>2 DEF mergeAttributes
      <3> HIDE DEF x, d
      <3> QED  BY <1>4, <1>7, <2>2, <3>1, <3>2 DEF IsCommitted, Instance
    <2> QED  BY <2>1, <2>2
  <1>12. /\ MayBecome(l, n(R, f), {})
         /\ n(R, f).executed = manager[l].executed
         /\ \A j \in Inst : IsExecuted(n(R, f).instances[j])
                              <=> IsExecuted(manager[l].instances[j])
         /\ n(R, f).instances[i] # Nil
    <2> DEFINE z == mergeAttributes(x(f), d(R))
    <2>1. /\ z \in Instance /\ z.status = m(f).instances[i].status
          /\ z.ballot >= m(f).instances[i].ballot
          /\ IsCommitted(z) => z.deps = m(f).instances[i].deps
          /\ m(f).instances[i] # Nil
      BY <1>4, <1>7, <1>11
    <2> HIDE DEF z
    <2>2. n(R, f) = [m(f) EXCEPT !.instances[i] = z]
      BY DEF z
    <2> HIDE DEF n
    <2> QED  BY <1>6, <1>8, <1>9, <2>1, <2>2, RowChange
  <1>13. p(R, f) \in {"mustAccept", "mustCommit"}
    OBVIOUS
  <1> HIDE DEF n, p
  <1> QED  BY <1>2, <1>3, <1>12, <1>13, EndWaitSteps

\* Refusing a request changes nothing
LEMMA RefuseLearns ==
    ASSUME TypeOK, NEW r \in net, Stale(r)
    PROVE  Learns(manager[r.to], manager[r.to], r.id, r.inst)
  <1>1. r.to \in Node /\ r.id \in Inst
    BY DEF TypeOK, Request
  <1>2. manager[r.to] \in ManagerType /\ manager[r.to].instances[r.id] \in Instance
    BY <1>1, Rows DEF Stale
  <1> QED  BY <1>2 DEF Learns, RowLearns, IsCommitted, IsExecuted, Instance

LEMMA HandlePreAcceptStep ==
    ASSUME IInv, NEW r \in net, HandlePreAccept(r)
    PROVE  IInv' /\ NobodyBack /\ LearnsOnly
  <1> DEFINE old == manager[r.to].instances[r.id]
             m == preAcceptInstance(manager[r.to], r.id, r.inst, FALSE)
             x == m.instances[r.id]
             refuse == {[id |-> r.id, from |-> r.to, accepted |-> FALSE,
                         ballot |-> old.ballot, deps |-> old.deps, missing |-> NoMissing]}
             missing == [j \in Inst |-> IF j \in x.deps \ r.inst.deps
                                        THEN m.instances[j] ELSE Nil]
             agree == {[id |-> r.id, from |-> r.to, accepted |-> TRUE,
                        ballot |-> x.ballot, deps |-> x.deps, missing |-> missing]}
  <1>1. TypeOK /\ CopiesAgree
    BY DEF IInv
  <1>2. r.to \in Node /\ r.id \in Inst /\ r.inst \in Instance /\ CopyOf(r.inst, Led(r.id))
    BY <1>1 DEF TypeOK, Request, CopiesAgree
  <1>3. manager[r.to] \in ManagerType
    BY <1>1, <1>2, Rows
  <1>4. CASE Stale(r) /\ Handled(r, manager[r.to], refuse)
    <2>1. old \in Instance
      BY <1>1, <1>2, <1>4, Rows DEF Stale
    <2>2. NoMissing \in [Inst -> Instance \cup {Nil}] /\ \A j \in Inst : NoMissing[j] = Nil
      BY DEF NoMissing
    <2>3. refuse \subseteq Reply
      BY <1>2, <2>1, <2>2 DEF Reply, Instance
    <2>4. \A a \in refuse, j \in Inst : a.missing[j] \in {Nil, manager[r.to].instances[j]}
      BY <2>2
    <2>5. Learns(manager[r.to], manager[r.to], r.id, r.inst)
      BY <1>1, <1>4, RefuseLearns
    <2> HIDE DEF refuse
    <2> QED  BY <1>2, <1>4, <2>3, <2>4, <2>5, HandledSteps
  <1>5. CASE Handled(r, m, agree)
    <2>1. Learns(manager[r.to], m, r.id, r.inst)
      BY <1>2, <1>3, PreAcceptLearns
    <2> HIDE DEF m
    <2>2. m \in ManagerType /\ x \in Instance
      BY <2>1 DEF Learns, RowLearns
    <2>3. missing \in [Inst -> Instance \cup {Nil}]
          /\ \A j \in Inst : missing[j] \in {Nil, m.instances[j]}
      BY <2>2 DEF ManagerType
    <2> HIDE DEF missing
    <2>4. agree \subseteq Reply
      BY <1>2, <2>2, <2>3 DEF Reply, Instance
    <2>5. \A a \in agree, j \in Inst : a.missing[j] \in {Nil, m.instances[j]}
      BY <2>3
    <2> HIDE DEF agree
    <2> QED  BY <1>2, <1>5, <2>1, <2>4, <2>5, HandledSteps
  <1> QED  BY <1>4, <1>5 DEF HandlePreAccept

LEMMA HandleAcceptStep ==
    ASSUME IInv, NEW r \in net, HandleAccept(r)
    PROVE  IInv' /\ NobodyBack /\ LearnsOnly
  <1> DEFINE m == acceptInstance(manager[r.to], r.id, r.inst, FALSE)
             answer(a, b) == {[id |-> r.id, from |-> r.to, accepted |-> a,
                               ballot |-> b, deps |-> {}, missing |-> NoMissing]}
             b0 == manager[r.to].instances[r.id].ballot
  <1>1. TypeOK /\ CopiesAgree
    BY DEF IInv
  <1>2. r.to \in Node /\ r.id \in Inst /\ r.inst \in Instance /\ CopyOf(r.inst, Led(r.id))
    BY <1>1 DEF TypeOK, Request, CopiesAgree
  <1>3. manager[r.to] \in ManagerType
    BY <1>1, <1>2, Rows
  <1>4. NoMissing \in [Inst -> Instance \cup {Nil}] /\ \A j \in Inst : NoMissing[j] = Nil
    BY DEF NoMissing
  <1>5. \A a \in BOOLEAN, b \in Nat :
          /\ answer(a, b) \subseteq Reply
          /\ \A q \in answer(a, b), j \in Inst : q.missing[j] = Nil
    BY <1>2, <1>4 DEF Reply
  <1> HIDE DEF answer
  <1>6. CASE Stale(r) /\ Handled(r, manager[r.to], answer(FALSE, b0))
    <2>1. b0 \in Nat
      BY <1>1, <1>2, <1>6, Rows DEF Stale, Instance
    <2>2. Learns(manager[r.to], manager[r.to], r.id, r.inst)
      BY <1>1, <1>6, RefuseLearns
    <2>3. /\ answer(FALSE, b0) \subseteq Reply
          /\ \A q \in answer(FALSE, b0), j \in Inst : q.missing[j] \in {Nil, manager[r.to].instances[j]}
      BY <1>5, <2>1
    <2> QED  BY <1>2, <1>6, <2>2, <2>3, HandledSteps
  <1>7. CASE Handled(r, m, answer(TRUE, 0))
    <2>1. Learns(manager[r.to], m, r.id, r.inst)
      BY <1>2, <1>3, AcceptLearns
    <2> HIDE DEF m
    <2>2. /\ answer(TRUE, 0) \subseteq Reply
          /\ \A q \in answer(TRUE, 0), j \in Inst : q.missing[j] \in {Nil, m.instances[j]}
      BY <1>5
    <2> QED  BY <1>2, <1>7, <2>1, <2>2, HandledSteps
  <1> QED  BY <1>6, <1>7 DEF HandleAccept, answer

LEMMA HandleCommitStep ==
    ASSUME IInv, NEW r \in net, HandleCommit(r)
    PROVE  IInv' /\ NobodyBack /\ LearnsOnly
  <1> DEFINE m == commitInstance(manager[r.to], r.id, r.inst, FALSE)
             c == [r.inst EXCEPT !.status = INSTANCE_COMMITTED]
  <1>1. TypeOK /\ CopiesAgree
    BY DEF IInv
  <1>2. /\ r.to \in Node /\ r.id \in Inst /\ r.inst \in Instance
        /\ CopyOf(r.inst, Led(r.id)) /\ IsCommitted(r.inst)
    BY <1>1 DEF TypeOK, Request, CopiesAgree, HandleCommit
  <1>3. manager[r.to] \in ManagerType
    BY <1>1, <1>2, Rows
  <1>4. Learns(manager[r.to], m, r.id, c)
    BY <1>2, <1>3, CommitLearns
  <1>5. CopyOf(c, Led(r.id))
    BY <1>2 DEF CopyOf, Instance
  <1> DEFINE none == {}
  <1>6. Handled(r, m, none)
    BY DEF HandleCommit
  <1> HIDE DEF m, c
  <1>7. none \subseteq Reply /\ \A a \in none, j \in Inst : a.missing[j] \in {Nil, m.instances[j]}
    OBVIOUS
  <1> HIDE DEF none
  <1> QED  BY <1>4, <1>5, <1>6, <1>7, HandledSteps

LEMMA StartExecutionStep ==
    ASSUME IInv, NEW i \in Inst, StartExecution(i)
    PROVE  IInv' /\ NobodyBack
  <1> DEFINE m == manager[Leader[i]]
             G == ExecutionGraph(m, i)
  <1>1. PICK s \in ExecutionOrders(m, G) : chain' = [chain EXCEPT ![i] = s]
    BY DEF StartExecution
  <1>2. IsFiniteSet(G) /\ G \subseteq Inst
    BY InstAssumption, FS_Subset DEF ExecutionGraph
  <1>3. Cardinality(G) \in Nat
    BY <1>2, FS_CardinalityType
  <1> HIDE DEF G, m
  <1>4. s \in Seq(Inst)
    BY <1>2, <1>3 DEF ExecutionOrders
  <1>5. chain' \in [Inst -> Seq(Inst)]
    BY <1>1, <1>4 DEF IInv, TypeOK
  <1>6. /\ pc[i] = "execute" /\ pc' = [pc EXCEPT ![i] = "apply"]
        /\ UNCHANGED <<manager, net, replies>>
    BY DEF StartExecution
  <1> QED  BY <1>5, <1>6, LocalSteps

LEMMA ApplyNextStep ==
    ASSUME IInv, NEW i \in Inst, ApplyNext(i)
    PROVE  IInv' /\ NobodyBack
  <1> DEFINE l == Leader[i]
             j == Head(chain[i])
             rest == Tail(chain[i])
  <1>1. TypeOK /\ PhaseInv /\ CopiesAgree /\ LogInv /\ l \in Node
    BY NodeAssumption DEF IInv
  <1>2. chain[i] \in Seq(Inst) /\ chain[i] # <<>> /\ pc[i] = "apply" /\ UNCHANGED <<net, replies>>
    BY <1>1 DEF ApplyNext, TypeOK
  <1>3. j \in Inst /\ rest \in Seq(Inst) /\ <<>> \in Seq(Inst)
    BY <1>2
  <1> HIDE DEF j, rest
  <1>4. CASE /\ Status(l, j) = INSTANCE_COMMITTED
             /\ manager' = [manager EXCEPT ![l] = applyInstance(@, j)]
             /\ chain' = [chain EXCEPT ![i] = IF j = i THEN <<>> ELSE rest]
             /\ UNCHANGED pc
    <2> DEFINE m == applyInstance(manager[l], j)
    <2>1. manager[l] \in ManagerType /\ manager[l].instances[j] \in Row
      BY <1>1, <1>3, Rows
    <2>2. IsCommitted(manager[l].instances[j]) /\ manager[l].instances[j].status = INSTANCE_COMMITTED
      BY <1>4 DEF Status, IsCommitted
    <2>3. /\ m \in ManagerType
          /\ m.executed = Append(manager[l].executed, j)
          /\ \A k \in Inst \ {j} : m.instances[k] = manager[l].instances[k]
          /\ m.instances[j] \in Instance
          /\ m.instances[j].status = INSTANCE_EXECUTED
          /\ m.instances[j].ballot = manager[l].instances[j].ballot
          /\ m.instances[j].deps = manager[l].instances[j].deps
      BY <1>3, <2>1, <2>2, Apply
    <2>4. manager' = [manager EXCEPT ![l] = m]
      BY <1>4
    <2> HIDE DEF m
    <2>5. m.instances[j] # Nil
      BY <2>3, NilAssumption
    <2>6. MayBecome(l, m, {})
      <3> SUFFICES ASSUME NEW k \in Inst
                   PROVE  /\ Advances(manager[l].instances[k], m.instances[k])
                          /\ CopyOf(m.instances[k], Led(k))
        BY <2>3 DEF MayBecome
      <3>1. CASE k = j
        BY <1>1, <2>2, <2>3, <2>5, <3>1 DEF Advances, CopyOf, IsCommitted, CopiesAgree, Instance
      <3>2. CASE k # j
        BY <1>1, <2>3, <3>2, Rows DEF Advances, CopiesAgree, Instance
      <3> QED  BY <3>1, <3>2
    <2>7. /\ manager' \in [Node -> ManagerType]
          /\ NobodyBack
          /\ \A k \in Inst : \A y : CopyOf(y, Led(k)) => CopyOf(y, Led(k)')
          /\ \A n2 \in Node, k \in Inst : CopyOf(manager'[n2].instances[k], Led(k)')
          /\ \A k \in Inst \ {} : IsCommitted(Led(k)') => IsCommitted(Led(k))
          /\ \A k \in Inst : Led(k) # Nil => Led(k)' # Nil
      <3> {} \in SUBSET Inst
        OBVIOUS
      <3> QED  BY <1>1, <2>4, <2>6, ManagerStep
    <2>8. TypeOK'
      BY <1>1, <1>2, <1>3, <1>4, <2>7 DEF TypeOK
    <2>9. PhaseInv'
      BY <1>1, <1>4, <2>7 DEF PhaseInv
    <2>10. CopiesAgree'
      <3>1. \A r \in net : r.id \in Inst
        BY <1>1 DEF TypeOK, Request
      <3> QED  BY <1>1, <1>2, <2>7, <3>1 DEF CopiesAgree
    <2>11. LogOf(m)
      <3> DEFINE log == manager[l].executed
      <3>1. log \in Seq(Inst) /\ LogOf(manager[l])
        BY <1>1, <2>1 DEF ManagerType, LogInv
      <3>2. ~IsExecuted(manager[l].instances[j])
        BY <2>2 DEF IsExecuted
      <3>3. \A k \in DOMAIN log : log[k] # j
        BY <1>3, <3>1, <3>2 DEF LogOf
      <3>4. /\ DOMAIN m.executed = 1..(Len(log) + 1) /\ DOMAIN log = 1..Len(log)
            /\ \A k \in 1..Len(log) : m.executed[k] = log[k]
            /\ m.executed[Len(log) + 1] = j
            /\ Len(log) \in Nat
        BY <1>3, <2>3, <3>1
      <3> HIDE DEF log
      <3>5. \A k, k2 \in DOMAIN m.executed : m.executed[k] = m.executed[k2] => k = k2
        <4>1. \A k, k2 \in DOMAIN log : log[k] = log[k2] => k = k2
          BY <3>1 DEF LogOf, log
        <4> QED  BY <3>3, <3>4, <4>1
      <3>6. \A h \in Inst : (\E k \in DOMAIN m.executed : m.executed[k] = h)
                               <=> (h = j \/ \E k \in DOMAIN log : log[k] = h)
        BY <3>4
      <3>7. \A h \in Inst : (\E k \in DOMAIN log : log[k] = h)
                               <=> IsExecuted(manager[l].instances[h])
        BY <3>1 DEF LogOf, log
      <3>8. IsExecuted(m.instances[j])
        BY <2>3, <2>5 DEF IsExecuted
      <3> QED  BY <2>3, <3>5, <3>6, <3>7, <3>8 DEF LogOf
    <2>12. LogInv'
      <3>1. \A n2 \in Node : LogOf(manager'[n2])
        BY <1>1, <2>4, <2>11 DEF TypeOK, LogInv
      <3> QED  BY <3>1 DEF LogInv
    <2> QED  BY <2>7, <2>8, <2>9, <2>10, <2>12 DEF IInv
  <1>5. CASE pc' = [pc EXCEPT ![i] = "failed"] /\ UNCHANGED <<manager, chain>>
    BY <1>1, <1>2, <1>5, LocalSteps DEF TypeOK
  <1>6. CASE chain' = [chain EXCEPT ![i] = rest] /\ UNCHANGED <<manager, pc>>
    <2>1. pc' = [pc EXCEPT ![i] = "apply"] /\ chain' \in [Inst -> Seq(Inst)]
      BY <1>1, <1>2, <1>3, <1>6 DEF TypeOK
    <2> QED  BY <1>2, <1>6, <2>1, LocalSteps
  <1> QED  BY <1>4, <1>5, <1>6 DEF ApplyNext, j, rest

LEMMA InitInv == Init => IInv
  <1> SUFFICES ASSUME Init PROVE IInv
    OBVIOUS
  <1>1. NewManager \in ManagerType
    BY DEF NewManager, ManagerType, newDependencies, DependenciesType
  <1>2. \A n \in Node : manager[n] = NewManager
    BY DEF Init
  <1>3. \A n \in Node, i \in Inst : manager[n].instances[i] = Nil
    BY <1>2 DEF NewManager
  <1>4. TypeOK
    BY <1>1 DEF Init, TypeOK, Phases
  <1>5. PhaseInv
    BY <1>3, NodeAssumption DEF Init, PhaseInv, Led, IsCommitted
  <1>6. CopiesAgree
    BY <1>3 DEF Init, CopiesAgree, CopyOf, IsCommitted
  <1>7. LogInv
    BY <1>2, <1>3 DEF LogInv, LogOf, NewManager, IsExecuted
  <1> QED  BY <1>4, <1>5, <1>6, <1>7 DEF IInv

LEMMA StutterStep ==
    ASSUME IInv, UNCHANGED vars
    PROVE  IInv' /\ NobodyBack
  <1>1. IInv'
    BY DEF vars, IInv, TypeOK, PhaseInv, CopiesAgree, LogInv, Led
  <1>2. NobodyBack
    <2> SUFFICES ASSUME NEW n \in Node, NEW j \in Inst
                 PROVE  NeverBack(n, j)
      BY DEF NobodyBack
    <2>1. manager[n].instances[j] # Nil => manager[n].instances[j] \in Instance
      BY Rows DEF IInv
    <2> QED  BY <2>1 DEF NeverBack, Status, Deps, Instance, vars
  <1> QED  BY <1>1, <1>2

LEMMA NextInv ==
    ASSUME IInv, [Next]_vars
    PROVE  IInv' /\ NobodyBack
  <1>1. ASSUME NEW i \in Inst, Lead(i) \/ PhaseTimeout(i)
        PROVE  IInv' /\ NobodyBack
    <2>1. CASE UnknownDependency(i) \/ FinishExecution(i)
      BY <2>1, LocalSteps DEF UnknownDependency, FinishExecution, IInv, TypeOK
    <2> QED  BY <1>1, <2>1, StartPreAcceptStep, RejectedStep, PreAcceptQuorumStep,
                StartAcceptStep, GoOnStep, LeaderCommitStep, StartExecutionStep,
                ApplyNextStep DEF Lead
  <1>2. ASSUME NEW r \in net, Handle(r)
        PROVE  IInv' /\ NobodyBack
    BY <1>2, HandlePreAcceptStep, HandleAcceptStep, HandleCommitStep DEF Handle
  <1>3. CASE UNCHANGED vars
    BY <1>3, StutterStep
  <1> QED  BY <1>1, <1>2, <1>3 DEF Next, Terminated

(***************************************************************************)
(* The inductive invariant: every committed copy anywhere is a copy of the *)
(* instance its leader committed, and every log holds what is executed.    *)
(***************************************************************************)
THEOREM Invariance == Spec => []IInv
  BY InitInv, NextInv, PTL DEF Spec

(***************************************************************************)
(* Every value the managers, the network and the leaders hold has its type *)
(* (the structs of consensus/manager.go, instance.go and message.go).      *)
(***************************************************************************)
THEOREM TypeCorrect == Spec => []TypeOK
  <1>1. IInv => TypeOK
    BY DEF IInv
  <1> QED  BY Invariance, <1>1, PTL

(***************************************************************************)
(* All replicas that commit an instance commit it with the same            *)
(* dependencies, whatever the quorum size, the order of the messages, the  *)
(* timeouts and the rejections (commitInstance, commitPhase): without      *)
(* explicit prepare only the leader decides them.                          *)
(***************************************************************************)
THEOREM CommittedAgreement == Spec => []CommittedAgree
  <1>1. IInv => CommittedAgree
    BY Rows DEF IInv, CommittedAgree, CopiesAgree, CopyOf, Deps
  <1> QED  BY Invariance, <1>1, PTL

(***************************************************************************)
(* At no replica does an instance lose status, ballot or, once committed,  *)
(* its dependencies (getOrSetInstance, preaccept, accept, commit).         *)
(***************************************************************************)
THEOREM NothingTakenBack == Spec => ReplicaNeverBack
  <1>1. IInv /\ [Next]_vars => [\A n \in Node, i \in Inst : NeverBack(n, i)]_vars
    BY NextInv DEF NobodyBack
  <1> QED  BY Invariance, <1>1, PTL DEF Spec, ReplicaNeverBack

(***************************************************************************)
(* A node executes an instance at most once, and exactly if its status     *)
(* says so, however many goroutines of the node have it in their chains    *)
(* (applyInstance, executeDependencyChain).                                *)
(***************************************************************************)
THEOREM ExecutedAtMostOnce == Spec => []ExecutedOnce
  <1>1. ASSUME IInv PROVE ExecutedOnce
    <2> SUFFICES ASSUME NEW n \in Node, NEW i \in Inst
                 PROVE  Cardinality({k \in DOMAIN manager[n].executed : manager[n].executed[k] = i})
                            = IF Status(n, i) = INSTANCE_EXECUTED THEN 1 ELSE 0
      BY DEF ExecutedOnce
    <2> DEFINE log == manager[n].executed
               At == {k \in DOMAIN log : log[k] = i}
    <2>1. LogOf(manager[n]) /\ (Status(n, i) = INSTANCE_EXECUTED <=> IsExecuted(manager[n].instances[i]))
      BY <1>1 DEF IInv, LogInv, Status, IsExecuted
    <2>2. CASE \E k \in DOMAIN log : log[k] = i
      <3>1. PICK k \in DOMAIN log : log[k] = i
        BY <2>2
      <3>2. At = {k}
        BY <2>1, <3>1 DEF LogOf
      <3> QED  BY <2>1, <2>2, <3>2, FS_Singleton DEF LogOf
    <2>3. CASE ~\E k \in DOMAIN log : log[k] = i
      <3>1. At = {}
        BY <2>3
      <3> QED  BY <2>1, <2>3, <3>1, FS_EmptySet DEF LogOf
    <2> QED  BY <2>2, <2>3
  <1> QED  BY Invariance, <1>1, PTL
-----------------------------------------------------------------------------
(***************************************************************************)
(* Part 2: the consensus implements Agreement.  What leaders commit is     *)
(* decided once, and what a goroutine executes from the chain it computed  *)
(* earlier is what the decided graph allows at that moment.                *)
(***************************************************************************)
\* j is reached from i in the graph D
ReachIn(D, i, j) ==
    \A S \in SUBSET Inst : (i \in S /\ \A k \in S : D[k] \subseteq S) => j \in S

PrecedesIn(D, j, i) ==
    /\ j # i
    /\ ReachIn(D, i, j)
    /\ ReachIn(D, j, i) => j < i

\* The sequence s can be executed from its head by a node that has the instances in
\* C committed and those in E executed
OrderedAfter(D, C, E, s) ==
    \A p \in DOMAIN s :
        /\ \A k \in Inst : ReachIn(D, s[p], k) => k \in C
        /\ \A k \in Inst : PrecedesIn(D, k, s[p]) => \/ k \in E
                                                     \/ \E q \in DOMAIN s : q < p /\ s[q] = k

Graphs == [Inst -> SUBSET Inst]
-----------------------------------------------------------------------------
LEMMA ReachReflexive ==
    ASSUME NEW D \in Graphs, NEW i \in Inst
    PROVE  ReachIn(D, i, i)
  BY DEF ReachIn

LEMMA ReachTransitive ==
    ASSUME NEW D \in Graphs, NEW i \in Inst, NEW j \in Inst, NEW k \in Inst,
           ReachIn(D, i, j), ReachIn(D, j, k)
    PROVE  ReachIn(D, i, k)
  BY DEF ReachIn

\* What is reached from i is closed under the graph
LEMMA ReachClosed ==
    ASSUME NEW D \in Graphs, NEW i \in Inst
    PROVE  \A k \in {j \in Inst : ReachIn(D, i, j)} : D[k] \subseteq {j \in Inst : ReachIn(D, i, j)}
  <1> SUFFICES ASSUME NEW k \in Inst, ReachIn(D, i, k), NEW j \in D[k]
               PROVE  j \in Inst /\ ReachIn(D, i, j)
    OBVIOUS
  <1>1. j \in Inst
    BY DEF Graphs
  <1>2. ASSUME NEW S \in SUBSET Inst, i \in S, \A h \in S : D[h] \subseteq S
        PROVE  j \in S
    <2>1. k \in S
      BY <1>2 DEF ReachIn
    <2> QED  BY <1>2, <2>1
  <1> QED  BY <1>1, <1>2 DEF ReachIn

\* Graphs that agree on a closed set have the same paths in it
LEMMA SamePaths ==
    ASSUME NEW D \in Graphs, NEW F \in Graphs, NEW G \in SUBSET Inst,
           \A k \in G : D[k] \subseteq G /\ F[k] = D[k],
           NEW i \in G, NEW j \in Inst
    PROVE  /\ ReachIn(D, i, j) <=> ReachIn(F, i, j)
           /\ ReachIn(D, i, j) => j \in G
  <1>1. ASSUME NEW A \in Graphs, NEW B \in Graphs,
               \A k \in G : A[k] \subseteq G /\ B[k] = A[k], ReachIn(A, i, j)
        PROVE  ReachIn(B, i, j)
    <2> SUFFICES ASSUME NEW S \in SUBSET Inst, i \in S, \A k \in S : B[k] \subseteq S
                 PROVE  j \in S
      BY DEF ReachIn
    <2> DEFINE T == S \cap G
    <2>1. T \in SUBSET Inst /\ i \in T /\ \A k \in T : A[k] \subseteq T
      BY <1>1
    <2>2. j \in T
      BY <1>1, <2>1 DEF ReachIn
    <2> QED  BY <2>2
  <1>2. ReachIn(D, i, j) => ReachIn(F, i, j)
    BY <1>1
  <1>3. ReachIn(F, i, j) => ReachIn(D, i, j)
    <2>1. \A k \in G : F[k] \subseteq G /\ D[k] = F[k]
      OBVIOUS
    <2> QED  BY <1>1, <2>1
  <1>4. ReachIn(D, i, j) => j \in G
    BY DEF ReachIn
  <1> QED  BY <1>2, <1>3, <1>4

\* Instances whose whole graph is decided keep their place when more is decided
LEMMA GraphGrows ==
    ASSUME NEW D \in Graphs, NEW F \in Graphs, NEW C \in SUBSET Inst,
           \A k \in C : F[k] = D[k],
           NEW i \in Inst, \A k \in Inst : ReachIn(D, i, k) => k \in C
    PROVE  \A j \in Inst : /\ ReachIn(F, i, j) <=> ReachIn(D, i, j)
                           /\ PrecedesIn(F, j, i) <=> PrecedesIn(D, j, i)
  <1> DEFINE G == {k \in Inst : ReachIn(D, i, k)}
  <1>1. G \in SUBSET Inst /\ i \in G
    BY ReachReflexive
  <1>2. \A k \in G : D[k] \subseteq G /\ F[k] = D[k]
    BY ReachClosed
  <1> HIDE DEF G
  <1>3. \A k \in G, j \in Inst : /\ ReachIn(D, k, j) <=> ReachIn(F, k, j)
                                 /\ ReachIn(D, k, j) => j \in G
    BY <1>1, <1>2, SamePaths
  <1>4. ASSUME NEW j \in Inst
        PROVE  PrecedesIn(F, j, i) <=> PrecedesIn(D, j, i)
    <2>1. ReachIn(D, i, j) <=> ReachIn(F, i, j)
      BY <1>1, <1>3
    <2>2. ReachIn(D, i, j) => (ReachIn(D, j, i) <=> ReachIn(F, j, i))
      BY <1>1, <1>3
    <2> QED  BY <2>1, <2>2 DEF PrecedesIn
  <1> QED  BY <1>1, <1>3, <1>4

LEMMA OrderKept ==
    ASSUME NEW D \in Graphs, NEW F \in Graphs, NEW C \in SUBSET Inst, NEW B \in SUBSET Inst,
           \A k \in C : F[k] = D[k], C \subseteq B,
           NEW E \in SUBSET Inst, NEW H \in SUBSET Inst, E \subseteq H,
           NEW s \in Seq(Inst), OrderedAfter(D, C, E, s)
    PROVE  OrderedAfter(F, B, H, s)
  <1> SUFFICES ASSUME NEW p \in DOMAIN s
               PROVE  /\ \A k \in Inst : ReachIn(F, s[p], k) => k \in B
                      /\ \A k \in Inst : PrecedesIn(F, k, s[p]) =>
                            k \in H \/ \E q \in DOMAIN s : q < p /\ s[q] = k
    BY DEF OrderedAfter
  <1>1. s[p] \in Inst
    OBVIOUS
  <1>2. /\ \A k \in Inst : ReachIn(D, s[p], k) => k \in C
        /\ \A k \in Inst : PrecedesIn(D, k, s[p]) => k \in E \/ \E q \in DOMAIN s : q < p /\ s[q] = k
    BY DEF OrderedAfter
  <1>3. \A k \in Inst : /\ ReachIn(F, s[p], k) <=> ReachIn(D, s[p], k)
                        /\ PrecedesIn(F, k, s[p]) <=> PrecedesIn(D, k, s[p])
    BY <1>1, <1>2, GraphGrows
  <1> QED  BY <1>2, <1>3

\* Once its head is executed the rest of a chain is in order
LEMMA OrderTail ==
    ASSUME NEW D \in Graphs, NEW C \in SUBSET Inst, NEW E \in SUBSET Inst,
           NEW s \in Seq(Inst), s # <<>>, Head(s) \in E, OrderedAfter(D, C, E, s)
    PROVE  OrderedAfter(D, C, E, Tail(s))
  <1> DEFINE t == Tail(s)
  <1>1. /\ Len(s) \in Nat \ {0} /\ DOMAIN s = 1..Len(s) /\ Head(s) = s[1]
        /\ DOMAIN t = 1..(Len(s) - 1)
        /\ \A p \in 1..(Len(s) - 1) : t[p] = s[p + 1]
    OBVIOUS
  <1> HIDE DEF t
  <1>2. ASSUME NEW p \in DOMAIN t
        PROVE  /\ \A k \in Inst : ReachIn(D, t[p], k) => k \in C
               /\ \A k \in Inst : PrecedesIn(D, k, t[p]) =>
                     k \in E \/ \E q \in DOMAIN t : q < p /\ t[q] = k
    <2>1. p + 1 \in DOMAIN s /\ t[p] = s[p + 1]
      BY <1>1
    <2>2. /\ \A k \in Inst : ReachIn(D, t[p], k) => k \in C
          /\ \A k \in Inst : PrecedesIn(D, k, t[p]) =>
                k \in E \/ \E q \in DOMAIN s : q < p + 1 /\ s[q] = k
      BY <2>1 DEF OrderedAfter
    <2>3. ASSUME NEW k \in Inst, k \notin E, NEW q \in DOMAIN s, q < p + 1, s[q] = k
          PROVE  \E r \in DOMAIN t : r < p /\ t[r] = k
      <3>1. q # 1
        BY <1>1, <2>3
      <3>2. q - 1 \in DOMAIN t /\ q - 1 < p /\ t[q - 1] = k
        BY <1>1, <2>3, <3>1
      <3> QED  BY <3>2
    <2> QED  BY <2>2, <2>3
  <1> QED  BY <1>2 DEF OrderedAfter, t

\* A log stays in order when an instance that may go next is appended to it
LEMMA OrderAppend ==
    ASSUME NEW D \in Graphs, NEW C \in SUBSET Inst, NEW s \in Seq(Inst), NEW j \in Inst,
           OrderedAfter(D, C, {}, s),
           \A k \in Inst : ReachIn(D, j, k) => k \in C,
           \A k \in Inst : PrecedesIn(D, k, j) => \E q \in DOMAIN s : s[q] = k
    PROVE  OrderedAfter(D, C, {}, Append(s, j))
  <1> DEFINE t == Append(s, j)
  <1>1. /\ Len(s) \in Nat /\ DOMAIN s = 1..Len(s) /\ DOMAIN t = 1..(Len(s) + 1)
        /\ \A p \in 1..Len(s) : t[p] = s[p]
        /\ t[Len(s) + 1] = j
    OBVIOUS
  <1> HIDE DEF t
  <1>2. ASSUME NEW p \in DOMAIN t
        PROVE  /\ \A k \in Inst : ReachIn(D, t[p], k) => k \in C
               /\ \A k \in Inst : PrecedesIn(D, k, t[p]) => \E q \in DOMAIN t : q < p /\ t[q] = k
    <2>1. CASE p = Len(s) + 1
      BY <1>1, <2>1
    <2>2. CASE p \in DOMAIN s
      <3>1. /\ \A k \in Inst : ReachIn(D, s[p], k) => k \in C
            /\ \A k \in Inst : PrecedesIn(D, k, s[p]) => \E q \in DOMAIN s : q < p /\ s[q] = k
        BY <2>2 DEF OrderedAfter
      <3> QED  BY <1>1, <2>2, <3>1
    <2> QED  BY <1>1, <2>1, <2>2
  <1> QED  BY <1>2 DEF OrderedAfter, t
-----------------------------------------------------------------------------
(***************************************************************************)
(* The graph of what leaders have decided, and the inductive invariant:    *)
(* each chain and each log is in its order.                                *)
(***************************************************************************)
Graph == [k \in Inst |-> IF IsCommitted(Led(k)) THEN Led(k).deps ELSE {}]

CommittedAt(n) == {k \in Inst : IsCommitted(manager[n].instances[k])}
ExecutedAt(n) == {k \in Inst : IsExecuted(manager[n].instances[k])}

OrderInv ==
    /\ \A i \in Inst : OrderedAfter(Graph, CommittedAt(Leader[i]), ExecutedAt(Leader[i]), chain[i])
    /\ \A n \in Node : OrderedAfter(Graph, CommittedAt(n), {}, manager[n].executed)

RInv == IInv /\ OrderInv

LEMMA GraphType ==
    ASSUME TypeOK
    PROVE  Graph \in Graphs
  <1>1. \A k \in Inst : IsCommitted(Led(k)) => Led(k).deps \in SUBSET Inst
    BY NodeAssumption, Rows DEF IsCommitted, Row, Instance
  <1> QED  BY <1>1 DEF Graph, Graphs

\* What any node has committed is decided, with these dependencies
LEMMA CommittedIsDecided ==
    ASSUME TypeOK, CopiesAgree, NEW n \in Node, NEW k \in CommittedAt(n)
    PROVE  /\ k \in Inst /\ IsCommitted(Led(k))
           /\ Graph[k] = Led(k).deps
           /\ manager[n].instances[k].deps = Graph[k]
  BY DEF CommittedAt, CopiesAgree, CopyOf, Graph

\* No step takes back a decision
LEMMA GraphStep ==
    ASSUME IInv, IInv', NobodyBack
    PROVE  /\ Graph \in Graphs /\ Graph' \in Graphs
           /\ \A n \in Node : /\ CommittedAt(n) \subseteq CommittedAt(n)'
                              /\ ExecutedAt(n) \subseteq ExecutedAt(n)'
                              /\ \A k \in CommittedAt(n) : Graph'[k] = Graph[k]
  <1>1. Graph \in Graphs
    BY GraphType DEF IInv
  <1>2. Graph' \in Graphs
    <2>1. \A k \in Inst : IsCommitted(Led(k)') => Led(k)'.deps \in SUBSET Inst
      <3> TAKE k \in Inst
      <3>1. Leader[k] \in Node /\ manager'[Leader[k]] \in ManagerType
        BY NodeAssumption DEF IInv, TypeOK
      <3> QED  BY <3>1 DEF Led, IsCommitted, ManagerType, Instance
    <2> QED  BY <2>1 DEF Graph, Graphs
  <1>3. ASSUME NEW n \in Node, NEW k \in Inst, IsCommitted(manager[n].instances[k])
        PROVE  /\ IsCommitted(manager'[n].instances[k])
               /\ IsExecuted(manager[n].instances[k]) => IsExecuted(manager'[n].instances[k])
               /\ manager'[n].instances[k].deps = manager[n].instances[k].deps
    <2> DEFINE y == manager[n].instances[k]
               z == manager'[n].instances[k]
    <2>1. y # Nil /\ y \in Instance /\ NeverBack(n, k) /\ Committed(n, k)
      BY <1>3, Rows DEF IInv, IsCommitted, NobodyBack
    <2>2. z # Nil /\ Status(n, k)' >= Status(n, k) /\ z.deps = y.deps
      BY <2>1 DEF NeverBack, Deps
    <2>3. z \in Instance
      BY <2>2 DEF IInv, TypeOK, ManagerType
    <2>4. Status(n, k) = y.status /\ Status(n, k)' = z.status
      BY <2>1, <2>2 DEF Status
    <2> QED  BY <1>3, <2>1, <2>2, <2>3, <2>4 DEF IsCommitted, IsExecuted, Instance
  <1>4. ASSUME NEW n \in Node, NEW k \in CommittedAt(n)
        PROVE  k \in CommittedAt(n)' /\ Graph'[k] = Graph[k]
    <2>1. k \in Inst /\ IsCommitted(Led(k)) /\ Leader[k] \in Node
      BY CommittedIsDecided, NodeAssumption DEF IInv
    <2>2. IsCommitted(Led(k)') /\ Led(k)'.deps = Led(k).deps
      BY <1>3, <2>1 DEF Led
    <2> QED  BY <1>3, <2>1, <2>2 DEF CommittedAt, Graph
  <1>5. ASSUME NEW n \in Node, NEW k \in ExecutedAt(n)
        PROVE  k \in ExecutedAt(n)'
    <2>1. IsCommitted(manager[n].instances[k]) /\ IsExecuted(manager[n].instances[k]) /\ k \in Inst
      BY DEF ExecutedAt, IsExecuted, IsCommitted
    <2> QED  BY <1>3, <2>1 DEF ExecutedAt
  <1> QED  BY <1>1, <1>2, <1>4, <1>5

\* Chains and logs that do not change stay in order
LEMMA OrderStep ==
    ASSUME IInv, OrderInv, IInv', NobodyBack
    PROVE  /\ \A i \in Inst : chain'[i] = chain[i] =>
                 OrderedAfter(Graph', CommittedAt(Leader[i])', ExecutedAt(Leader[i])', chain'[i])
           /\ \A n \in Node : manager'[n].executed = manager[n].executed =>
                 OrderedAfter(Graph', CommittedAt(n)', {}, manager'[n].executed)
  <1>1. /\ Graph \in Graphs /\ Graph' \in Graphs
        /\ \A n \in Node : /\ CommittedAt(n) \subseteq CommittedAt(n)'
                           /\ ExecutedAt(n) \subseteq ExecutedAt(n)'
                           /\ \A k \in CommittedAt(n) : Graph'[k] = Graph[k]
    BY GraphStep
  <1>2. \A n \in Node : /\ CommittedAt(n) \in SUBSET Inst /\ CommittedAt(n)' \in SUBSET Inst
                        /\ ExecutedAt(n) \in SUBSET Inst /\ ExecutedAt(n)' \in SUBSET Inst
    BY DEF CommittedAt, ExecutedAt
  <1>3. ASSUME NEW i \in Inst, chain'[i] = chain[i]
        PROVE  OrderedAfter(Graph', CommittedAt(Leader[i])', ExecutedAt(Leader[i])', chain'[i])
    <2>1. Leader[i] \in Node /\ chain[i] \in Seq(Inst)
      BY NodeAssumption DEF IInv, TypeOK
    <2>2. OrderedAfter(Graph, CommittedAt(Leader[i]), ExecutedAt(Leader[i]), chain[i])
      BY DEF OrderInv
    <2> QED  BY <1>1, <1>2, <1>3, <2>1, <2>2, OrderKept
  <1>4. ASSUME NEW n \in Node, manager'[n].executed = manager[n].executed
        PROVE  OrderedAfter(Graph', CommittedAt(n)', {}, manager'[n].executed)
    <2>1. manager[n].executed \in Seq(Inst) /\ {} \in SUBSET Inst
      BY DEF IInv, TypeOK, ManagerType
    <2>2. OrderedAfter(Graph, CommittedAt(n), {}, manager[n].executed)
      BY DEF OrderInv
    <2> QED  BY <1>1, <1>2, <1>4, <2>1, <2>2, OrderKept
  <1> QED  BY <1>3, <1>4
-----------------------------------------------------------------------------
LEMMA LearnOrder ==
    ASSUME RInv, IInv', NobodyBack, LearnsOnly
    PROVE  OrderInv'
  <1>1. chain' = chain /\ \A n \in Node : manager'[n].executed = manager[n].executed
    BY NodeAssumption DEF LearnsOnly, LearnStep
  <1> QED  BY <1>1, OrderStep DEF RInv, OrderInv

\* A step that touches neither managers nor chains
LEMMA IdleOrder ==
    ASSUME RInv, UNCHANGED <<manager, chain>>
    PROVE  OrderInv'
  BY DEF RInv, OrderInv, Graph, CommittedAt, ExecutedAt, Led

\* The graph getExecutionOrder walks at a node
ManagerGraph(m) ==
    [k \in Inst |-> IF m.instances[k] = Nil THEN {} ELSE m.instances[k].deps]

LEMMA ReachesIn ==
    ASSUME NEW m \in ManagerType
    PROVE  /\ ManagerGraph(m) \in Graphs
           /\ \A i, j \in Inst : Reaches(m, i, j) <=> ReachIn(ManagerGraph(m), i, j)
           /\ \A i, j \in Inst : Precedes(m, j, i) <=> PrecedesIn(ManagerGraph(m), j, i)
  <1>1. ManagerGraph(m) \in Graphs
    BY DEF ManagerGraph, Graphs, ManagerType, Instance
  <1>2. \A S \in SUBSET Inst : Closed(m, S) <=> \A k \in S : ManagerGraph(m)[k] \subseteq S
    BY DEF Closed, ManagerGraph
  <1>3. \A i, j \in Inst : Reaches(m, i, j) <=> ReachIn(ManagerGraph(m), i, j)
    BY <1>2 DEF Reaches, ReachIn
  <1> QED  BY <1>1, <1>3 DEF Precedes, PrecedesIn

\* A chain is in order when it is computed: every instance it can reach is decided, so
\* the replica's own graph is the decided one
LEMMA StartExecutionOrder ==
    ASSUME RInv, NEW i \in Inst, StartExecution(i)
    PROVE  OrderInv'
  <1> DEFINE l == Leader[i]
             m == manager[l]
             M == ManagerGraph(m)
             G == ExecutionGraph(m, i)
  <1>1. TypeOK /\ CopiesAgree /\ l \in Node /\ m \in ManagerType /\ Graph \in Graphs
    BY NodeAssumption, Rows, GraphType DEF RInv, IInv
  <1>2. PICK s \in ExecutionOrders(m, G) : chain' = [chain EXCEPT ![i] = s]
    BY DEF StartExecution
  <1>3. /\ M \in Graphs
        /\ \A a, b \in Inst : Reaches(m, a, b) <=> ReachIn(M, a, b)
        /\ \A a, b \in Inst : Precedes(m, b, a) <=> PrecedesIn(M, b, a)
    BY <1>1, ReachesIn
  <1>4. G = {k \in Inst : ReachIn(M, i, k)}
    BY <1>3 DEF ExecutionGraph
  <1>5. G \in SUBSET Inst /\ G \subseteq CommittedAt(l)
    BY <1>4 DEF StartExecution, CommittedAt, IsCommitted
  <1>6. \A k \in G : M[k] \subseteq G /\ Graph[k] = M[k]
    <2>1. \A k \in G : M[k] \subseteq G
      BY <1>3, <1>4, ReachClosed
    <2>2. ASSUME NEW k \in G
          PROVE  Graph[k] = M[k]
      <3>1. k \in CommittedAt(l) /\ m.instances[k] # Nil
        BY <1>5 DEF CommittedAt, IsCommitted
      <3>2. m.instances[k].deps = Graph[k]
        BY <1>1, <3>1, CommittedIsDecided
      <3> QED  BY <1>5, <3>1, <3>2 DEF ManagerGraph
    <2> QED  BY <2>1, <2>2
  <1>7. s \in Seq(Inst) /\ \A p \in DOMAIN s : s[p] \in G
    <2>1. Cardinality(G) \in Nat
      BY <1>5, InstAssumption, FS_Subset, FS_CardinalityType
    <2> HIDE DEF G, m
    <2> QED  BY <1>5, <2>1 DEF ExecutionOrders
  <1>8. /\ \A j \in G : \E k \in DOMAIN s : s[k] = j
        /\ \A k, q \in DOMAIN s : Precedes(m, s[k], s[q]) => k < q
    BY DEF ExecutionOrders
  <1> HIDE DEF M, G, m, l
  <1>9. \A a \in G, b \in Inst : /\ ReachIn(M, a, b) <=> ReachIn(Graph, a, b)
                                 /\ ReachIn(M, a, b) => b \in G
    BY <1>1, <1>3, <1>5, <1>6, SamePaths
  <1>10. OrderedAfter(Graph, CommittedAt(l), ExecutedAt(l), s)
    <2>1. ASSUME NEW p \in DOMAIN s, NEW k \in Inst
          PROVE  /\ ReachIn(Graph, s[p], k) => k \in CommittedAt(l)
                 /\ PrecedesIn(Graph, k, s[p]) => \E q \in DOMAIN s : q < p /\ s[q] = k
      <3>1. s[p] \in G /\ s[p] \in Inst
        BY <1>5, <1>7
      <3>2. ReachIn(Graph, s[p], k) => k \in G
        BY <1>9, <3>1
      <3>3. ASSUME PrecedesIn(Graph, k, s[p])
            PROVE  \E q \in DOMAIN s : q < p /\ s[q] = k
        <4>1. k \in G
          BY <3>2, <3>3 DEF PrecedesIn
        <4>2. PICK q \in DOMAIN s : s[q] = k
          BY <1>8, <4>1
        <4>3. PrecedesIn(M, k, s[p])
          BY <1>9, <3>1, <3>3, <4>1 DEF PrecedesIn
        <4>4. Precedes(m, s[q], s[p])
          BY <1>3, <3>1, <4>2, <4>3
        <4> QED  BY <1>8, <4>2, <4>4
      <3> QED  BY <1>5, <3>2, <3>3
    <2> QED  BY <2>1 DEF OrderedAfter
  <1>11. /\ Graph' = Graph /\ manager' = manager
         /\ \A n \in Node : CommittedAt(n)' = CommittedAt(n) /\ ExecutedAt(n)' = ExecutedAt(n)
    BY DEF StartExecution, Graph, CommittedAt, ExecutedAt, Led
  <1>12. \A k \in Inst : chain'[k] = IF k = i THEN s ELSE chain[k]
    BY <1>1, <1>2 DEF TypeOK
  <1>13. \A k \in Inst : OrderedAfter(Graph, CommittedAt(Leader[k]), ExecutedAt(Leader[k]), chain'[k])
    BY <1>10, <1>12 DEF l, RInv, OrderInv
  <1>14. \A n \in Node : OrderedAfter(Graph, CommittedAt(n), {}, manager'[n].executed)
    BY <1>11 DEF RInv, OrderInv
  <1>15. \A k \in Inst : Leader[k] \in Node
    BY NodeAssumption
  <1> QED  BY <1>11, <1>13, <1>14, <1>15 DEF OrderInv

\* Node n executes j, which nothing it has not executed precedes
ExecuteStep(n, j) ==
    /\ j \in CommittedAt(n) \ ExecutedAt(n)
    /\ \A k \in Inst : ReachIn(Graph, j, k) => k \in CommittedAt(n)
    /\ \A k \in Inst : PrecedesIn(Graph, k, j) => k \in ExecutedAt(n)
    /\ \A p \in Node : CommittedAt(p)' = CommittedAt(p)
    /\ \A k \in Inst : IsCommitted(Led(k)') = IsCommitted(Led(k))
    /\ Graph' = Graph
    /\ \A p \in Node \ {n} : manager'[p].executed = manager[p].executed
    /\ manager'[n].executed = Append(manager[n].executed, j)

LEMMA ApplyNextOrder ==
    ASSUME RInv, IInv', NobodyBack, NEW i \in Inst, ApplyNext(i)
    PROVE  /\ OrderInv'
           /\ UNCHANGED manager \/ \E j \in Inst : ExecuteStep(Leader[i], j)
  <1>0. PICK l \in Node : l = Leader[i]
    BY NodeAssumption
  <1>1. TypeOK /\ CopiesAgree /\ LogInv /\ manager[l] \in ManagerType /\ Graph \in Graphs
    BY Rows, GraphType DEF RInv, IInv
  <1>2. /\ chain[i] \in Seq(Inst) /\ chain[i] # <<>>
        /\ OrderedAfter(Graph, CommittedAt(l), ExecutedAt(l), chain[i])
    BY <1>0, <1>1 DEF ApplyNext, TypeOK, RInv, OrderInv
  <1>3. PICK j \in Inst : j = Head(chain[i])
    BY <1>2
  <1>4. /\ 1 \in DOMAIN chain[i] /\ chain[i][1] = j /\ DOMAIN chain[i] \subseteq Nat \ {0}
        /\ Tail(chain[i]) \in Seq(Inst)
    BY <1>2, <1>3
  <1>5. /\ \A k \in Inst : ReachIn(Graph, j, k) => k \in CommittedAt(l)
        /\ \A k \in Inst : PrecedesIn(Graph, k, j) => k \in ExecutedAt(l)
    <2>1. \A q \in DOMAIN chain[i] : ~(q < 1)
      BY <1>4
    <2> QED  BY <1>2, <1>4, <2>1 DEF OrderedAfter
  <1>6. \A n \in Node : CommittedAt(n) \in SUBSET Inst /\ ExecutedAt(n) \in SUBSET Inst
    BY DEF CommittedAt, ExecutedAt
  <1>7. CASE UNCHANGED manager /\ chain' = chain
    BY <1>7, IdleOrder
  <1>8. CASE /\ Status(l, j) = INSTANCE_EXECUTED /\ UNCHANGED manager
             /\ chain' = [chain EXCEPT ![i] = Tail(chain[i])]
    <2>1. j \in ExecutedAt(l)
      BY <1>8 DEF Status, ExecutedAt, IsExecuted
    <2>2. OrderedAfter(Graph, CommittedAt(l), ExecutedAt(l), Tail(chain[i]))
      BY <1>1, <1>2, <1>3, <1>6, <2>1, OrderTail
    <2>3. /\ Graph' = Graph /\ manager' = manager
          /\ \A n \in Node : CommittedAt(n)' = CommittedAt(n) /\ ExecutedAt(n)' = ExecutedAt(n)
      BY <1>8 DEF Graph, CommittedAt, ExecutedAt, Led
    <2>4. \A k \in Inst : chain'[k] = IF k = i THEN Tail(chain[i]) ELSE chain[k]
      BY <1>1, <1>8 DEF TypeOK
    <2>5. \A k \in Inst : OrderedAfter(Graph, CommittedAt(Leader[k]), ExecutedAt(Leader[k]), chain'[k])
      BY <1>0, <2>2, <2>4 DEF RInv, OrderInv
    <2>6. \A n \in Node : OrderedAfter(Graph, CommittedAt(n), {}, manager'[n].executed)
      BY <2>3 DEF RInv, OrderInv
    <2>7. \A k \in Inst : Leader[k] \in Node
      BY NodeAssumption
    <2> QED  BY <1>8, <2>3, <2>5, <2>6, <2>7 DEF OrderInv
  <1>9. CASE /\ Status(l, j) = INSTANCE_COMMITTED
             /\ manager' = [manager EXCEPT ![l] = applyInstance(@, j)]
             /\ chain' = [chain EXCEPT ![i] = IF j = i THEN <<>> ELSE Tail(chain[i])]
    <2> DEFINE m == applyInstance(manager[l], j)
    <2>1. IsCommitted(manager[l].instances[j]) /\ ~IsExecuted(manager[l].instances[j])
      BY <1>9 DEF Status, IsCommitted, IsExecuted
    <2>2. /\ m.executed = Append(manager[l].executed, j)
          /\ \A k \in Inst \ {j} : m.instances[k] = manager[l].instances[k]
          /\ m.instances[j] \in Instance /\ m.instances[j].status = INSTANCE_EXECUTED
          /\ m.instances[j].deps = manager[l].instances[j].deps
      BY <1>1, <2>1, Apply
    <2>3. manager'[l] = m /\ \A n \in Node \ {l} : manager'[n] = manager[n]
      BY <1>1, <1>9 DEF TypeOK
    <2> HIDE DEF m
    <2>4. m.instances[j] # Nil
      BY <2>2, NilAssumption
    <2>5. \A n \in Node, k \in Inst :
            /\ IsCommitted(manager'[n].instances[k]) <=> IsCommitted(manager[n].instances[k])
            /\ IsCommitted(manager[n].instances[k]) =>
                  manager'[n].instances[k].deps = manager[n].instances[k].deps
            /\ IsExecuted(manager'[n].instances[k]) <=>
                  (n = l /\ k = j) \/ IsExecuted(manager[n].instances[k])
      <3> TAKE n \in Node, k \in Inst
      <3>1. CASE n = l /\ k = j
        BY <2>1, <2>2, <2>3, <2>4, <3>1 DEF IsCommitted, IsExecuted
      <3>2. CASE ~(n = l /\ k = j)
        <4>1. manager'[n].instances[k] = manager[n].instances[k]
          BY <2>2, <2>3, <3>2
        <4> QED  BY <3>2, <4>1
      <3> QED  BY <3>1, <3>2
    <2>6. /\ \A n \in Node : CommittedAt(n)' = CommittedAt(n)
          /\ \A k \in Inst : IsCommitted(Led(k)') = IsCommitted(Led(k))
          /\ Graph' = Graph
      <3>1. \A n \in Node : CommittedAt(n)' = CommittedAt(n)
        BY <2>5 DEF CommittedAt
      <3>2. \A k \in Inst : /\ IsCommitted(Led(k)') <=> IsCommitted(Led(k))
                            /\ IsCommitted(Led(k)) => Led(k)'.deps = Led(k).deps
        BY <2>5, NodeAssumption DEF Led
      <3>3. Graph' = Graph
        BY <3>2 DEF Graph
      <3>4. \A k \in Inst : IsCommitted(Led(k)') \in BOOLEAN /\ IsCommitted(Led(k)) \in BOOLEAN
        BY DEF IsCommitted
      <3> QED  BY <3>1, <3>2, <3>3, <3>4
    <2>7. j \in CommittedAt(l) /\ j \notin ExecutedAt(l) /\ j \in ExecutedAt(l)'
      BY <2>1, <2>5 DEF CommittedAt, ExecutedAt
    <2>8. /\ \A n \in Node \ {l} : manager'[n].executed = manager[n].executed
          /\ manager'[l].executed = Append(manager[l].executed, j)
      BY <2>2, <2>3
    <2>9. ExecuteStep(Leader[i], j)
      BY <1>0, <1>5, <2>6, <2>7, <2>8 DEF ExecuteStep
    <2>10. OrderedAfter(Graph', CommittedAt(l)', {}, manager'[l].executed)
      <3>1. manager[l].executed \in Seq(Inst) /\ OrderedAfter(Graph, CommittedAt(l), {}, manager[l].executed)
        BY <1>1 DEF ManagerType, RInv, OrderInv
      <3>2. \A k \in Inst : PrecedesIn(Graph, k, j) =>
                \E q \in DOMAIN manager[l].executed : manager[l].executed[q] = k
        BY <1>1, <1>5 DEF LogInv, LogOf, ExecutedAt
      <3> QED  BY <1>1, <1>5, <1>6, <2>6, <2>8, <3>1, <3>2, OrderAppend
    <2>11. ASSUME NEW k \in Inst
           PROVE  OrderedAfter(Graph', CommittedAt(Leader[k])', ExecutedAt(Leader[k])', chain'[k])
      <3>1. CASE k # i
        <4>1. chain'[k] = chain[k]
          BY <1>1, <1>9, <3>1 DEF TypeOK
        <4> QED  BY <4>1, OrderStep DEF RInv
      <3>2. CASE k = i /\ j = i
        <4>1. chain'[k] = <<>>
          BY <1>1, <1>9, <3>2 DEF TypeOK
        <4> QED  BY <4>1 DEF OrderedAfter
      <3>3. CASE k = i /\ j # i
        <4>1. chain'[k] = Tail(chain[i])
          BY <1>1, <1>9, <3>3 DEF TypeOK
        <4>2. /\ Graph' \in Graphs /\ ExecutedAt(l) \subseteq ExecutedAt(l)'
              /\ CommittedAt(l)' \in SUBSET Inst /\ ExecutedAt(l)' \in SUBSET Inst
          BY GraphStep DEF RInv, CommittedAt, ExecutedAt
        <4>3. OrderedAfter(Graph', CommittedAt(l)', ExecutedAt(l)', chain[i])
          BY <1>1, <1>2, <1>6, <2>6, <4>2, OrderKept
        <4>4. OrderedAfter(Graph', CommittedAt(l)', ExecutedAt(l)', Tail(chain[i]))
          BY <1>2, <1>3, <2>7, <4>2, <4>3, OrderTail
        <4> QED  BY <1>0, <3>3, <4>1, <4>4
      <3> QED  BY <3>1, <3>2, <3>3
    <2>12. \A n \in Node : OrderedAfter(Graph', CommittedAt(n)', {}, manager'[n].executed)
      BY <2>8, <2>10, OrderStep DEF RInv
    <2>13. OrderInv'
      BY <2>11, <2>12 DEF OrderInv
    <2> QED  BY <2>9, <2>13
  <1> QED  BY <1>0, <1>3, <1>7, <1>8, <1>9 DEF ApplyNext

\* Every step keeps the invariant, and is one of three kinds
LEMMA NextKinds ==
    ASSUME RInv, [Next]_vars
    PROVE  /\ RInv' /\ NobodyBack
           /\ \/ LearnsOnly
              \/ UNCHANGED manager
              \/ \E i, j \in Inst : ExecuteStep(Leader[i], j)
  <1>1. IInv /\ IInv' /\ NobodyBack
    BY NextInv DEF RInv
  <1>2. CASE LearnsOnly
    BY <1>1, <1>2, LearnOrder DEF RInv
  <1>3. CASE UNCHANGED <<manager, chain>>
    BY <1>1, <1>3, IdleOrder DEF RInv
  <1>4. ASSUME NEW i \in Inst, StartExecution(i)
        PROVE  RInv' /\ UNCHANGED manager
    BY <1>1, <1>4, StartExecutionOrder DEF RInv, StartExecution
  <1>5. ASSUME NEW i \in Inst, ApplyNext(i)
        PROVE  RInv' /\ (UNCHANGED manager \/ \E j \in Inst : ExecuteStep(Leader[i], j))
    BY <1>1, <1>5, ApplyNextOrder DEF RInv
  <1>6. ASSUME NEW i \in Inst, Lead(i) \/ PhaseTimeout(i)
        PROVE  \/ LearnsOnly \/ UNCHANGED <<manager, chain>>
               \/ StartExecution(i) \/ ApplyNext(i)
    <2>1. UnknownDependency(i) \/ FinishExecution(i) => UNCHANGED <<manager, chain>>
      BY DEF UnknownDependency, FinishExecution
    <2> QED  BY <1>1, <1>6, <2>1, StartPreAcceptStep, RejectedStep, PreAcceptQuorumStep,
                StartAcceptStep, GoOnStep, LeaderCommitStep DEF Lead
  <1>7. ASSUME NEW r \in net, Handle(r)
        PROVE  LearnsOnly
    BY <1>1, <1>7, HandlePreAcceptStep, HandleAcceptStep, HandleCommitStep DEF Handle
  <1>8. UNCHANGED vars \/ Terminated => UNCHANGED <<manager, chain>>
    BY DEF Terminated, vars
  <1> QED  BY <1>1, <1>2, <1>3, <1>4, <1>5, <1>6, <1>7, <1>8 DEF Next

LEMMA InitOrder == Init => RInv
  <1> SUFFICES ASSUME Init PROVE OrderInv
    BY InitInv DEF RInv
  <1>1. \A i \in Inst : chain[i] = <<>>
    BY DEF Init
  <1>2. \A n \in Node : manager[n].executed = <<>>
    BY DEF Init, NewManager
  <1> QED  BY <1>1, <1>2 DEF OrderInv, OrderedAfter

\* The inductive invariant: chains and logs are in the order of the decided graph
THEOREM OrderInvariance == Spec => []RInv
  BY InitOrder, NextKinds, PTL DEF Spec
-----------------------------------------------------------------------------
(***************************************************************************)
(* The refinement                                                          *)
(***************************************************************************)
LEMMA ChosenDecided == IInv => Chosen = [k \in Inst |-> IF IsCommitted(Led(k)) THEN Graph[k] ELSE Nil]
  <1> SUFFICES ASSUME IInv, NEW k \in Inst
               PROVE  (IF \E n \in Node : Committed(n, k)
                       THEN Deps(CHOOSE n \in Node : Committed(n, k), k) ELSE Nil)
                        = IF IsCommitted(Led(k)) THEN Graph[k] ELSE Nil
    BY DEF Chosen
  <1>1. TypeOK /\ CopiesAgree /\ Leader[k] \in Node
    BY NodeAssumption DEF IInv
  <1>2. \A n \in Node : Committed(n, k) <=> k \in CommittedAt(n)
    BY <1>1, Rows DEF CommittedAt
  <1>3. \A n \in Node : Committed(n, k) => IsCommitted(Led(k)) /\ Deps(n, k) = Graph[k]
    BY <1>1, <1>2, CommittedIsDecided DEF Deps
  <1>4. IsCommitted(Led(k)) => Committed(Leader[k], k)
    BY <1>1, Rows DEF Led
  <1> DEFINE c == CHOOSE n \in Node : Committed(n, k)
  <1>5. (\E n \in Node : Committed(n, k)) => c \in Node /\ Committed(c, k)
    OBVIOUS
  <1> HIDE DEF c
  <1>6. CASE IsCommitted(Led(k))
    <2>1. \E n \in Node : Committed(n, k)
      BY <1>1, <1>4, <1>6
    <2>2. Deps(c, k) = Graph[k]
      BY <1>3, <1>5, <2>1
    <2> QED  BY <1>6, <2>1, <2>2 DEF c
  <1>7. CASE ~IsCommitted(Led(k))
    BY <1>3, <1>7
  <1> QED  BY <1>6, <1>7

LEMMA ChosenDecidedNext ==
    IInv' => (Chosen = [k \in Inst |-> IF IsCommitted(Led(k)) THEN Graph[k] ELSE Nil])'
  BY ChosenDecided, PTL

Learned == [n \in Node |-> {i \in Inst : Committed(n, i)}]

LEMMA LearnedCommitted == IInv => Learned = [n \in Node |-> CommittedAt(n)]
  BY Rows DEF IInv, Learned, CommittedAt

LEMMA LearnedCommittedNext == IInv' => (Learned = [n \in Node |-> CommittedAt(n)])'
  BY LearnedCommitted, PTL

\* Dependence in Agreement is reachability in the decided graph
LEMMA AgreedOrder ==
    ASSUME IInv
    PROVE  \A i, j \in Inst : /\ Agreed!DependsOn(i, j) <=> ReachIn(Graph, i, j)
                              /\ Agreed!Precedes(j, i) <=> PrecedesIn(Graph, j, i)
  <1>1. Chosen = [k \in Inst |-> IF IsCommitted(Led(k)) THEN Graph[k] ELSE Nil]
    BY ChosenDecided
  <1>2. Graph \in Graphs /\ \A k \in Inst : ~IsCommitted(Led(k)) => Graph[k] = {}
    BY GraphType DEF IInv, Graph
  <1>3. \A k \in Inst : IsCommitted(Led(k)) => Graph[k] # Nil
    BY <1>2, NilAssumption DEF Graphs
  <1>4. \A k \in Inst, S \in SUBSET Inst : (Chosen[k] # Nil => Chosen[k] \subseteq S) <=> Graph[k] \subseteq S
    BY <1>1, <1>2, <1>3
  <1>5. \A i, j \in Inst : Agreed!DependsOn(i, j) <=> ReachIn(Graph, i, j)
    BY <1>4 DEF Agreed!DependsOn, ReachIn
  <1> QED  BY <1>5 DEF Agreed!Precedes, PrecedesIn

\* A node that learns what is decided takes a Learn step
LEMMA LearnRefines ==
    ASSUME IInv, IInv', NobodyBack, NEW n \in Node, LearnStep(n, {})
    PROVE  Agreed!Learn(n)
  <1>1. /\ Chosen = [k \in Inst |-> IF IsCommitted(Led(k)) THEN Graph[k] ELSE Nil]
        /\ Chosen' = [k \in Inst |-> IF IsCommitted(Led(k)') THEN Graph'[k] ELSE Nil]
        /\ Learned = [p \in Node |-> CommittedAt(p)]
        /\ Learned' = [p \in Node |-> CommittedAt(p)']
    BY ChosenDecided, ChosenDecidedNext, LearnedCommitted, LearnedCommittedNext
  <1>2. /\ Graph \in Graphs
        /\ \A p \in Node : /\ CommittedAt(p) \subseteq CommittedAt(p)'
                           /\ \A k \in CommittedAt(p) : Graph'[k] = Graph[k]
    BY GraphStep
  <1>3. \A k \in Inst : IsCommitted(Led(k)) => /\ IsCommitted(Led(k)') /\ Graph'[k] = Graph[k]
                                               /\ Graph[k] # Nil
    <2> TAKE k \in Inst
    <2> HAVE IsCommitted(Led(k))
    <2>1. Leader[k] \in Node /\ k \in CommittedAt(Leader[k])
      BY NodeAssumption DEF CommittedAt, Led
    <2>2. k \in CommittedAt(Leader[k])'
      BY <1>2, <2>1
    <2>3. IsCommitted(Led(k)')
      BY <2>2 DEF CommittedAt, Led
    <2> QED  BY <1>2, <2>1, <2>3, NilAssumption DEF Graphs
  <1>4. \A k \in Inst : IsCommitted(Led(k)') => IsCommitted(Led(k))
    BY DEF LearnStep
  <1>5. Chosen' = Chosen
    BY <1>1, <1>3, <1>4
  <1>6. \A p \in Node \ {n} : CommittedAt(p)' = CommittedAt(p)
    BY DEF LearnStep, CommittedAt
  <1>7. CommittedAt(n)' \in SUBSET {k \in Inst : Chosen[k] # Nil}
    <2> SUFFICES ASSUME NEW k \in CommittedAt(n)'
                 PROVE  k \in Inst /\ Chosen[k] # Nil
      OBVIOUS
    <2>1. k \in Inst /\ IsCommitted(manager'[n].instances[k])
      BY DEF CommittedAt
    <2>2. IsCommitted(Led(k)')
      BY <2>1 DEF IInv, CopiesAgree, CopyOf
    <2> QED  BY <1>1, <1>3, <1>4, <2>1, <2>2
  <1>8. Learned' = [Learned EXCEPT ![n] = @ \cup CommittedAt(n)']
    BY <1>1, <1>2, <1>6
  <1>9. [p \in Node |-> manager[p].executed]' = [p \in Node |-> manager[p].executed]
    BY DEF LearnStep
  <1> QED  BY <1>5, <1>7, <1>8, <1>9 DEF Agreed!Learn, Learned

\* A leader that commits takes a Choose step
LEMMA ChooseRefines ==
    ASSUME IInv, IInv', NobodyBack, NEW i \in Inst, LearnStep(Leader[i], {i}),
           ~IsCommitted(Led(i)), IsCommitted(Led(i)'),
           \A j \in Inst \ {i} : manager'[Leader[i]].instances[j] = manager[Leader[i]].instances[j]
    PROVE  Agreed!Choose(Leader[i], i)
  <1>0. PICK n \in Node : n = Leader[i]
    BY NodeAssumption
  <1>1. /\ Chosen = [k \in Inst |-> IF IsCommitted(Led(k)) THEN Graph[k] ELSE Nil]
        /\ Chosen' = [k \in Inst |-> IF IsCommitted(Led(k)') THEN Graph'[k] ELSE Nil]
        /\ Learned = [p \in Node |-> CommittedAt(p)]
        /\ Learned' = [p \in Node |-> CommittedAt(p)']
    BY ChosenDecided, ChosenDecidedNext, LearnedCommitted, LearnedCommittedNext
  <1>2. /\ Graph' \in Graphs
        /\ \A p \in Node : /\ CommittedAt(p) \subseteq CommittedAt(p)'
                           /\ \A k \in CommittedAt(p) : Graph'[k] = Graph[k]
    BY GraphStep
  <1>3. \A k \in Inst : IsCommitted(Led(k)) => IsCommitted(Led(k)') /\ Graph'[k] = Graph[k]
    <2> TAKE k \in Inst
    <2> HAVE IsCommitted(Led(k))
    <2>1. Leader[k] \in Node /\ k \in CommittedAt(Leader[k])
      BY NodeAssumption DEF CommittedAt, Led
    <2>2. k \in CommittedAt(Leader[k])'
      BY <1>2, <2>1
    <2>3. IsCommitted(Led(k)')
      BY <2>2 DEF CommittedAt, Led
    <2> QED  BY <1>2, <2>1, <2>3
  <1>4. \A k \in Inst \ {i} : IsCommitted(Led(k)') => IsCommitted(Led(k))
    BY DEF LearnStep
  <1>5. Chosen[i] = Nil /\ Chosen' = [Chosen EXCEPT ![i] = Graph'[i]] /\ Graph'[i] \in SUBSET Inst
    BY <1>1, <1>2, <1>3, <1>4 DEF Graphs
  <1>6. \A p \in Node \ {n} : CommittedAt(p)' = CommittedAt(p)
    BY <1>0 DEF LearnStep, CommittedAt
  <1>7. CommittedAt(n)' = CommittedAt(n) \cup {i}
    <2>1. IsCommitted(manager'[n].instances[i])
      BY <1>0 DEF Led
    <2> QED  BY <1>0, <2>1 DEF CommittedAt
  <1>8. Learned' = [Learned EXCEPT ![n] = @ \cup {i}]
    BY <1>1, <1>6, <1>7
  <1>9. [p \in Node |-> manager[p].executed]' = [p \in Node |-> manager[p].executed]
    BY <1>0 DEF LearnStep
  <1> QED  BY <1>0, <1>5, <1>8, <1>9 DEF Agreed!Choose, Learned

\* A goroutine that executes the head of its chain takes an Execute step
LEMMA ExecuteRefines ==
    ASSUME IInv, IInv', NEW n \in Node, NEW j \in Inst, ExecuteStep(n, j)
    PROVE  Agreed!Execute(n, j)
  <1>1. /\ Chosen = [k \in Inst |-> IF IsCommitted(Led(k)) THEN Graph[k] ELSE Nil]
        /\ Chosen' = [k \in Inst |-> IF IsCommitted(Led(k)') THEN Graph'[k] ELSE Nil]
        /\ Learned = [p \in Node |-> CommittedAt(p)]
        /\ Learned' = [p \in Node |-> CommittedAt(p)']
    BY ChosenDecided, ChosenDecidedNext, LearnedCommitted, LearnedCommittedNext
  <1>2. Chosen' = Chosen /\ Learned' = Learned
    BY <1>1 DEF ExecuteStep
  <1>3. Agreed!Logged(n) = ExecutedAt(n)
    <2>1. LogOf(manager[n]) /\ manager[n].executed \in Seq(Inst)
      BY Rows DEF IInv, TypeOK, LogInv, ManagerType
    <2>2. \A k \in DOMAIN manager[n].executed : manager[n].executed[k] \in Inst
      BY <2>1
    <2> QED  BY <2>1, <2>2 DEF Agreed!Logged, ExecutedAt, LogOf
  <1>4. j \in Learned[n] \ Agreed!Logged(n)
    BY <1>1, <1>3 DEF ExecuteStep
  <1>5. /\ \A k \in Inst : Agreed!DependsOn(j, k) => k \in Learned[n]
        /\ \A k \in Inst : Agreed!Precedes(k, j) => k \in Agreed!Logged(n)
    BY <1>1, <1>3, AgreedOrder DEF ExecuteStep
  <1>6. [p \in Node |-> manager[p].executed]'
            = [[p \in Node |-> manager[p].executed] EXCEPT ![n] = Append(@, j)]
    BY DEF ExecuteStep
  <1> QED  BY <1>2, <1>4, <1>5, <1>6 DEF Agreed!Execute, Learned

LEMMA InitRefines == Init => Agreed!Init
  <1> SUFFICES ASSUME Init PROVE Agreed!Init
    OBVIOUS
  <1>1. \A n \in Node : manager[n] = NewManager
    BY DEF Init
  <1>2. \A n \in Node, i \in Inst : ~Committed(n, i)
    BY <1>1 DEF NewManager, Committed, Status
  <1>3. \A n \in Node : manager[n].executed = <<>>
    BY <1>1 DEF NewManager
  <1> QED  BY <1>2, <1>3 DEF Agreed!Init, Chosen

LEMMA StepRefines ==
    ASSUME RInv, [Next]_vars
    PROVE  [Agreed!Next]_(Agreed!avars)
  <1>1. IInv /\ IInv' /\ NobodyBack
    BY NextKinds DEF RInv
  <1>2. CASE LearnsOnly
    <2>1. ASSUME NEW n \in Node, LearnStep(n, {})
          PROVE  Agreed!Next
      BY <1>1, <2>1, LearnRefines DEF Agreed!Next
    <2>2. ASSUME NEW i \in Inst, LearnStep(Leader[i], {i}),
                 ~IsCommitted(Led(i)), IsCommitted(Led(i)'),
                 \A j \in Inst \ {i} : manager'[Leader[i]].instances[j] = manager[Leader[i]].instances[j]
          PROVE  Agreed!Next
      <3>1. Agreed!Choose(Leader[i], i) /\ Leader[i] \in Node
        BY <1>1, <2>2, ChooseRefines, NodeAssumption
      <3> QED  BY <3>1 DEF Agreed!Next
    <2> QED  BY <1>2, <2>1, <2>2 DEF LearnsOnly
  <1>3. CASE UNCHANGED manager
    BY <1>3 DEF Agreed!avars, Chosen, Committed, Status, Deps
  <1>4. ASSUME NEW i \in Inst, NEW j \in Inst, ExecuteStep(Leader[i], j)
        PROVE  Agreed!Next
    <2>1. Agreed!Execute(Leader[i], j) /\ Leader[i] \in Node
      BY <1>1, <1>4, ExecuteRefines, NodeAssumption
    <2> QED  BY <2>1 DEF Agreed!Next
  <1> QED  BY <1>2, <1>3, <1>4, NextKinds

(***************************************************************************)
(* The phases, requests, copies, timeouts and chains of the consensus      *)
(* implement Agreement: only LeaderCommit (commitPhase) decides, every     *)
(* other commit spreads a decision, and executeDependencyChain executes,   *)
(* from a chain that may be old by then, what the decided graph allows.    *)
(***************************************************************************)
THEOREM Implementation == Spec => ImplementsAgreement
  BY OrderInvariance, InitRefines, StepRefines, PTL DEF Spec, ImplementsAgreement, Agreed!Spec

\* The dependencies committed anywhere are those the leader decided
LEMMA GraphDeps ==
    ASSUME IInv, NEW k \in Inst
    PROVE  CommittedDeps(k) = Graph[k]
  <1>1. TypeOK /\ CopiesAgree
    BY DEF IInv
  <1>2. \A n \in Node : Committed(n, k) => IsCommitted(Led(k)) /\ Deps(n, k) = Graph[k]
    BY <1>1, Rows, CommittedIsDecided DEF CommittedAt, Deps
  <1>3. IsCommitted(Led(k)) => Leader[k] \in Node /\ Committed(Leader[k], k)
    BY <1>1, NodeAssumption, Rows DEF Led
  <1>4. CASE IsCommitted(Led(k))
    BY <1>2, <1>3, <1>4 DEF CommittedDeps
  <1>5. CASE ~IsCommitted(Led(k))
    BY <1>2, <1>5 DEF CommittedDeps, Graph
  <1> QED  BY <1>4, <1>5

\* The committed graph of EPaxos is the decided one
LEMMA DependsOnIn ==
    ASSUME IInv, NEW i \in Inst, NEW j \in Inst
    PROVE  DependsOn(i, j) <=> ReachIn(Graph, i, j)
  <1>1. \A k \in Inst : CommittedDeps(k) = Graph[k]
    BY GraphDeps
  <1> QED  BY <1>1 DEF DependsOn, ReachIn

(***************************************************************************)
(* Wherever any two committed instances on a key are linked by the decided *)
(* graph, no two nodes execute two of them in opposite orders, whichever   *)
(* goroutines computed their chains and when (getExecutionOrder,           *)
(* executeDependencyChain).  The condition cannot be dropped: the protocol *)
(* as coded does not always link them (see part 3).                        *)
(***************************************************************************)
THEOREM LinkedSameOrder == Spec => [](GraphLinked => SameOrder)
  <1>1. ASSUME RInv, GraphLinked PROVE SameOrder
    <2> SUFFICES ASSUME NEW n1 \in Node, NEW n2 \in Node, NEW i \in Inst, NEW j \in Inst,
                        KeyOf[i] = KeyOf[j], Before(n1, i, j), Before(n2, j, i)
                 PROVE  FALSE
      BY DEF SameOrder
    <2>1. \A n \in Node : /\ manager[n].executed \in Seq(Inst) /\ LogOf(manager[n])
                          /\ OrderedAfter(Graph, CommittedAt(n), {}, manager[n].executed)
      BY <1>1 DEF RInv, IInv, TypeOK, ManagerType, LogInv, OrderInv
    <2>2. \A n \in Node, a, b \in Inst : Before(n, a, b) =>
            /\ a # b /\ Committed(n, a) /\ Committed(n, b)
            /\ ~PrecedesIn(Graph, b, a)
      <3> SUFFICES ASSUME NEW n \in Node, NEW a \in Inst, NEW b \in Inst, Before(n, a, b)
                   PROVE  /\ a # b /\ Committed(n, a) /\ Committed(n, b)
                          /\ ~PrecedesIn(Graph, b, a)
        OBVIOUS
      <3> DEFINE log == manager[n].executed
      <3>1. PICK k, l \in DOMAIN log : k < l /\ log[k] = a /\ log[l] = b
        BY DEF Before
      <3>2. /\ k \in Nat /\ l \in Nat /\ DOMAIN log \subseteq Nat
            /\ \A p, q \in DOMAIN log : log[p] = log[q] => p = q
        BY <2>1, <3>1 DEF LogOf
      <3>3. a # b
        BY <3>1, <3>2
      <3>4. IsExecuted(manager[n].instances[a]) /\ IsExecuted(manager[n].instances[b])
        BY <2>1, <3>1 DEF LogOf
      <3>5. Committed(n, a) /\ Committed(n, b)
        BY <3>4 DEF IsExecuted, Committed, Status
      <3>6. ASSUME PrecedesIn(Graph, b, a) PROVE FALSE
        <4>1. PICK q \in DOMAIN log : q < k /\ log[q] = b
          BY <2>1, <3>1, <3>6 DEF OrderedAfter
        <4>2. q = l
          BY <3>1, <3>2, <4>1
        <4> QED  BY <3>1, <3>2, <4>1, <4>2
      <3> QED  BY <3>3, <3>5, <3>6
    <2>3. i # j /\ ~PrecedesIn(Graph, j, i) /\ ~PrecedesIn(Graph, i, j)
      BY <2>2
    <2>4. DependsOn(i, j) \/ DependsOn(j, i)
      BY <1>1, <2>2 DEF GraphLinked
    <2>5. ReachIn(Graph, i, j) \/ ReachIn(Graph, j, i)
      BY <1>1, <2>4, DependsOnIn DEF RInv
    <2>6. i < j \/ j < i
      BY <2>3, InstAssumption
    <2> QED  BY <2>3, <2>5, <2>6 DEF PrecedesIn
  <1> QED  BY OrderInvariance, <1>1, PTL
-----------------------------------------------------------------------------
(***************************************************************************)
(* Part 3: when the committed instances on a key are linked.               *)
(***************************************************************************)
Known(n, i) == manager[n].instances[i] # Nil

\* The leader of i has its dependencies: no later phase changes them
Decided(i) == pc[i] \notin {"idle", "preaccept"}

\* A copy x of i, if there is one, has been pre-accepted by the leader
Started(x, i) == x # Nil => pc[i] # "idle" /\ HasStarted(x)

RowsStarted ==
    /\ \A n \in Node, i \in Inst : Started(manager[n].instances[i], i)
    /\ \A i \in Inst : pc[i] = "preaccept" => Led(i).status = INSTANCE_PREACCEPTED

\* The pre-accept requests for i on their way
PreAccepts(i) == {r \in net : r.type = "PreAccept" /\ r.id = i}

\* A replica gets one pre-accept request for an instance, with the ballot the leader
\* started it at, and other requests only when the instance is decided
RequestsOK ==
    \A r \in net :
        /\ r.to # Leader[r.id]
        /\ Started(r.inst, r.id)
        /\ r.type # "PreAccept" => Decided(r.id)
        /\ r.type = "PreAccept" =>
              /\ r.inst.status = INSTANCE_PREACCEPTED /\ r.inst.ballot = 1
              /\ r.awaited => pc[r.id] = "preaccept"
              /\ \A q \in PreAccepts(r.id) : q.to = r.to => q = r

\* In the pre-accept phase of an instance a replica answers once, after its request
\* was handled, and knows the instance if it accepted
RepliesOK ==
    \A r \in replies :
        /\ pc[r.id] # "idle"
        /\ \A j \in Inst : Started(r.missing[j], j)
        /\ pc[r.id] = "preaccept" =>
              /\ r.from # Leader[r.id]
              /\ r.accepted => Known(r.from, r.id)
              /\ \A q \in PreAccepts(r.id) : q.to # r.from
              /\ \A q \in replies : (q.id = r.id /\ q.from = r.from) => q = r

MessageInv == RowsStarted /\ RequestsOK /\ RepliesOK
-----------------------------------------------------------------------------
\* A leader starts a phase
LEMMA BroadcastMessages ==
    ASSUME IInv, MessageInv, IInv', NobodyBack,
           NEW i \in Inst, NEW p \in Phases, NEW m, NEW awaited \in BOOLEAN,
           NEW type \in {"PreAccept", "Accept", "Commit"},
           m \in ManagerType, HasStarted(m.instances[i]),
           \A j \in Inst \ {i} : m.instances[j] = manager[Leader[i]].instances[j],
           p # "idle",
           type = "PreAccept" => /\ pc[i] = "idle" /\ p = "preaccept"
                                 /\ m.instances[i].status = INSTANCE_PREACCEPTED
                                 /\ m.instances[i].ballot = 1,
           type # "PreAccept" => Decided(i) /\ p # "preaccept",
           manager' = [manager EXCEPT ![Leader[i]] = m],
           pc' = [pc EXCEPT ![i] = p],
           net' = net \cup Broadcast(type, i, m.instances[i], awaited),
           UNCHANGED replies
    PROVE  MessageInv'
  <1> DEFINE l == Leader[i]
             x == m.instances[i]
             sent == Broadcast(type, i, x, awaited)
  <1>1. /\ TypeOK /\ l \in Node /\ RowsStarted /\ RequestsOK /\ RepliesOK
        /\ \A r \in net : r.id \in Inst /\ r.to \in Node /\ r.inst \in Instance
        /\ \A r \in replies : r.id \in Inst /\ r.from \in Node
    BY NodeAssumption DEF IInv, TypeOK, MessageInv, Request, Reply
  <1>2. /\ pc'[i] = p /\ \A j \in Inst : j # i => pc'[j] = pc[j]
        /\ \A j \in Inst : pc[j] # "idle" => pc'[j] # "idle"
        /\ \A j \in Inst : Decided(j) => Decided(j)'
        /\ \A j \in Inst : \A y : Started(y, j) => Started(y, j)'
    BY <1>1 DEF TypeOK, Decided, Started
  <1>3. \A n \in Node, j \in Inst : Known(n, j) => Known(n, j)'
    BY DEF NobodyBack, NeverBack, Known
  <1>4. RowsStarted'
    <2>1. ASSUME NEW n \in Node, NEW j \in Inst
          PROVE  Started(manager[n].instances[j], j)'
      <3>1. CASE n = l /\ j = i
        <4>1. manager'[n].instances[j] = x
          BY <1>1, <3>1 DEF TypeOK
        <4> QED  BY <1>2, <3>1, <4>1 DEF Started
      <3>2. CASE ~(n = l /\ j = i)
        <4>1. manager'[n].instances[j] = manager[n].instances[j]
          BY <1>1, <3>2 DEF TypeOK
        <4>2. Started(manager[n].instances[j], j)
          BY <1>1 DEF RowsStarted
        <4> QED  BY <1>2, <4>1, <4>2 DEF Started
      <3> QED  BY <3>1, <3>2
    <2>2. ASSUME NEW j \in Inst, pc'[j] = "preaccept"
          PROVE  Led(j)'.status = INSTANCE_PREACCEPTED
      <3>1. CASE j = i
        <4>1. Led(i)' = x
          BY <1>1 DEF TypeOK, Led
        <4> QED  BY <1>2, <2>2, <3>1, <4>1
      <3>2. CASE j # i
        <4>1. Led(j)' = Led(j)
          BY <1>1, <3>2 DEF TypeOK, Led
        <4> QED  BY <1>1, <1>2, <2>2, <3>2, <4>1 DEF RowsStarted
      <3> QED  BY <3>1, <3>2
    <2> QED  BY <2>1, <2>2 DEF RowsStarted
  <1>5. \A r \in sent : /\ r.type = type /\ r.to # l /\ r.id = i /\ r.inst = x /\ r.awaited = awaited
                        /\ \A q \in sent : q.to = r.to => q = r
    BY DEF Broadcast, Replicas
  <1>6. pc[i] = "idle" => /\ \A r \in net : r.id # i
                          /\ \A r \in replies : r.id # i
    BY <1>1, NilAssumption DEF RequestsOK, RepliesOK, Started
  <1> HIDE DEF sent, x
  <1>7. RequestsOK'
    <2> SUFFICES ASSUME NEW r \in net'
                 PROVE  /\ r.to # Leader[r.id]
                        /\ Started(r.inst, r.id)'
                        /\ r.type # "PreAccept" => Decided(r.id)'
                        /\ r.type = "PreAccept" =>
                              /\ r.inst.status = INSTANCE_PREACCEPTED /\ r.inst.ballot = 1
                              /\ r.awaited => pc'[r.id] = "preaccept"
                              /\ \A q \in PreAccepts(r.id)' : q.to = r.to => q = r
      BY DEF RequestsOK, Started
    <2>1. CASE r \in sent
      <3>1. Started(x, i)' /\ (type # "PreAccept" => Decided(i)')
        BY <1>2 DEF Started, Decided, x
      <3>2. ASSUME type = "PreAccept", NEW q \in PreAccepts(i)', q.to = r.to
            PROVE  q = r
        BY <1>5, <1>6, <2>1, <3>2 DEF PreAccepts, sent, x
      <3> QED  BY <1>2, <1>5, <2>1, <3>1, <3>2 DEF x, Started
    <2>2. CASE r \in net
      <3>1. /\ r.to # Leader[r.id] /\ Started(r.inst, r.id)'
            /\ r.type # "PreAccept" => Decided(r.id)'
        BY <1>1, <1>2, <2>2 DEF RequestsOK, Started
      <3>2. ASSUME r.type = "PreAccept"
            PROVE  /\ r.inst.status = INSTANCE_PREACCEPTED /\ r.inst.ballot = 1
                   /\ r.awaited => pc'[r.id] = "preaccept"
                   /\ \A q \in PreAccepts(r.id)' : q.to = r.to => q = r
        <4>1. /\ r.inst.status = INSTANCE_PREACCEPTED /\ r.inst.ballot = 1
              /\ r.awaited => pc[r.id] = "preaccept"
              /\ \A q \in PreAccepts(r.id) : q.to = r.to => q = r
          BY <1>1, <2>2, <3>2 DEF RequestsOK
        <4>2. r.awaited => pc'[r.id] = "preaccept"
          BY <1>1, <1>2, <2>2, <4>1 DEF Decided
        <4>3. \A q \in PreAccepts(r.id)' : q \in PreAccepts(r.id)
          BY <1>5, <1>6, <2>2 DEF PreAccepts, sent, x
        <4> QED  BY <4>1, <4>2, <4>3
      <3> QED  BY <3>1, <3>2
    <2> QED  BY <2>1, <2>2 DEF sent, x
  <1>8. RepliesOK'
    <2> SUFFICES ASSUME NEW r \in replies
                 PROVE  /\ pc'[r.id] # "idle"
                        /\ \A j \in Inst : Started(r.missing[j], j)'
                        /\ pc'[r.id] = "preaccept" =>
                              /\ r.from # Leader[r.id]
                              /\ r.accepted => Known(r.from, r.id)'
                              /\ \A q \in PreAccepts(r.id)' : q.to # r.from
                              /\ \A q \in replies : (q.id = r.id /\ q.from = r.from) => q = r
      BY DEF RepliesOK, Started, Known
    <2>1. pc'[r.id] # "idle"
      BY <1>1, <1>2 DEF RepliesOK
    <2>2. \A j \in Inst : Started(r.missing[j], j)'
      BY <1>1, <1>2 DEF RepliesOK, Started
    <2>3. ASSUME pc'[r.id] = "preaccept"
          PROVE  /\ r.from # Leader[r.id]
                 /\ r.accepted => Known(r.from, r.id)'
                 /\ \A q \in PreAccepts(r.id)' : q.to # r.from
                 /\ \A q \in replies : (q.id = r.id /\ q.from = r.from) => q = r
      <3>1. r.id # i /\ pc[r.id] = "preaccept"
        BY <1>1, <1>2, <1>6, <2>3 DEF Decided
      <3>2. PreAccepts(r.id)' = PreAccepts(r.id)
        BY <1>5, <3>1 DEF PreAccepts, sent, x
      <3> QED  BY <1>1, <1>3, <3>1, <3>2 DEF RepliesOK
    <2> QED  BY <2>1, <2>2, <2>3
  <1> QED  BY <1>4, <1>7, <1>8 DEF MessageInv

\* A leader stops waiting for replies
LEMMA EndWaitMessages ==
    ASSUME IInv, MessageInv, NobodyBack,
           NEW i \in Inst, NEW p \in {"mustAccept", "mustCommit"}, NEW m,
           pc[i] \in {"preaccept", "accept"},
           m \in ManagerType, HasStarted(m.instances[i]),
           \A j \in Inst \ {i} : \/ m.instances[j] = manager[Leader[i]].instances[j]
                                 \/ /\ manager[Leader[i]].instances[j] = Nil
                                    /\ Started(m.instances[j], j),
           EndWait(i, p, m)
    PROVE  MessageInv'
  <1> DEFINE l == Leader[i]
  <1>1. /\ TypeOK /\ PhaseInv /\ l \in Node /\ RowsStarted /\ RequestsOK /\ RepliesOK
        /\ net \subseteq Request
        /\ \A r \in net : r.id \in Inst /\ r.to \in Node
        /\ \A r \in replies : r.id \in Inst /\ r.from \in Node
    BY NodeAssumption DEF IInv, TypeOK, MessageInv, Request, Reply
  <1>2. /\ pc' = [pc EXCEPT ![i] = p] /\ manager' = [manager EXCEPT ![l] = m]
        /\ net' = Unawaited(i) /\ replies' = replies \ RepliesTo(i)
    BY DEF EndWait
  <1>3. /\ pc'[i] = p /\ \A j \in Inst : j # i => pc'[j] = pc[j]
        /\ \A j \in Inst : pc[j] # "idle" => pc'[j] # "idle"
        /\ \A j \in Inst : Decided(j) => Decided(j)'
        /\ \A j \in Inst : \A y : Started(y, j) => Started(y, j)'
    BY <1>1, <1>2 DEF TypeOK, Decided, Started
  <1>4. \A n \in Node, j \in Inst : Known(n, j) => Known(n, j)'
    BY DEF NobodyBack, NeverBack, Known
  <1>5. \A r \in net' : \E q \in net :
            /\ r.type = q.type /\ r.to = q.to /\ r.id = q.id /\ r.inst = q.inst
            /\ r.awaited => r.id # i /\ q.awaited
            /\ r = IF q.id = i THEN [q EXCEPT !.awaited = FALSE] ELSE q
    BY <1>1, <1>2 DEF Unawaited, Request
  <1>6. RowsStarted'
    <2>1. ASSUME NEW n \in Node, NEW j \in Inst
          PROVE  Started(manager[n].instances[j], j)'
      <3>1. CASE n = l /\ j = i
        <4>1. manager'[n].instances[j] = m.instances[i]
          BY <1>1, <1>2, <3>1 DEF TypeOK
        <4> QED  BY <1>3, <3>1, <4>1 DEF Started
      <3>2. CASE n = l /\ j # i
        <4>1. manager'[n].instances[j] = m.instances[j]
          BY <1>1, <1>2, <3>2 DEF TypeOK
        <4>2. Started(m.instances[j], j)
          BY <1>1, <3>2 DEF RowsStarted
        <4> QED  BY <1>3, <4>1, <4>2 DEF Started
      <3>3. CASE n # l
        <4>1. manager'[n].instances[j] = manager[n].instances[j]
          BY <1>1, <1>2, <3>3 DEF TypeOK
        <4>2. Started(manager[n].instances[j], j)
          BY <1>1 DEF RowsStarted
        <4> QED  BY <1>3, <4>1, <4>2 DEF Started
      <3> QED  BY <3>1, <3>2, <3>3
    <2>2. ASSUME NEW j \in Inst, pc'[j] = "preaccept"
          PROVE  Led(j)'.status = INSTANCE_PREACCEPTED
      <3>1. j # i /\ pc[j] = "preaccept" /\ Led(j) # Nil /\ Leader[j] \in Node
        BY <1>1, <1>3, <2>2, NodeAssumption DEF PhaseInv
      <3>2. Led(j)' = Led(j)
        BY <1>1, <1>2, <3>1 DEF TypeOK, Led
      <3> QED  BY <1>1, <3>1, <3>2 DEF RowsStarted
    <2> QED  BY <2>1, <2>2 DEF RowsStarted
  <1>7. RequestsOK'
    <2> SUFFICES ASSUME NEW r \in net'
                 PROVE  /\ r.to # Leader[r.id]
                        /\ Started(r.inst, r.id)'
                        /\ r.type # "PreAccept" => Decided(r.id)'
                        /\ r.type = "PreAccept" =>
                              /\ r.inst.status = INSTANCE_PREACCEPTED /\ r.inst.ballot = 1
                              /\ r.awaited => pc'[r.id] = "preaccept"
                              /\ \A q \in PreAccepts(r.id)' : q.to = r.to => q = r
      BY DEF RequestsOK, Started
    <2>1. PICK q \in net :
            /\ r.type = q.type /\ r.to = q.to /\ r.id = q.id /\ r.inst = q.inst
            /\ r.awaited => r.id # i /\ q.awaited
            /\ r = IF q.id = i THEN [q EXCEPT !.awaited = FALSE] ELSE q
      BY <1>5
    <2>2. /\ r.to # Leader[r.id] /\ Started(r.inst, r.id)'
          /\ r.type # "PreAccept" => Decided(r.id)'
      BY <1>1, <1>3, <2>1 DEF RequestsOK, Started
    <2>3. ASSUME r.type = "PreAccept"
          PROVE  /\ r.inst.status = INSTANCE_PREACCEPTED /\ r.inst.ballot = 1
                 /\ r.awaited => pc'[r.id] = "preaccept"
                 /\ \A q2 \in PreAccepts(r.id)' : q2.to = r.to => q2 = r
      <3>1. /\ r.inst.status = INSTANCE_PREACCEPTED /\ r.inst.ballot = 1
            /\ r.awaited => pc[r.id] = "preaccept" /\ r.id # i
            /\ \A q2 \in PreAccepts(r.id) : q2.to = r.to => q2 = q
        BY <1>1, <2>1, <2>3 DEF RequestsOK
      <3>2. r.awaited => pc'[r.id] = "preaccept"
        BY <1>1, <1>3, <2>1, <3>1
      <3>3. ASSUME NEW q2 \in PreAccepts(r.id)', q2.to = r.to
            PROVE  q2 = r
        <4>1. PICK q3 \in net :
                /\ q2.type = q3.type /\ q2.to = q3.to /\ q2.id = q3.id
                /\ q2 = IF q3.id = i THEN [q3 EXCEPT !.awaited = FALSE] ELSE q3
          BY <1>5, <3>3 DEF PreAccepts
        <4>2. q3 = q
          BY <3>1, <3>3, <4>1 DEF PreAccepts
        <4> QED  BY <2>1, <4>1, <4>2
      <3> QED  BY <3>1, <3>2, <3>3
    <2> QED  BY <2>2, <2>3
  <1>8. RepliesOK'
    <2> SUFFICES ASSUME NEW r \in replies'
                 PROVE  /\ pc'[r.id] # "idle"
                        /\ \A j \in Inst : Started(r.missing[j], j)'
                        /\ pc'[r.id] = "preaccept" =>
                              /\ r.from # Leader[r.id]
                              /\ r.accepted => Known(r.from, r.id)'
                              /\ \A q \in PreAccepts(r.id)' : q.to # r.from
                              /\ \A q \in replies' : (q.id = r.id /\ q.from = r.from) => q = r
      BY DEF RepliesOK, Started, Known
    <2>1. r \in replies /\ replies' \subseteq replies
      BY <1>2
    <2>2. pc'[r.id] # "idle"
      BY <1>1, <1>3, <2>1 DEF RepliesOK
    <2>3. \A j \in Inst : Started(r.missing[j], j)'
      BY <1>1, <1>3, <2>1 DEF RepliesOK, Started
    <2>4. ASSUME pc'[r.id] = "preaccept"
          PROVE  /\ r.from # Leader[r.id]
                 /\ r.accepted => Known(r.from, r.id)'
                 /\ \A q \in PreAccepts(r.id)' : q.to # r.from
                 /\ \A q \in replies' : (q.id = r.id /\ q.from = r.from) => q = r
      <3>1. r.id # i /\ pc[r.id] = "preaccept" /\ r.id \in Inst /\ r.from \in Node
        BY <1>1, <1>3, <2>1, <2>4
      <3>2. /\ r.from # Leader[r.id]
            /\ r.accepted => Known(r.from, r.id)
            /\ \A q \in PreAccepts(r.id) : q.to # r.from
            /\ \A q \in replies : (q.id = r.id /\ q.from = r.from) => q = r
        BY <1>1, <2>1, <3>1 DEF RepliesOK
      <3>3. \A q \in PreAccepts(r.id)' : q.to # r.from
        <4> TAKE q \in PreAccepts(r.id)'
        <4>1. PICK q2 \in net : q.type = q2.type /\ q.to = q2.to /\ q.id = q2.id
          BY <1>5 DEF PreAccepts
        <4>2. q2 \in PreAccepts(r.id)
          BY <4>1 DEF PreAccepts
        <4> QED  BY <3>2, <4>1, <4>2
      <3> QED  BY <1>4, <2>1, <3>1, <3>2, <3>3
    <2> QED  BY <2>2, <2>3, <2>4
  <1> QED  BY <1>6, <1>7, <1>8 DEF MessageInv

\* A replica handles a request
LEMMA HandledMessages ==
    ASSUME IInv, MessageInv, NobodyBack,
           NEW r \in net, NEW m, NEW Sent,
           m \in ManagerType, HasStarted(m.instances[r.id]),
           \A j \in Inst \ {r.id} : m.instances[j] = manager[r.to].instances[j],
           \A a \in Sent : /\ a.id = r.id /\ a.from = r.to
                           /\ \A j \in Inst : a.missing[j] \in {Nil, m.instances[j]}
                           /\ \A b \in Sent : a = b,
           m.instances[r.id] # Nil,
           Handled(r, m, Sent)
    PROVE  MessageInv'
  <1>1. /\ TypeOK /\ RowsStarted /\ RequestsOK /\ RepliesOK
        /\ r.to \in Node /\ r.id \in Inst /\ r.awaited \in BOOLEAN
        /\ \A q \in net : q.id \in Inst /\ q.inst \in Instance
        /\ \A q \in replies : q.id \in Inst /\ q.from \in Node
    BY DEF IInv, TypeOK, MessageInv, Request, Reply
  <1>2. /\ pc' = pc /\ manager' = [manager EXCEPT ![r.to] = m]
        /\ net' = net \ {r}
        /\ replies' = replies \cup (IF r.awaited THEN Sent ELSE {})
    BY DEF Handled
  <1>3. \A j \in Inst : \A y : Started(y, j)' <=> Started(y, j)
    BY <1>2 DEF Started
  <1>4. \A n \in Node, j \in Inst : Known(n, j) => Known(n, j)'
    BY DEF NobodyBack, NeverBack, Known
  <1>5. /\ r.to # Leader[r.id] /\ pc[r.id] # "idle"
        /\ r.type # "PreAccept" => Decided(r.id)
        /\ r.type = "PreAccept" => /\ r.awaited => pc[r.id] = "preaccept"
                                   /\ \A q \in PreAccepts(r.id) : q.to = r.to => q = r
    BY <1>1, NilAssumption DEF RequestsOK, Started
  <1>6. \A j \in Inst : Started(m.instances[j], j)
    <2> TAKE j \in Inst
    <2>1. CASE j = r.id
      BY <1>5, <2>1 DEF Started
    <2>2. CASE j # r.id
      BY <1>1, <2>2 DEF RowsStarted
    <2> QED  BY <2>1, <2>2
  <1>7. RowsStarted'
    <2>1. ASSUME NEW n \in Node, NEW j \in Inst
          PROVE  Started(manager[n].instances[j], j)'
      <3>1. manager'[n].instances[j] \in {manager[n].instances[j], m.instances[j]}
        BY <1>1, <1>2 DEF TypeOK
      <3>2. Started(manager'[n].instances[j], j)
        BY <1>1, <1>6, <3>1 DEF RowsStarted
      <3> QED  BY <1>2, <3>2 DEF Started
    <2>2. ASSUME NEW j \in Inst, pc'[j] = "preaccept"
          PROVE  Led(j)'.status = INSTANCE_PREACCEPTED
      <3>1. Led(j)' = Led(j)
        BY <1>1, <1>2, <1>5 DEF TypeOK, Led
      <3> QED  BY <1>1, <1>2, <2>2, <3>1 DEF RowsStarted
    <2> QED  BY <2>1, <2>2 DEF RowsStarted
  <1>8. RequestsOK'
    <2>1. \A i \in Inst : PreAccepts(i)' \subseteq PreAccepts(i)
      BY <1>2 DEF PreAccepts
    <2> QED  BY <1>1, <1>2, <2>1 DEF RequestsOK, Decided, Started
  <1>9. RepliesOK'
    <2> SUFFICES ASSUME NEW a \in replies'
                 PROVE  /\ pc[a.id] # "idle"
                        /\ \A j \in Inst : Started(a.missing[j], j)
                        /\ pc[a.id] = "preaccept" =>
                              /\ a.from # Leader[a.id]
                              /\ a.accepted => Known(a.from, a.id)'
                              /\ \A q \in PreAccepts(a.id)' : q.to # a.from
                              /\ \A q \in replies' : (q.id = a.id /\ q.from = a.from) => q = a
      BY <1>2 DEF RepliesOK, Started, Known
    <2>0. \A i \in Inst : PreAccepts(i)' = PreAccepts(i) \ {r}
      BY <1>2 DEF PreAccepts
    <2>1. \A b \in replies : (b.id = r.id /\ pc[r.id] = "preaccept") => b.from # r.to
      <3> SUFFICES ASSUME NEW b \in replies, b.id = r.id, pc[r.id] = "preaccept"
                   PROVE  b.from # r.to
        OBVIOUS
      <3>1. r \in PreAccepts(b.id)
        BY <1>5 DEF PreAccepts, Decided
      <3> QED  BY <1>1, <3>1 DEF RepliesOK
    <2>2. CASE a \in replies
      <3>1. /\ pc[a.id] # "idle"
            /\ \A j \in Inst : Started(a.missing[j], j)
        BY <1>1, <2>2 DEF RepliesOK
      <3>2. ASSUME pc[a.id] = "preaccept"
            PROVE  /\ a.from # Leader[a.id]
                   /\ a.accepted => Known(a.from, a.id)'
                   /\ \A q \in PreAccepts(a.id)' : q.to # a.from
                   /\ \A q \in replies' : (q.id = a.id /\ q.from = a.from) => q = a
        <4>1. /\ a.from # Leader[a.id]
              /\ a.accepted => Known(a.from, a.id)
              /\ \A q \in PreAccepts(a.id) : q.to # a.from
              /\ \A q \in replies : (q.id = a.id /\ q.from = a.from) => q = a
          BY <1>1, <2>2, <3>2 DEF RepliesOK
        <4>2. \A q \in Sent : ~(q.id = a.id /\ q.from = a.from)
          BY <2>1, <2>2, <3>2
        <4> QED  BY <1>1, <1>2, <1>4, <2>0, <2>2, <4>1, <4>2
      <3> QED  BY <3>1, <3>2
    <2>3. CASE a \in Sent /\ r.awaited
      <3>1. a.id = r.id /\ a.from = r.to /\ \A j \in Inst : Started(a.missing[j], j)
        BY <1>6, <2>3 DEF Started
      <3>2. Known(r.to, r.id)'
        BY <1>1, <1>2 DEF TypeOK, Known
      <3>3. ASSUME pc[r.id] = "preaccept"
            PROVE  /\ \A q \in PreAccepts(r.id)' : q.to # r.to
                   /\ \A q \in replies' : (q.id = r.id /\ q.from = r.to) => q = a
        <4>1. r.type = "PreAccept"
          BY <1>5, <3>3 DEF Decided
        <4> QED  BY <1>1, <1>2, <1>5, <2>0, <2>1, <2>3, <3>3, <4>1
      <3> QED  BY <1>5, <3>1, <3>2, <3>3
    <2> QED  BY <1>2, <2>2, <2>3
  <1> QED  BY <1>7, <1>8, <1>9 DEF MessageInv

\* A leader past its commit goes on; it may execute an instance
LEMMA LocalMessages ==
    ASSUME IInv, MessageInv, NobodyBack,
           \A j \in Inst : pc'[j] # pc[j] => Decided(j) /\ Decided(j)',
           \A n \in Node, j \in Inst :
               \/ manager'[n].instances[j] = manager[n].instances[j]
               \/ HasStarted(manager'[n].instances[j]) /\ Decided(j),
           UNCHANGED <<net, replies>>
    PROVE  MessageInv'
  <1>1. /\ RowsStarted /\ RequestsOK /\ RepliesOK
        /\ \A q \in net : q.id \in Inst
        /\ \A q \in replies : q.id \in Inst /\ q.from \in Node
    BY DEF IInv, TypeOK, MessageInv, Request, Reply
  <1>2. /\ \A j \in Inst : Decided(j)' <=> Decided(j)
        /\ \A j \in Inst : pc'[j] = "preaccept" <=> pc[j] = "preaccept"
        /\ \A j \in Inst : pc'[j] = "idle" <=> pc[j] = "idle"
        /\ \A j \in Inst : \A y : Started(y, j)' <=> Started(y, j)
        /\ \A j \in Inst : PreAccepts(j)' = PreAccepts(j)
    BY DEF Decided, Started, PreAccepts
  <1>3. \A n \in Node, j \in Inst : Known(n, j) => Known(n, j)'
    BY DEF NobodyBack, NeverBack, Known
  <1>4. RowsStarted'
    <2>1. ASSUME NEW n \in Node, NEW j \in Inst
          PROVE  Started(manager[n].instances[j], j)'
      BY <1>1, <1>2 DEF RowsStarted, Started, Decided
    <2>2. ASSUME NEW j \in Inst, pc'[j] = "preaccept"
          PROVE  Led(j)'.status = INSTANCE_PREACCEPTED
      BY <1>1, <1>2, <2>2, NodeAssumption DEF RowsStarted, Led, Decided
    <2> QED  BY <2>1, <2>2 DEF RowsStarted
  <1>5. RequestsOK'
    BY <1>1, <1>2 DEF RequestsOK, Started
  <1>6. RepliesOK'
    <2> SUFFICES ASSUME NEW a \in replies
                 PROVE  /\ pc'[a.id] # "idle"
                        /\ \A j \in Inst : Started(a.missing[j], j)'
                        /\ pc'[a.id] = "preaccept" =>
                              /\ a.from # Leader[a.id]
                              /\ a.accepted => Known(a.from, a.id)'
                              /\ \A q \in PreAccepts(a.id)' : q.to # a.from
                              /\ \A q \in replies : (q.id = a.id /\ q.from = a.from) => q = a
      BY DEF RepliesOK, Started, Known
    <2> QED  BY <1>1, <1>2, <1>3 DEF RepliesOK, Started
  <1> QED  BY <1>4, <1>5, <1>6 DEF MessageInv
-----------------------------------------------------------------------------
\* The dependencies node n has answered with while i is being pre-accepted
AnswersOf(n, i) ==
    IF pc[i] # "preaccept" THEN {}
    ELSE IF n = Leader[i] THEN {Led(i).deps}
    ELSE {r.deps : r \in {q \in replies : q.id = i /\ q.from = n /\ q.accepted}}

\* Two queries on one key
Rivals(i, j) == i # j /\ KeyOf[i] = KeyOf[j]

\* Of two instances a node has answered for, it answered for one knowing the other
AnswersLinked ==
    \A n \in Node : \A i, j \in Inst : Rivals(i, j) =>
        \A A \in AnswersOf(n, i), B \in AnswersOf(n, j) : i \in B \/ j \in A

\* Node n knows i, and what it answers for any other instance is linked with i
SeenAt(n, i) ==
    /\ Known(n, i)
    /\ \A j \in Inst : Rivals(i, j) => \A B \in AnswersOf(n, j) : i \in B \/ j \in Led(i).deps

\* A quorum has seen each decided instance: the next one's quorum meets it
DecidedSeen ==
    \A i \in Inst : Decided(i) =>
        \E Q \in SUBSET Node : Cardinality(Q) = QuorumSize /\ \A n \in Q : SeenAt(n, i)

\* Of two decided instances on a key one depends on the other
DecidedLinked ==
    \A i, j \in Inst : (Rivals(i, j) /\ Decided(i) /\ Decided(j)) =>
        i \in Led(j).deps \/ j \in Led(i).deps

LinkInv == AnswersLinked /\ DecidedSeen /\ DecidedLinked

\* A step that decides nothing: no answer changes, but for new ones for the instance
\* j0, which hold all the node knows
AnswerStep(j0) ==
    /\ \A n \in Node, j \in Inst : \A A \in AnswersOf(n, j)' :
          \/ A \in AnswersOf(n, j)
          \/ j = j0 /\ \A k \in Inst : (Known(n, k) /\ Rivals(k, j)) => k \in A
    /\ \A j \in Inst : Decided(j)' => Decided(j) /\ Led(j)'.deps = Led(j).deps

\* Who has answered knows the instance
LEMMA AnswerKnown ==
    ASSUME IInv, MessageInv, NEW n \in Node, NEW i \in Inst, NEW A \in AnswersOf(n, i)
    PROVE  Known(n, i)
  <1>1. pc[i] = "preaccept"
    BY DEF AnswersOf
  <1>2. CASE n = Leader[i]
    BY <1>1, <1>2 DEF IInv, PhaseInv, Led, Known
  <1>3. CASE n # Leader[i]
    <2>1. PICK r \in replies : r.id = i /\ r.from = n /\ r.accepted
      BY <1>1, <1>3 DEF AnswersOf
    <2> QED  BY <1>1, <2>1 DEF MessageInv, RepliesOK
  <1> QED  BY <1>2, <1>3

\* so a step that decides nothing keeps everything linked
LEMMA AnswerLinks ==
    ASSUME IInv, MessageInv, LinkInv, NobodyBack, NEW j0 \in Inst, AnswerStep(j0)
    PROVE  LinkInv'
  <1>1. \A n \in Node, j \in Inst : Known(n, j) => Known(n, j)'
    BY DEF NobodyBack, NeverBack, Known
  <1>2. AnswersLinked'
    <2> SUFFICES ASSUME NEW n \in Node, NEW i \in Inst, NEW j \in Inst, Rivals(i, j),
                        NEW A \in AnswersOf(n, i)', NEW B \in AnswersOf(n, j)'
                 PROVE  i \in B \/ j \in A
      BY DEF AnswersLinked, Rivals
    <2>1. CASE A \in AnswersOf(n, i) /\ B \in AnswersOf(n, j)
      BY <2>1 DEF LinkInv, AnswersLinked
    <2>2. CASE A \in AnswersOf(n, i) /\ B \notin AnswersOf(n, j)
      BY <2>2, AnswerKnown DEF AnswerStep
    <2>3. CASE A \notin AnswersOf(n, i) /\ B \in AnswersOf(n, j)
      <3>1. Known(n, j) /\ Rivals(j, i)
        BY <2>3, AnswerKnown DEF Rivals
      <3> QED  BY <2>3, <3>1 DEF AnswerStep
    <2>4. CASE A \notin AnswersOf(n, i) /\ B \notin AnswersOf(n, j)
      BY <2>4 DEF AnswerStep, Rivals
    <2> QED  BY <2>1, <2>2, <2>3, <2>4
  <1>3. DecidedSeen'
    <2> SUFFICES ASSUME NEW i \in Inst, Decided(i)'
                 PROVE  \E Q \in SUBSET Node : /\ Cardinality(Q) = QuorumSize
                                               /\ \A n \in Q : SeenAt(n, i)'
      BY DEF DecidedSeen, QuorumSize
    <2>1. Decided(i) /\ Led(i)'.deps = Led(i).deps
      BY DEF AnswerStep
    <2>2. PICK Q \in SUBSET Node : Cardinality(Q) = QuorumSize /\ \A n \in Q : SeenAt(n, i)
      BY <2>1 DEF LinkInv, DecidedSeen
    <2>3. ASSUME NEW n \in Q PROVE SeenAt(n, i)'
      <3>1. SeenAt(n, i) /\ Known(n, i) /\ Known(n, i)'
        BY <1>1, <2>2 DEF SeenAt
      <3>2. ASSUME NEW j \in Inst, Rivals(i, j), NEW B \in AnswersOf(n, j)'
            PROVE  i \in B \/ j \in Led(i)'.deps
        <4>1. CASE B \in AnswersOf(n, j)
          BY <2>1, <3>1, <3>2, <4>1 DEF SeenAt
        <4>2. CASE B \notin AnswersOf(n, j)
          BY <3>1, <3>2, <4>2 DEF AnswerStep
        <4> QED  BY <4>1, <4>2
      <3> QED  BY <3>1, <3>2 DEF SeenAt, Rivals
    <2> QED  BY <2>2, <2>3
  <1>4. DecidedLinked'
    BY DEF DecidedLinked, LinkInv, AnswerStep, Rivals
  <1> QED  BY <1>2, <1>3, <1>4 DEF LinkInv

\* The answers for an instance nothing happens to
LEMMA KeptAnswers ==
    ASSUME NEW j \in Inst,
           pc'[j] = "preaccept" => /\ pc[j] = "preaccept" /\ Led(j)'.deps = Led(j).deps
                                   /\ \A r \in replies' : r.id = j => r \in replies
    PROVE  \A n \in Node : AnswersOf(n, j)' \subseteq AnswersOf(n, j)
  BY DEF AnswersOf

\* QuorumSize is a majority when the number of nodes is odd, and only then
LEMMA QuorumsMeet ==
    ASSUME Cardinality(Node) % 2 = 1, NEW P \in SUBSET Node, NEW Q \in SUBSET Node,
           Cardinality(P) = QuorumSize, Cardinality(Q) = QuorumSize
    PROVE  P \cap Q # {}
  <1>1. IsFiniteSet(Node) /\ Cardinality(Node) \in Nat
    BY NodeAssumption, FS_CardinalityType
  <1>2. QuorumSize + QuorumSize > Cardinality(Node)
    BY <1>1 DEF QuorumSize
  <1>3. Cardinality(P) + Cardinality(Q) > Cardinality(Node)
    BY <1>2
  <1> QED  BY <1>1, <1>3, FS_MajoritiesIntersect

\* The replies a leader goes on with come from one node each: with the leader a quorum
LEMMA QuorumOfReplies ==
    ASSUME IInv, MessageInv, NEW i \in Inst, pc[i] = "preaccept", NEW R \in QuorumsOf(i)
    PROVE  LET Q == {r.from : r \in R} \cup {Leader[i]}
           IN  Q \in SUBSET Node /\ Cardinality(Q) = QuorumSize
  <1> DEFINE F == {r.from : r \in R}
             f == [r \in R |-> r.from]
  <1>1. /\ R \subseteq replies /\ \A r \in R : r.id = i
        /\ Cardinality(R) = QuorumSize - 1
    BY DEF QuorumsOf, RepliesTo
  <1>2. /\ \A r \in R : r.from \in Node /\ r.from # Leader[i]
        /\ \A r, q \in R : r.from = q.from => r = q
    BY <1>1 DEF IInv, TypeOK, Reply, MessageInv, RepliesOK
  <1>3. F \subseteq Node /\ IsFiniteSet(F) /\ Leader[i] \in Node /\ Leader[i] \notin F
    BY <1>2, NodeAssumption, FS_Subset
  <1>4. f \in Injection(R, F) /\ f \in Surjection(R, F)
    BY <1>2 DEF Injection, Surjection, IsInjective
  <1>5. Cardinality(F) = Cardinality(R)
    BY <1>3, <1>4, FS_Injection
  <1>6. Cardinality(F \cup {Leader[i]}) = Cardinality(F) + 1
    BY <1>3, FS_AddElement
  <1>7. QuorumSize \in Int
    BY NodeAssumption, FS_CardinalityType DEF QuorumSize
  <1> QED  BY <1>1, <1>3, <1>5, <1>6, <1>7

\* A step that decides i, with the answers of a quorum merged
LEMMA DecideLinks ==
    ASSUME IInv, MessageInv, LinkInv, NobodyBack, Cardinality(Node) % 2 = 1,
           NEW i \in Inst, NEW Q \in SUBSET Node, Cardinality(Q) = QuorumSize,
           pc'[i] # "preaccept",
           \A n \in Q : \E A \in AnswersOf(n, i) : A \subseteq Led(i)'.deps,
           \A n \in Node, j \in Inst : AnswersOf(n, j)' \subseteq AnswersOf(n, j),
           \A j \in Inst \ {i} : Decided(j)' => Decided(j) /\ Led(j)'.deps = Led(j).deps
    PROVE  LinkInv'
  <1>1. \A n \in Node, j \in Inst : Known(n, j) => Known(n, j)'
    BY DEF NobodyBack, NeverBack, Known
  <1>2. AnswersLinked'
    BY DEF LinkInv, AnswersLinked, Rivals
  <1>3. \A n \in Q : SeenAt(n, i)'
    <2> TAKE n \in Q
    <2>1. PICK A \in AnswersOf(n, i) : A \subseteq Led(i)'.deps
      OBVIOUS
    <2>2. Known(n, i)'
      BY <1>1, <2>1, AnswerKnown
    <2>3. ASSUME NEW j \in Inst, Rivals(i, j), NEW B \in AnswersOf(n, j)'
          PROVE  i \in B \/ j \in Led(i)'.deps
      BY <2>1, <2>3 DEF LinkInv, AnswersLinked
    <2> QED  BY <2>2, <2>3 DEF SeenAt, Rivals
  <1>4. DecidedSeen'
    <2> SUFFICES ASSUME NEW j \in Inst, Decided(j)'
                 PROVE  \E P \in SUBSET Node : /\ Cardinality(P) = QuorumSize
                                               /\ \A n \in P : SeenAt(n, j)'
      BY DEF DecidedSeen, QuorumSize
    <2>1. CASE j = i
      BY <1>3, <2>1
    <2>2. CASE j # i
      <3>1. Decided(j) /\ Led(j)'.deps = Led(j).deps
        BY <2>2
      <3>2. PICK P \in SUBSET Node : Cardinality(P) = QuorumSize /\ \A n \in P : SeenAt(n, j)
        BY <3>1 DEF LinkInv, DecidedSeen
      <3>3. \A n \in P : SeenAt(n, j)'
        BY <1>1, <3>1, <3>2 DEF SeenAt, Rivals
      <3> QED  BY <3>2, <3>3
    <2> QED  BY <2>1, <2>2
  <1>5. ASSUME NEW j \in Inst, Rivals(i, j), Decided(j)'
        PROVE  i \in Led(j)'.deps \/ j \in Led(i)'.deps
    <2>1. j # i /\ Rivals(j, i)
      BY <1>5 DEF Rivals
    <2>2. Decided(j) /\ Led(j)'.deps = Led(j).deps
      BY <1>5, <2>1
    <2>3. PICK P \in SUBSET Node : Cardinality(P) = QuorumSize /\ \A n \in P : SeenAt(n, j)
      BY <2>2 DEF LinkInv, DecidedSeen
    <2>4. PICK n \in P : n \in Q
      BY <2>3, QuorumsMeet
    <2>5. PICK A \in AnswersOf(n, i) : A \subseteq Led(i)'.deps
      BY <2>4
    <2>6. j \in A \/ i \in Led(j).deps
      BY <2>1, <2>3, <2>5 DEF SeenAt
    <2> QED  BY <2>2, <2>5, <2>6
  <1>6. DecidedLinked'
    <2> SUFFICES ASSUME NEW j \in Inst, NEW k \in Inst, Rivals(j, k), Decided(j)', Decided(k)'
                 PROVE  j \in Led(k)'.deps \/ k \in Led(j)'.deps
      BY DEF DecidedLinked, Rivals
    <2>1. CASE j = i
      BY <1>5, <2>1
    <2>2. CASE k = i
      BY <1>5, <2>2 DEF Rivals
    <2>3. CASE j # i /\ k # i
      BY <2>3 DEF LinkInv, DecidedLinked
    <2> QED  BY <2>1, <2>2, <2>3
  <1> QED  BY <1>2, <1>4, <1>6 DEF LinkInv
-----------------------------------------------------------------------------
\* No node has forgotten an instance it knows (dependencies.GetAndSetDeps drops what
\* is executed and acknowledged)
Remembered ==
    \A n \in Node, i \in Inst : Known(n, i) => i \in manager[n].depsMngr[KeyOf[i]].writes

\* A pre-accept phase ends only with a quorum of replies that all accept
AllPreAccepted ==
    \A i \in Inst : (pc[i] = "preaccept" /\ pc'[i] # "preaccept") => PreAcceptQuorum(i)

LinkedInv == MessageInv /\ LinkInv

\* Any two instances committed on a key, one is a dependency of the other
DirectLinks ==
    \A i, j \in Inst :
        (/\ i # j
         /\ KeyOf[i] = KeyOf[j]
         /\ \E n \in Node : Committed(n, i)
         /\ \E n \in Node : Committed(n, j))
        => i \in CommittedDeps(j) \/ j \in CommittedDeps(i)

LEMMA StartPreAcceptLinks ==
    ASSUME IInv, LinkedInv, Remembered, NEW i \in Inst, StartPreAccept(i)
    PROVE  LinkedInv'
  <1> DEFINE l == Leader[i]
             m == preAcceptInstance(manager[l], i, makeInstance, TRUE)
  <1>1. /\ TypeOK /\ PhaseInv /\ l \in Node /\ manager[l] \in ManagerType
        /\ IInv' /\ NobodyBack /\ MessageInv /\ LinkInv
    BY NodeAssumption, StartPreAcceptStep DEF IInv, TypeOK, LinkedInv
  <1>2. /\ pc[i] = "idle"
        /\ manager' = [manager EXCEPT ![l] = m]
        /\ net' = net \cup Broadcast("PreAccept", i, m.instances[i], TRUE)
        /\ pc' = [pc EXCEPT ![i] = "preaccept"]
        /\ UNCHANGED replies
    BY DEF StartPreAccept
  <1>3. makeInstance \in Instance /\ makeInstance.status = 0 /\ makeInstance.ballot = 0
    BY DEF makeInstance, Instance
  <1>4. manager[l].instances[i] = Nil
    BY <1>1, <1>2 DEF MessageInv, RowsStarted, Started
  <1>5. /\ m.instances[i].status = INSTANCE_PREACCEPTED
        /\ m.instances[i].ballot = 1
        /\ manager[l].depsMngr[KeyOf[i]].writes \ {i} \subseteq m.instances[i].deps
    <2>1. makeInstance.status <= INSTANCE_PREACCEPTED /\ TRUE \in BOOLEAN
      BY <1>3
    <2>2. makeInstance.ballot + (IF TRUE THEN 1 ELSE 0) = 1
      BY <1>3
    <2> QED  BY <1>1, <1>3, <1>4, <2>1, <2>2, PreAcceptRow
  <1>6. m \in ManagerType /\ \A j \in Inst \ {i} : m.instances[j] = manager[l].instances[j]
    BY <1>1, <1>3, PreAcceptLearns DEF Learns
  <1> HIDE DEF m
  <1>7. HasStarted(m.instances[i]) /\ "preaccept" \in Phases /\ TRUE \in BOOLEAN
    BY <1>5 DEF HasStarted, Phases
  <1>8. MessageInv'
    <2> DEFINE type == "PreAccept"
               p == "preaccept"
               awaited == TRUE
    <2>1. /\ type \in {"PreAccept", "Accept", "Commit"} /\ p \in Phases /\ awaited \in BOOLEAN
          /\ p # "idle"
          /\ type = "PreAccept" => /\ pc[i] = "idle" /\ p = "preaccept"
                                   /\ m.instances[i].status = INSTANCE_PREACCEPTED
                                   /\ m.instances[i].ballot = 1
          /\ type # "PreAccept" => Decided(i) /\ p # "preaccept"
          /\ pc' = [pc EXCEPT ![i] = p]
          /\ net' = net \cup Broadcast(type, i, m.instances[i], awaited)
      BY <1>2, <1>5, <1>7
    <2>2. /\ IInv' /\ MessageInv /\ NobodyBack /\ m \in ManagerType
          /\ HasStarted(m.instances[i])
          /\ \A j \in Inst \ {i} : m.instances[j] = manager[Leader[i]].instances[j]
          /\ manager' = [manager EXCEPT ![Leader[i]] = m] /\ UNCHANGED replies
      BY <1>1, <1>2, <1>6, <1>7
    <2> HIDE DEF type, p, awaited, l
    <2> QED  BY <2>1, <2>2, BroadcastMessages
  <1>9. AnswerStep(i)
    <2>1. ASSUME NEW j \in Inst, j # i
          PROVE  /\ pc'[j] = pc[j] /\ Led(j)' = Led(j)
                 /\ \A n \in Node : AnswersOf(n, j)' \subseteq AnswersOf(n, j)
      <3>1. pc'[j] = pc[j] /\ Led(j)' = Led(j)
        BY <1>1, <1>2, <1>6, <2>1 DEF TypeOK, Led
      <3> QED  BY <1>2, <3>1, KeptAnswers
    <2>2. ASSUME NEW n \in Node, NEW A \in AnswersOf(n, i)', NEW k \in Inst,
                 Known(n, k), Rivals(k, i)
          PROVE  k \in A
      <3>1. CASE n = l
        <4>1. pc'[i] = "preaccept" /\ Led(i)' = m.instances[i]
          BY <1>1, <1>2 DEF TypeOK, Led
        <4>2. A = m.instances[i].deps
          BY <3>1, <4>1 DEF AnswersOf
        <4>3. k \in manager[l].depsMngr[KeyOf[i]].writes \ {i}
          BY <2>2, <3>1 DEF Remembered, Rivals
        <4> QED  BY <1>5, <4>2, <4>3
      <3>2. CASE n # l
        <4>1. \A r \in replies : r.id # i
          BY <1>1, <1>2 DEF MessageInv, RepliesOK
        <4>2. AnswersOf(n, i)' = {}
          BY <1>2, <3>2, <4>1 DEF AnswersOf
        <4> QED  BY <4>2
      <3> QED  BY <3>1, <3>2
    <2>3. ~Decided(i)'
      BY <1>1, <1>2 DEF Decided, TypeOK
    <2> QED  BY <2>1, <2>2, <2>3 DEF AnswerStep, Decided
  <1> QED  BY <1>1, <1>8, <1>9, AnswerLinks DEF LinkedInv

\* The other phases change neither what was decided nor what is being pre-accepted
LEMMA DecidedStep ==
    ASSUME IInv, LinkedInv, NEW i \in Inst, Decided(i), NobodyBack, MessageInv',
           \A j \in Inst \ {i} : /\ pc'[j] = pc[j]
                                 /\ pc[j] # "idle" => Led(j)'.deps = Led(j).deps,
           Decided(i)', Led(i)'.deps = Led(i).deps, replies' \subseteq replies
    PROVE  LinkedInv'
  <1>1. \A j \in Inst, n \in Node : AnswersOf(n, j)' \subseteq AnswersOf(n, j)
    BY KeptAnswers DEF Decided
  <1>2. AnswerStep(i)
    BY <1>1 DEF AnswerStep, Decided
  <1> QED  BY <1>2, AnswerLinks DEF LinkedInv

LEMMA StartAcceptLinks ==
    ASSUME IInv, LinkedInv, NEW i \in Inst, StartAccept(i)
    PROVE  LinkedInv'
  <1> DEFINE l == Leader[i]
             x == manager[l].instances[i]
             m == acceptInstance(manager[l], i, x, TRUE)
  <1>1. /\ TypeOK /\ PhaseInv /\ l \in Node /\ manager[l] \in ManagerType
        /\ IInv' /\ NobodyBack /\ MessageInv /\ LinkInv
    BY NodeAssumption, StartAcceptStep DEF IInv, TypeOK, LinkedInv
  <1>2. /\ pc[i] = "mustAccept"
        /\ manager' = [manager EXCEPT ![l] = m]
        /\ net' = net \cup Broadcast("Accept", i, m.instances[i], TRUE)
        /\ pc' = [pc EXCEPT ![i] = "accept"]
        /\ UNCHANGED replies
    BY DEF StartAccept
  <1>3. x \in Instance /\ HasStarted(x)
    BY <1>1, <1>2, Rows DEF PhaseInv, Led, MessageInv, RowsStarted, Started
  <1>4. HasStarted(m.instances[i]) /\ m.instances[i].deps = x.deps
    BY <1>1, <1>3, StartedRow
  <1>5. m \in ManagerType /\ \A j \in Inst \ {i} : m.instances[j] = manager[l].instances[j]
    BY <1>1, <1>3, AcceptLearns DEF Learns
  <1> HIDE DEF m
  <1>6. Decided(i) /\ "accept" \in Phases
    BY <1>2 DEF Decided, Phases
  <1>7. MessageInv'
    <2> DEFINE type == "Accept"
               p == "accept"
               awaited == TRUE
    <2>1. /\ type \in {"PreAccept", "Accept", "Commit"} /\ p \in Phases /\ awaited \in BOOLEAN
          /\ p # "idle"
          /\ type = "PreAccept" => /\ pc[i] = "idle" /\ p = "preaccept"
                                   /\ m.instances[i].status = INSTANCE_PREACCEPTED
                                   /\ m.instances[i].ballot = 1
          /\ type # "PreAccept" => Decided(i) /\ p # "preaccept"
          /\ pc' = [pc EXCEPT ![i] = p]
          /\ net' = net \cup Broadcast(type, i, m.instances[i], awaited)
      BY <1>2, <1>6
    <2>2. /\ IInv' /\ MessageInv /\ NobodyBack /\ m \in ManagerType
          /\ HasStarted(m.instances[i])
          /\ \A j \in Inst \ {i} : m.instances[j] = manager[Leader[i]].instances[j]
          /\ manager' = [manager EXCEPT ![Leader[i]] = m] /\ UNCHANGED replies
      BY <1>1, <1>2, <1>4, <1>5
    <2> HIDE DEF type, p, awaited, l, x
    <2> QED  BY <2>1, <2>2, BroadcastMessages
  <1>8. /\ \A j \in Inst \ {i} : pc'[j] = pc[j] /\ Led(j)' = Led(j)
        /\ Decided(i)' /\ Led(i)'.deps = Led(i).deps
    BY <1>1, <1>2, <1>4, <1>5 DEF TypeOK, Led, Decided
  <1> QED  BY <1>1, <1>2, <1>6, <1>7, <1>8, DecidedStep

LEMMA LeaderCommitLinks ==
    ASSUME IInv, LinkedInv, NEW i \in Inst, LeaderCommit(i)
    PROVE  LinkedInv'
  <1> DEFINE l == Leader[i]
             x == manager[l].instances[i]
             m == commitInstance(manager[l], i, x, TRUE)
  <1>1. /\ TypeOK /\ PhaseInv /\ l \in Node /\ manager[l] \in ManagerType
        /\ IInv' /\ NobodyBack /\ MessageInv /\ LinkInv
    BY NodeAssumption, LeaderCommitStep DEF IInv, TypeOK, LinkedInv
  <1>2. /\ pc[i] = "mustCommit"
        /\ manager' = [manager EXCEPT ![l] = m]
        /\ net' = net \cup Broadcast("Commit", i, m.instances[i], FALSE)
        /\ pc' = [pc EXCEPT ![i] = "execute"]
        /\ UNCHANGED replies
    BY DEF LeaderCommit
  <1>3. x \in Instance /\ HasStarted(x)
    BY <1>1, <1>2, Rows DEF PhaseInv, Led, MessageInv, RowsStarted, Started
  <1>4. HasStarted(m.instances[i]) /\ m.instances[i].deps = x.deps
    BY <1>1, <1>3, StartedRow
  <1>5. m \in ManagerType /\ \A j \in Inst \ {i} : m.instances[j] = manager[l].instances[j]
    BY <1>1, <1>3, CommitLearns DEF Learns
  <1> HIDE DEF m
  <1>6. Decided(i) /\ "execute" \in Phases
    BY <1>2 DEF Decided, Phases
  <1>7. MessageInv'
    <2> DEFINE type == "Commit"
               p == "execute"
               awaited == FALSE
    <2>1. /\ type \in {"PreAccept", "Accept", "Commit"} /\ p \in Phases /\ awaited \in BOOLEAN
          /\ p # "idle"
          /\ type = "PreAccept" => /\ pc[i] = "idle" /\ p = "preaccept"
                                   /\ m.instances[i].status = INSTANCE_PREACCEPTED
                                   /\ m.instances[i].ballot = 1
          /\ type # "PreAccept" => Decided(i) /\ p # "preaccept"
          /\ pc' = [pc EXCEPT ![i] = p]
          /\ net' = net \cup Broadcast(type, i, m.instances[i], awaited)
      BY <1>2, <1>6
    <2>2. /\ IInv' /\ MessageInv /\ NobodyBack /\ m \in ManagerType
          /\ HasStarted(m.instances[i])
          /\ \A j \in Inst \ {i} : m.instances[j] = manager[Leader[i]].instances[j]
          /\ manager' = [manager EXCEPT ![Leader[i]] = m] /\ UNCHANGED replies
      BY <1>1, <1>2, <1>4, <1>5
    <2> HIDE DEF type, p, awaited, l, x
    <2> QED  BY <2>1, <2>2, BroadcastMessages
  <1>8. /\ \A j \in Inst \ {i} : pc'[j] = pc[j] /\ Led(j)' = Led(j)
        /\ Decided(i)' /\ Led(i)'.deps = Led(i).deps
    BY <1>1, <1>2, <1>4, <1>5 DEF TypeOK, Led, Decided
  <1> QED  BY <1>1, <1>2, <1>6, <1>7, <1>8, DecidedStep

\* The ways an accept phase ends
LEMMA EndAcceptLinks ==
    ASSUME IInv, LinkedInv, NEW i \in Inst, pc[i] = "accept", NobodyBack, NEW b \in Nat,
           NEW m \in {manager[Leader[i]], [manager[Leader[i]] EXCEPT !.instances[i].ballot = b]},
           b >= Led(i).ballot,
           EndWait(i, "mustCommit", m)
    PROVE  LinkedInv'
  <1> DEFINE l == Leader[i]
  <1>1. /\ TypeOK /\ PhaseInv /\ l \in Node /\ manager[l] \in ManagerType
        /\ MessageInv /\ LinkInv /\ Led(i) = manager[l].instances[i]
    BY NodeAssumption DEF IInv, TypeOK, LinkedInv, Led
  <1>2. /\ pc' = [pc EXCEPT ![i] = "mustCommit"] /\ manager' = [manager EXCEPT ![l] = m]
        /\ replies' = replies \ RepliesTo(i)
    BY DEF EndWait
  <1>3. Led(i) \in Instance /\ HasStarted(Led(i))
    BY <1>1, Rows DEF PhaseInv, MessageInv, RowsStarted, Started
  <1>4. /\ m \in ManagerType
        /\ \A j \in Inst \ {i} : m.instances[j] = manager[l].instances[j]
        /\ m.instances[i].deps = Led(i).deps /\ HasStarted(m.instances[i])
    <2>1. CASE m = manager[l]
      BY <1>1, <1>3, <2>1
    <2>2. CASE m = [manager[l] EXCEPT !.instances[i].ballot = b]
      <3> DEFINE x == [Led(i) EXCEPT !.ballot = b]
      <3>1. x \in Instance /\ x.ballot = b /\ x.status = Led(i).status /\ x.deps = Led(i).deps
        BY <1>3 DEF Instance
      <3>2. m = [manager[l] EXCEPT !.instances[i] = x]
        BY <1>1, <2>2
      <3> HIDE DEF x
      <3>3. m \in ManagerType /\ m.instances[i] = x
            /\ \A j \in Inst \ {i} : m.instances[j] = manager[l].instances[j]
        BY <1>1, <3>1, <3>2 DEF ManagerType
      <3>4. HasStarted(x)
        BY <1>3, <3>1 DEF HasStarted, Instance
      <3> QED  BY <3>1, <3>3, <3>4
    <2> QED  BY <2>1, <2>2
  <1>5. MessageInv'
    BY <1>1, <1>4, EndWaitMessages
  <1>6. /\ \A j \in Inst \ {i} : pc'[j] = pc[j] /\ Led(j)' = Led(j)
        /\ Decided(i) /\ Decided(i)' /\ Led(i)'.deps = Led(i).deps
    BY <1>1, <1>2, <1>4 DEF TypeOK, Led, Decided
  <1> QED  BY <1>2, <1>5, <1>6, DecidedStep

\* A pre-accept phase ends with the answers of a quorum merged
LEMMA PreAcceptQuorumLinks ==
    ASSUME IInv, LinkedInv, Cardinality(Node) % 2 = 1, NEW i \in Inst, PreAcceptQuorum(i)
    PROVE  LinkedInv'
  <1> DEFINE l == Leader[i]
             m(f) == addMissingInstances(manager[l], f)
             x(f) == m(f).instances[i]
             d(R) == {r.deps : r \in R}
             p(R, f) == IF mergeChanges(x(f), d(R)) THEN "mustAccept" ELSE "mustCommit"
             n(R, f) == [m(f) EXCEPT !.instances[i] = mergeAttributes(x(f), d(R))]
  <1>1. PICK R \in QuorumsOf(i) :
          /\ \A r \in R : r.accepted
          /\ \E f \in MissingFrom(R) : EndWait(i, p(R, f), n(R, f))
    BY DEF PreAcceptQuorum
  <1>2. PICK f \in MissingFrom(R) : EndWait(i, p(R, f), n(R, f))
    BY <1>1
  <1>3. R \in SUBSET replies /\ (\A r \in R : r.id = i) /\ pc[i] = "preaccept"
    BY DEF QuorumsOf, RepliesTo, PreAcceptQuorum
  <1>4. /\ l \in Node /\ TypeOK /\ PhaseInv /\ manager[l] \in ManagerType
        /\ NobodyBack /\ MessageInv /\ LinkInv
        /\ Led(i) = manager[l].instances[i] /\ Led(i) # Nil /\ Led(i) \in Instance
        /\ Led(i).status = INSTANCE_PREACCEPTED /\ HasStarted(Led(i))
    BY <1>3, NodeAssumption, Rows, PreAcceptQuorumStep
       DEF IInv, TypeOK, PhaseInv, Led, LinkedInv, MessageInv, RowsStarted, Started
  <1>5. f \in [Inst -> Row] /\ \A j \in Inst : Started(f[j], j)
    <2>1. \A j \in Inst : f[j] = Nil \/ \E r \in R : f[j] = r.missing[j]
      BY DEF MissingFrom
    <2>2. \A r \in R, j \in Inst : r.missing[j] \in Row /\ Started(r.missing[j], j)
      BY <1>3, <1>4 DEF TypeOK, Reply, Row, MessageInv, RepliesOK
    <2>3. \A j \in Inst : f[j] \in Row /\ Started(f[j], j)
      BY <2>1, <2>2 DEF Row, Started
    <2>4. f \in [Inst -> {Nil} \cup UNION {{r.missing[j] : j \in Inst} : r \in R}]
      BY DEF MissingFrom
    <2> QED  BY <2>3, <2>4
  <1>6. /\ m(f) \in ManagerType
        /\ \A j \in Inst : \/ m(f).instances[j] = manager[l].instances[j]
                           \/ manager[l].instances[j] = Nil /\ Started(m(f).instances[j], j)
    <2>1. /\ m(f) \in ManagerType
          /\ \A j \in Inst : \/ m(f).instances[j] = manager[l].instances[j]
                             \/ manager[l].instances[j] = Nil
      BY <1>4, <1>5, AddMissing
    <2>2. ASSUME NEW j \in Inst, manager[l].instances[j] = Nil
          PROVE  Started(m(f).instances[j], j)
      <3>1. f[j] # Nil => HasStarted(f[j]) /\ pc[j] # "idle"
        BY <1>5 DEF Started
      <3>2. m(f).instances[j] # Nil => f[j] # Nil /\ HasStarted(m(f).instances[j])
        BY <1>4, <1>5, <2>2, <3>1, AddMissingRow
      <3> QED  BY <3>1, <3>2 DEF Started
    <2> QED  BY <2>1, <2>2
  <1> HIDE DEF m
  <1>7. x(f) = Led(i)
    BY <1>4, <1>6
  <1> DEFINE z == mergeAttributes(x(f), d(R))
  <1>8. /\ z \in Instance /\ HasStarted(z)
        /\ Led(i).deps \subseteq z.deps /\ \A r \in R : r.deps \subseteq z.deps
    <2>1. UNION d(R) \in SUBSET Inst
      BY <1>3, <1>4 DEF TypeOK, Reply
    <2>2. z = [Led(i) EXCEPT !.deps = @ \cup UNION d(R)]
      BY <1>4, <1>7 DEF mergeAttributes
    <2>3. \A r \in R : r.deps \subseteq UNION d(R)
      OBVIOUS
    <2> HIDE DEF d, z
    <2>4. /\ z \in Instance /\ z.status = Led(i).status /\ z.ballot = Led(i).ballot
          /\ z.deps = Led(i).deps \cup UNION d(R)
      BY <1>4, <2>1, <2>2 DEF Instance
    <2> QED  BY <1>4, <2>3, <2>4 DEF HasStarted
  <1>9. /\ n(R, f) \in ManagerType /\ n(R, f).instances[i] = z
        /\ \A j \in Inst \ {i} : n(R, f).instances[j] = m(f).instances[j]
    <2>1. n(R, f) = [m(f) EXCEPT !.instances[i] = z]
      OBVIOUS
    <2> HIDE DEF n, z
    <2> QED  BY <1>6, <1>8, <2>1 DEF ManagerType
  <1>10. p(R, f) \in {"mustAccept", "mustCommit"}
    OBVIOUS
  <1> HIDE DEF n, p, z
  <1>11. MessageInv'
    BY <1>2, <1>3, <1>4, <1>6, <1>8, <1>9, <1>10, EndWaitMessages
  <1>12. /\ manager' = [manager EXCEPT ![l] = n(R, f)] /\ pc' = [pc EXCEPT ![i] = p(R, f)]
         /\ replies' = replies \ RepliesTo(i)
    BY <1>2 DEF EndWait
  <1>13. /\ Led(i)' = z /\ pc'[i] # "preaccept"
         /\ \A j \in Inst \ {i} : /\ pc'[j] = pc[j]
                                  /\ pc[j] # "idle" => Led(j)' = Led(j)
    <2>1. Led(i)' = z /\ pc'[i] # "preaccept"
      BY <1>4, <1>9, <1>10, <1>12 DEF TypeOK, Led
    <2>2. ASSUME NEW j \in Inst \ {i}, pc[j] # "idle" PROVE Led(j)' = Led(j)
      <3>1. Led(j) # Nil /\ Leader[j] \in Node
        BY <1>4, <2>2, NodeAssumption DEF PhaseInv
      <3> QED  BY <1>4, <1>6, <1>9, <1>12, <2>2, <3>1 DEF TypeOK, Led
    <2>3. \A j \in Inst \ {i} : pc'[j] = pc[j]
      BY <1>4, <1>12 DEF TypeOK
    <2> QED  BY <2>1, <2>2, <2>3
  <1>14. \A a \in Node, j \in Inst : AnswersOf(a, j)' \subseteq AnswersOf(a, j)
    <2> SUFFICES ASSUME NEW j \in Inst
                 PROVE  \A a \in Node : AnswersOf(a, j)' \subseteq AnswersOf(a, j)
      OBVIOUS
    <2> QED  BY <1>12, <1>13, KeptAnswers
  <1> DEFINE Q == {r.from : r \in R} \cup {l}
  <1>15. Q \in SUBSET Node /\ Cardinality(Q) = QuorumSize
    BY <1>3, <1>4, QuorumOfReplies
  <1>16. \A a \in Q : \E A \in AnswersOf(a, i) : A \subseteq Led(i)'.deps
    <2>1. Led(i).deps \in AnswersOf(l, i)
      BY <1>3 DEF AnswersOf
    <2>2. \A r \in R : r.deps \in AnswersOf(r.from, i)
      BY <1>1, <1>3, <1>4 DEF AnswersOf, MessageInv, RepliesOK
    <2> QED  BY <1>8, <1>13, <2>1, <2>2
  <1>17. \A j \in Inst \ {i} : Decided(j)' => Decided(j) /\ Led(j)'.deps = Led(j).deps
    BY <1>13 DEF Decided
  <1> HIDE DEF Q
  <1>18. LinkInv'
    BY <1>4, <1>13, <1>14, <1>15, <1>16, <1>17, DecideLinks
  <1> QED  BY <1>11, <1>18 DEF LinkedInv

\* A request that brings no new answer to a pre-accept
LEMMA QuietRequest ==
    ASSUME IInv, LinkedInv, NobodyBack, NEW r \in net, NEW m, NEW Sent,
           Handled(r, m, Sent), MessageInv',
           m \in ManagerType,
           \A j \in Inst \ {r.id} : m.instances[j] = manager[r.to].instances[j],
           \A a \in Sent : a.id = r.id,
           r.type = "PreAccept" => \A a \in Sent : ~a.accepted
    PROVE  LinkedInv'
  <1>1. /\ TypeOK /\ r.to \in Node /\ r.id \in Inst /\ RequestsOK
        /\ r.to # Leader[r.id] /\ (r.type # "PreAccept" => Decided(r.id))
    BY DEF IInv, TypeOK, Request, LinkedInv, MessageInv, RequestsOK
  <1>2. /\ manager' = [manager EXCEPT ![r.to] = m] /\ pc' = pc
        /\ replies' \subseteq replies \cup Sent
    BY DEF Handled
  <1>3. \A j \in Inst : Led(j)' = Led(j)
    BY <1>1, <1>2 DEF TypeOK, Led
  <1>4. \A n \in Node, j \in Inst : AnswersOf(n, j)' \subseteq AnswersOf(n, j)
    <2> SUFFICES ASSUME NEW n \in Node, NEW j \in Inst, NEW A \in AnswersOf(n, j)'
                 PROVE  A \in AnswersOf(n, j)
      OBVIOUS
    <2>1. pc[j] = "preaccept"
      BY <1>2 DEF AnswersOf
    <2>2. CASE n = Leader[j]
      BY <1>2, <1>3, <2>2 DEF AnswersOf
    <2>3. CASE n # Leader[j]
      <3>1. PICK q \in replies' : q.id = j /\ q.from = n /\ q.accepted /\ A = q.deps
        BY <2>3 DEF AnswersOf
      <3>2. q \in replies
        BY <1>1, <1>2, <2>1, <3>1 DEF Decided
      <3> QED  BY <2>1, <2>3, <3>1, <3>2 DEF AnswersOf
    <2> QED  BY <2>2, <2>3
  <1>5. AnswerStep(r.id)
    BY <1>2, <1>3, <1>4 DEF AnswerStep, Decided
  <1> QED  BY <1>1, <1>5, AnswerLinks DEF LinkedInv

LEMMA HandlePreAcceptLinks ==
    ASSUME IInv, LinkedInv, Remembered, NEW r \in net, HandlePreAccept(r)
    PROVE  LinkedInv'
  <1> DEFINE old == manager[r.to].instances[r.id]
             m == preAcceptInstance(manager[r.to], r.id, r.inst, FALSE)
             x == m.instances[r.id]
             refuse == {[id |-> r.id, from |-> r.to, accepted |-> FALSE,
                         ballot |-> old.ballot, deps |-> old.deps, missing |-> NoMissing]}
             missing == [j \in Inst |-> IF j \in x.deps \ r.inst.deps
                                        THEN m.instances[j] ELSE Nil]
             answer == [id |-> r.id, from |-> r.to, accepted |-> TRUE,
                        ballot |-> x.ballot, deps |-> x.deps, missing |-> missing]
  <1>1. /\ TypeOK /\ NobodyBack /\ MessageInv /\ LinkInv
        /\ r.to \in Node /\ r.id \in Inst /\ r.inst \in Instance
        /\ manager[r.to] \in ManagerType /\ r.type = "PreAccept"
    BY HandlePreAcceptStep, Rows DEF IInv, TypeOK, Request, LinkedInv, HandlePreAccept
  <1>2. /\ r.to # Leader[r.id] /\ HasStarted(r.inst)
        /\ r.inst.status = INSTANCE_PREACCEPTED /\ r.inst.ballot = 1
    BY <1>1, NilAssumption DEF MessageInv, RequestsOK, Started
  <1>3. old # Nil => old \in Instance /\ HasStarted(old)
    BY <1>1, Rows DEF MessageInv, RowsStarted, Started
  <1>4. CASE Stale(r) /\ Handled(r, manager[r.to], refuse)
    <2>1. old # Nil /\ HasStarted(old)
      BY <1>3, <1>4 DEF Stale
    <2> DEFINE m0 == manager[r.to]
    <2>2. /\ \A a \in refuse : /\ a.id = r.id /\ a.from = r.to
                               /\ \A j \in Inst : a.missing[j] \in {Nil, m0.instances[j]}
                               /\ \A b \in refuse : a = b
          /\ \A a \in refuse : a.id = r.id
          /\ r.type = "PreAccept" => \A a \in refuse : ~a.accepted
      BY DEF NoMissing
    <2>3. /\ Handled(r, m0, refuse) /\ m0 \in ManagerType
          /\ \A j \in Inst \ {r.id} : m0.instances[j] = manager[r.to].instances[j]
          /\ HasStarted(m0.instances[r.id]) /\ m0.instances[r.id] # Nil
      BY <1>1, <1>4, <2>1
    <2> HIDE DEF refuse, m0
    <2>4. MessageInv'
      BY <1>1, <2>2, <2>3, HandledMessages
    <2> QED  BY <1>1, <2>2, <2>3, <2>4, QuietRequest
  <1>5. CASE ~Stale(r) /\ Handled(r, m, {answer})
    <2>1. old = Nil
      BY <1>2, <1>3, <1>5 DEF Stale, HasStarted, Instance
    <2>2. /\ x.status = INSTANCE_PREACCEPTED /\ x.ballot = 1
          /\ manager[r.to].depsMngr[KeyOf[r.id]].writes \ {r.id} \subseteq x.deps
      <3> DEFINE inc == FALSE
      <3>1. /\ inc \in BOOLEAN /\ r.inst.status <= INSTANCE_PREACCEPTED
            /\ r.inst.ballot + (IF inc THEN 1 ELSE 0) = 1
            /\ manager[r.to].instances[r.id] = Nil
            /\ m = preAcceptInstance(manager[r.to], r.id, r.inst, inc)
        BY <1>2, <2>1
      <3> HIDE DEF inc, m
      <3> QED  BY <1>1, <3>1, PreAcceptRow
    <2>3. m \in ManagerType /\ x \in Instance
          /\ \A j \in Inst \ {r.id} : m.instances[j] = manager[r.to].instances[j]
      BY <1>1, PreAcceptLearns DEF Learns, RowLearns
    <2> HIDE DEF m
    <2>4. \A j \in Inst : missing[j] \in {Nil, m.instances[j]}
      OBVIOUS
    <2> HIDE DEF missing
    <2>5. /\ answer.id = r.id /\ answer.from = r.to /\ answer.deps = x.deps
          /\ answer.missing = missing
      OBVIOUS
    <2> HIDE DEF answer
    <2>6. HasStarted(x) /\ x # Nil
      BY <2>2, <2>3, NilAssumption DEF HasStarted
    <2> DEFINE S == {answer}
    <2>7. /\ \A a \in S : /\ a.id = r.id /\ a.from = r.to
                          /\ \A j \in Inst : a.missing[j] \in {Nil, m.instances[j]}
                          /\ \A b \in S : a = b
          /\ Handled(r, m, S)
      BY <1>5, <2>4, <2>5
    <2> HIDE DEF S
    <2>8. MessageInv'
      BY <1>1, <2>3, <2>6, <2>7, HandledMessages
    <2>9. /\ manager' = [manager EXCEPT ![r.to] = m] /\ pc' = pc
          /\ replies' \subseteq replies \cup {answer}
      BY <1>5 DEF Handled
    <2>10. ASSUME NEW j \in Inst PROVE Led(j)' = Led(j)
      <3>1. Leader[j] \in Node
        BY NodeAssumption
      <3>2. CASE Leader[j] = r.to
        <4>1. j \in Inst \ {r.id} /\ manager'[r.to] = m
          BY <1>1, <1>2, <2>9, <3>2 DEF TypeOK
        <4> QED  BY <2>3, <3>2, <4>1 DEF Led
      <3>3. CASE Leader[j] # r.to
        BY <1>1, <2>9, <3>1, <3>3 DEF TypeOK, Led
      <3> QED  BY <3>2, <3>3
    <2>11. ASSUME NEW n \in Node, NEW j \in Inst, NEW A \in AnswersOf(n, j)'
           PROVE  \/ A \in AnswersOf(n, j)
                  \/ j = r.id /\ \A k \in Inst : (Known(n, k) /\ Rivals(k, j)) => k \in A
      <3>1. pc[j] = "preaccept"
        BY <2>9, <2>11 DEF AnswersOf
      <3>2. CASE n = Leader[j]
        BY <2>9, <2>10, <2>11, <3>2 DEF AnswersOf
      <3>3. CASE n # Leader[j]
        <4>1. PICK q \in replies' : q.id = j /\ q.from = n /\ q.accepted /\ A = q.deps
          BY <2>11, <3>3 DEF AnswersOf
        <4>2. CASE q \in replies
          BY <3>1, <3>3, <4>1, <4>2 DEF AnswersOf
        <4>3. CASE q = answer
          <5>1. j = r.id /\ n = r.to /\ A = x.deps
            BY <2>5, <4>1, <4>3
          <5>2. \A k \in Inst : (Known(n, k) /\ Rivals(k, j))
                    => k \in manager[r.to].depsMngr[KeyOf[r.id]].writes \ {r.id}
            BY <5>1 DEF Remembered, Rivals
          <5> QED  BY <2>2, <5>1, <5>2
        <4> QED  BY <2>9, <4>2, <4>3
      <3> QED  BY <3>2, <3>3
    <2>12. AnswerStep(r.id)
      BY <2>9, <2>10, <2>11 DEF AnswerStep, Decided
    <2> QED  BY <1>1, <2>8, <2>12, AnswerLinks DEF LinkedInv
  <1> QED  BY <1>4, <1>5 DEF HandlePreAccept

LEMMA HandleAcceptLinks ==
    ASSUME IInv, LinkedInv, NEW r \in net, HandleAccept(r)
    PROVE  LinkedInv'
  <1> DEFINE m == acceptInstance(manager[r.to], r.id, r.inst, FALSE)
             sent(a, b) == {[id |-> r.id, from |-> r.to, accepted |-> a,
                             ballot |-> b, deps |-> {}, missing |-> NoMissing]}
             b0 == manager[r.to].instances[r.id].ballot
  <1>1. /\ TypeOK /\ NobodyBack /\ MessageInv /\ LinkInv
        /\ r.to \in Node /\ r.id \in Inst /\ r.inst \in Instance
        /\ manager[r.to] \in ManagerType /\ r.type # "PreAccept"
    BY HandleAcceptStep, Rows DEF IInv, TypeOK, Request, LinkedInv, HandleAccept
  <1>2. HasStarted(r.inst) /\ (manager[r.to].instances[r.id] # Nil =>
                                  HasStarted(manager[r.to].instances[r.id]))
    BY <1>1, NilAssumption DEF MessageInv, RequestsOK, RowsStarted, Started
  <1>3. ASSUME NEW a, NEW b, NEW n
        PROVE  /\ \A q \in sent(a, b) : /\ q.id = r.id /\ q.from = r.to
                                        /\ \A j \in Inst : q.missing[j] \in {Nil, n.instances[j]}
                                        /\ \A q2 \in sent(a, b) : q = q2
               /\ \A q \in sent(a, b) : q.id = r.id
    BY DEF NoMissing
  <1> HIDE DEF sent
  <1>4. CASE Stale(r) /\ Handled(r, manager[r.to], sent(FALSE, b0))
    <2> DEFINE m0 == manager[r.to]
               S == sent(FALSE, b0)
    <2>1. /\ Handled(r, m0, S) /\ m0 \in ManagerType
          /\ \A j \in Inst \ {r.id} : m0.instances[j] = manager[r.to].instances[j]
          /\ HasStarted(m0.instances[r.id]) /\ m0.instances[r.id] # Nil
      BY <1>1, <1>2, <1>4 DEF Stale
    <2>2. /\ \A q \in S : /\ q.id = r.id /\ q.from = r.to
                          /\ \A j \in Inst : q.missing[j] \in {Nil, m0.instances[j]}
                          /\ \A q2 \in S : q = q2
          /\ \A q \in S : q.id = r.id
      BY <1>3
    <2> HIDE DEF m0, S
    <2>3. MessageInv'
      BY <1>1, <2>1, <2>2, HandledMessages
    <2> QED  BY <1>1, <2>1, <2>2, <2>3, QuietRequest
  <1>5. CASE Handled(r, m, sent(TRUE, 0))
    <2>1. /\ m \in ManagerType /\ m.instances[r.id] \in Instance
          /\ \A j \in Inst \ {r.id} : m.instances[j] = manager[r.to].instances[j]
      BY <1>1, AcceptLearns DEF Learns, RowLearns
    <2>2. HasStarted(m.instances[r.id]) /\ m.instances[r.id] # Nil
      BY <1>1, <1>2, <2>1, StartedRow, NilAssumption
    <2> DEFINE S == sent(TRUE, 0)
    <2> HIDE DEF m
    <2>3. /\ Handled(r, m, S)
          /\ \A q \in S : /\ q.id = r.id /\ q.from = r.to
                          /\ \A j \in Inst : q.missing[j] \in {Nil, m.instances[j]}
                          /\ \A q2 \in S : q = q2
          /\ \A q \in S : q.id = r.id
      BY <1>3, <1>5
    <2> HIDE DEF S
    <2>4. MessageInv'
      BY <1>1, <2>1, <2>2, <2>3, HandledMessages
    <2> QED  BY <1>1, <2>1, <2>3, <2>4, QuietRequest
  <1> QED  BY <1>4, <1>5 DEF HandleAccept, sent

LEMMA HandleCommitLinks ==
    ASSUME IInv, LinkedInv, NEW r \in net, HandleCommit(r)
    PROVE  LinkedInv'
  <1> DEFINE m == commitInstance(manager[r.to], r.id, r.inst, FALSE)
             none == {}
  <1>1. /\ TypeOK /\ NobodyBack /\ MessageInv /\ LinkInv
        /\ r.to \in Node /\ r.id \in Inst /\ r.inst \in Instance
        /\ manager[r.to] \in ManagerType /\ r.type # "PreAccept"
    BY HandleCommitStep, Rows DEF IInv, TypeOK, Request, LinkedInv, HandleCommit
  <1>2. HasStarted(r.inst) /\ (manager[r.to].instances[r.id] # Nil =>
                                  HasStarted(manager[r.to].instances[r.id]))
    BY <1>1, NilAssumption DEF MessageInv, RequestsOK, RowsStarted, Started
  <1>3. Handled(r, m, none)
    BY DEF HandleCommit
  <1>4. /\ m \in ManagerType /\ m.instances[r.id] \in Instance
        /\ \A j \in Inst \ {r.id} : m.instances[j] = manager[r.to].instances[j]
    BY <1>1, CommitLearns DEF Learns, RowLearns
  <1>5. HasStarted(m.instances[r.id]) /\ m.instances[r.id] # Nil
    BY <1>1, <1>2, <1>4, StartedRow, NilAssumption
  <1>6. \A a \in none : a # a
    OBVIOUS
  <1> HIDE DEF m, none
  <1>7. MessageInv'
    BY <1>1, <1>3, <1>4, <1>5, <1>6, HandledMessages
  <1> QED  BY <1>1, <1>3, <1>4, <1>6, <1>7, QuietRequest

\* An accept phase that ends; a pre-accept phase that ends as AllPreAccepted says
LEMMA PhaseEndLinks ==
    ASSUME IInv, LinkedInv, Cardinality(Node) % 2 = 1, AllPreAccepted, NEW i \in Inst,
           \/ PreAcceptRejected(i) \/ PreAcceptQuorum(i) \/ AcceptQuorum(i)
           \/ AcceptRejected(i) \/ PhaseTimeout(i)
    PROVE  LinkedInv'
  <1>1. CASE pc[i] = "preaccept"
    <2>1. CASE PreAcceptQuorum(i)
      BY <2>1, PreAcceptQuorumLinks
    <2>2. CASE PreAcceptRejected(i) \/ PhaseTimeout(i)
      <3>1. pc' = [pc EXCEPT ![i] = "mustCommit"]
        BY <2>2 DEF PreAcceptRejected, PhaseTimeout, EndWait
      <3>2. pc'[i] # "preaccept"
        BY <3>1 DEF IInv, TypeOK
      <3> QED  BY <1>1, <3>2, PreAcceptQuorumLinks DEF AllPreAccepted
    <2> QED  BY <1>1, <2>1, <2>2 DEF AcceptQuorum, AcceptRejected
  <1>2. CASE pc[i] = "accept"
    <2>1. Led(i) \in Instance /\ Led(i).ballot \in Nat /\ Led(i) = manager[Leader[i]].instances[i]
      BY <1>2, NodeAssumption, Rows DEF IInv, PhaseInv, Led, Instance
    <2>2. CASE AcceptQuorum(i) \/ PhaseTimeout(i)
      <3>1. NobodyBack /\ EndWait(i, "mustCommit", manager[Leader[i]])
        BY <2>2, GoOnStep DEF AcceptQuorum, PhaseTimeout
      <3> DEFINE b == Led(i).ballot
                 m == manager[Leader[i]]
      <3>2. /\ b \in Nat /\ b >= Led(i).ballot /\ EndWait(i, "mustCommit", m)
            /\ m \in {manager[Leader[i]], [manager[Leader[i]] EXCEPT !.instances[i].ballot = b]}
        BY <2>1, <3>1
      <3> HIDE DEF b, m
      <3> QED  BY <1>2, <3>1, <3>2, EndAcceptLinks
    <2>3. CASE AcceptRejected(i)
      <3>1. NobodyBack
        BY <2>3, RejectedStep
      <3>2. PICK R \in QuorumsOf(i) : \E b \in BallotFrom(manager[Leader[i]], i, R) :
              EndWait(i, "mustCommit", [manager[Leader[i]] EXCEPT !.instances[i].ballot = b])
        BY <2>3 DEF AcceptRejected
      <3>3. PICK b \in BallotFrom(manager[Leader[i]], i, R) :
              EndWait(i, "mustCommit", [manager[Leader[i]] EXCEPT !.instances[i].ballot = b])
        BY <3>2
      <3>4. b \in Nat /\ b >= Led(i).ballot
        <4>1. \A r \in R : r.ballot \in Nat
          BY DEF QuorumsOf, RepliesTo, IInv, TypeOK, Reply
        <4> QED  BY <2>1, <4>1 DEF BallotFrom
      <3> DEFINE m == [manager[Leader[i]] EXCEPT !.instances[i].ballot = b]
      <3>5. /\ m \in {manager[Leader[i]], [manager[Leader[i]] EXCEPT !.instances[i].ballot = b]}
            /\ EndWait(i, "mustCommit", m)
        BY <3>3
      <3> HIDE DEF m
      <3> QED  BY <1>2, <3>1, <3>4, <3>5, EndAcceptLinks
    <2> QED  BY <1>2, <2>2, <2>3 DEF PreAcceptRejected, PreAcceptQuorum
  <1> QED  BY <1>1, <1>2
           DEF PreAcceptRejected, PreAcceptQuorum, AcceptQuorum, AcceptRejected, PhaseTimeout

\* A leader past its commit: nothing pre-accepted or decided changes
LEMMA PastCommitLinks ==
    ASSUME IInv, LinkedInv, NobodyBack,
           \A j \in Inst : pc'[j] # pc[j] => Decided(j) /\ Decided(j)',
           \A n \in Node, j \in Inst :
               \/ manager'[n].instances[j] = manager[n].instances[j]
               \/ /\ HasStarted(manager'[n].instances[j]) /\ Decided(j)
                  /\ manager'[n].instances[j].deps = manager[n].instances[j].deps,
           UNCHANGED <<net, replies>>
    PROVE  LinkedInv'
  <1>1. MessageInv /\ LinkInv /\ MessageInv'
    BY LocalMessages DEF LinkedInv
  <1>2. \A j \in Inst : /\ Led(j)'.deps = Led(j).deps
                        /\ pc'[j] = "preaccept" => pc[j] = "preaccept"
                        /\ Decided(j)' => Decided(j)
    BY NodeAssumption DEF Led, Decided
  <1>3. \A j \in Inst, n \in Node : AnswersOf(n, j)' \subseteq AnswersOf(n, j)
    BY <1>2, KeptAnswers
  <1>4. ASSUME NEW j0 \in Inst PROVE AnswerStep(j0)
    BY <1>2, <1>3 DEF AnswerStep
  <1>5. CASE Inst = {}
    BY <1>1, <1>5 DEF LinkedInv, LinkInv, AnswersLinked, DecidedSeen, DecidedLinked
  <1>6. CASE Inst # {}
    BY <1>1, <1>4, <1>6, AnswerLinks DEF LinkedInv
  <1> QED  BY <1>5, <1>6

LEMMA ApplyNextLinks ==
    ASSUME IInv, LinkedInv, NEW i \in Inst, ApplyNext(i)
    PROVE  LinkedInv'
  <1> DEFINE l == Leader[i]
             j == Head(chain[i])
  <1>1. /\ TypeOK /\ PhaseInv /\ CopiesAgree /\ l \in Node /\ NobodyBack
        /\ chain[i] \in Seq(Inst) /\ chain[i] # <<>>
    BY NodeAssumption, ApplyNextStep DEF IInv, TypeOK, ApplyNext
  <1>2. pc[i] = "apply" /\ UNCHANGED <<net, replies>>
    BY DEF ApplyNext
  <1>3. j \in Inst
    BY <1>1
  <1>4. \/ /\ Status(l, j) = INSTANCE_COMMITTED /\ UNCHANGED pc
           /\ manager' = [manager EXCEPT ![l] = applyInstance(@, j)]
        \/ UNCHANGED manager /\ pc' = [pc EXCEPT ![i] = "failed"]
        \/ UNCHANGED <<manager, pc>>
    BY DEF ApplyNext
  <1> HIDE DEF j
  <1>5. CASE /\ Status(l, j) = INSTANCE_COMMITTED /\ UNCHANGED pc
             /\ manager' = [manager EXCEPT ![l] = applyInstance(@, j)]
    <2> DEFINE m == applyInstance(manager[l], j)
    <2>1. /\ manager[l] \in ManagerType /\ manager[l].instances[j] \in Row
          /\ IsCommitted(manager[l].instances[j])
          /\ manager[l].instances[j].status = INSTANCE_COMMITTED
      BY <1>1, <1>3, <1>5, Rows DEF Status, IsCommitted
    <2>2. /\ \A k \in Inst \ {j} : m.instances[k] = manager[l].instances[k]
          /\ m.instances[j].status = INSTANCE_EXECUTED
          /\ m.instances[j].ballot = manager[l].instances[j].ballot
          /\ m.instances[j].deps = manager[l].instances[j].deps
      BY <1>3, <2>1, Apply
    <2>3. manager' = [manager EXCEPT ![l] = m]
      BY <1>5
    <2> HIDE DEF m
    <2>4. HasStarted(manager[l].instances[j])
      BY <1>1, <1>3, <2>1 DEF LinkedInv, MessageInv, RowsStarted, Started, IsCommitted
    <2>5. HasStarted(m.instances[j])
      BY <2>2, <2>4 DEF HasStarted
    <2>6. Decided(j)
      BY <1>1, <1>3, <2>1 DEF CopiesAgree, CopyOf, PhaseInv, Decided
    <2>7. ASSUME NEW n \in Node, NEW k \in Inst
          PROVE  \/ manager'[n].instances[k] = manager[n].instances[k]
                 \/ /\ HasStarted(manager'[n].instances[k]) /\ Decided(k)
                    /\ manager'[n].instances[k].deps = manager[n].instances[k].deps
      BY <1>1, <2>2, <2>3, <2>5, <2>6 DEF TypeOK
    <2> QED  BY <1>1, <1>2, <1>5, <2>7, PastCommitLinks
  <1>6. CASE UNCHANGED manager /\ pc' = [pc EXCEPT ![i] = "failed"]
    <2>1. \A k \in Inst : pc'[k] # pc[k] => Decided(k) /\ Decided(k)'
      BY <1>1, <1>2, <1>6 DEF TypeOK, Decided
    <2> QED  BY <1>1, <1>2, <1>6, <2>1, PastCommitLinks
  <1>7. CASE UNCHANGED <<manager, pc>>
    BY <1>1, <1>2, <1>7, PastCommitLinks
  <1> QED  BY <1>4, <1>5, <1>6, <1>7

LEMMA NextLinks ==
    ASSUME IInv, LinkedInv, Remembered, Cardinality(Node) % 2 = 1,
           [Next]_vars, [AllPreAccepted]_vars
    PROVE  LinkedInv'
  <1>1. IInv' /\ NobodyBack
    BY NextInv
  <1>2. CASE UNCHANGED vars
    BY <1>1, <1>2, PastCommitLinks DEF vars
  <1>3. CASE AllPreAccepted
    <2>1. ASSUME NEW i \in Inst, Lead(i) \/ PhaseTimeout(i)
          PROVE  LinkedInv'
      <3>1. CASE UnknownDependency(i) \/ StartExecution(i) \/ FinishExecution(i)
        <4>1. /\ UNCHANGED <<manager, net, replies>> /\ pc[i] \in {"execute", "apply"}
              /\ \E p \in {"failed", "apply", "done"} : pc' = [pc EXCEPT ![i] = p]
          BY <3>1 DEF UnknownDependency, StartExecution, FinishExecution
        <4>2. \A k \in Inst : pc'[k] # pc[k] => Decided(k) /\ Decided(k)'
          BY <4>1 DEF IInv, TypeOK, Decided
        <4> QED  BY <1>1, <4>1, <4>2, PastCommitLinks
      <3> QED  BY <1>3, <2>1, <3>1, StartPreAcceptLinks, PhaseEndLinks, StartAcceptLinks,
                  LeaderCommitLinks, ApplyNextLinks DEF Lead
    <2>2. ASSUME NEW r \in net, Handle(r)
          PROVE  LinkedInv'
      BY <2>2, HandlePreAcceptLinks, HandleAcceptLinks, HandleCommitLinks DEF Handle
    <2> QED  BY <1>2, <2>1, <2>2 DEF Next, Terminated
  <1> QED  BY <1>2, <1>3

LEMMA InitLinks == Init => LinkedInv
  <1> SUFFICES ASSUME Init PROVE LinkedInv
    OBVIOUS
  <1>1. /\ \A n \in Node, i \in Inst : manager[n].instances[i] = Nil
        /\ \A i \in Inst : pc[i] = "idle"
        /\ net = {} /\ replies = {}
    BY DEF Init, NewManager
  <1>2. MessageInv
    BY <1>1 DEF MessageInv, RowsStarted, Started, RequestsOK, RepliesOK
  <1>3. LinkInv
    BY <1>1 DEF LinkInv, AnswersLinked, AnswersOf, DecidedSeen, DecidedLinked, Decided
  <1> QED  BY <1>2, <1>3 DEF LinkedInv

\* What the nodes decided is linked directly
LEMMA LinkedGraph ==
    ASSUME IInv, LinkedInv
    PROVE  GraphLinked /\ DirectLinks
  <1>1. TypeOK /\ PhaseInv /\ CopiesAgree
    BY DEF IInv
  <1>2. ASSUME NEW n \in Node, NEW i \in Inst, Committed(n, i)
        PROVE  Decided(i) /\ CommittedDeps(i) = Led(i).deps
    <2>1. i \in CommittedAt(n)
      BY <1>1, <1>2, Rows DEF CommittedAt
    <2>2. IsCommitted(Led(i)) /\ Graph[i] = Led(i).deps
      BY <1>1, <2>1, CommittedIsDecided
    <2>3. Decided(i)
      BY <1>1, <2>2 DEF PhaseInv, Decided
    <2> QED  BY <2>2, <2>3, GraphDeps
  <1>3. ASSUME NEW i \in Inst, NEW j \in Inst, i # j, KeyOf[i] = KeyOf[j],
               \E n \in Node : Committed(n, i), \E n \in Node : Committed(n, j)
        PROVE  i \in CommittedDeps(j) \/ j \in CommittedDeps(i)
    <2>1. /\ Decided(i) /\ CommittedDeps(i) = Led(i).deps
          /\ Decided(j) /\ CommittedDeps(j) = Led(j).deps
      BY <1>2, <1>3
    <2>2. i \in Led(j).deps \/ j \in Led(i).deps
      BY <1>3, <2>1 DEF LinkedInv, LinkInv, DecidedLinked, Rivals
    <2> QED  BY <2>1, <2>2
  <1>4. \A i, j \in Inst : j \in CommittedDeps(i) => DependsOn(i, j)
    BY DEF DependsOn
  <1>5. GraphLinked
    BY <1>3, <1>4 DEF GraphLinked
  <1> QED  BY <1>3, <1>5 DEF DirectLinks

(***************************************************************************)
(* With an odd number of replicas, as long as no replica has forgotten an  *)
(* instance (GetAndSetDeps drops what is executed and acknowledged) and no *)
(* pre-accept phase ends with a rejection or a timeout, any two committed  *)
(* instances on a key are linked, and directly: any two quorums            *)
(* sendPreAccept waits for share a replica, which answered for one of the  *)
(* two instances when it knew the other.  Each of the conditions is        *)
(* needed: without any one of them the code commits unlinked instances.    *)
(***************************************************************************)
THEOREM DirectlyLinked ==
    ASSUME Cardinality(Node) % 2 = 1
    PROVE  (Spec /\ []Remembered /\ [][AllPreAccepted]_vars) => [](GraphLinked /\ DirectLinks)
  BY Invariance, InitLinks, NextLinks, LinkedGraph, PTL DEF Spec

(***************************************************************************)
(* Under the same conditions no two nodes execute two queries on a key in  *)
(* opposite orders (sendPreAccept, getExecutionOrder,                      *)
(* executeDependencyChain).                                                *)
(***************************************************************************)
THEOREM SameOrderEverywhere ==
    ASSUME Cardinality(Node) % 2 = 1
    PROVE  (Spec /\ []Remembered /\ [][AllPreAccepted]_vars) => []SameOrder
  BY DirectlyLinked, LinkedSameOrder, PTL
=============================================================================
