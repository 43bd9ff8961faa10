--------------------------- MODULE RecoveryProofs ---------------------------
(***************************************************************************)
(* For any number of nodes, successors, preparing goroutines, stopped      *)
(* nodes and timeouts: no node goes back on the instance that is prepared, *)
(* and a prepare that ends without an error leaves it committed.           *)
(***************************************************************************)
EXTENDS Recovery, ManagerProofs, WellFoundedInduction, TLAPS

USE DEF INSTANCE_PREACCEPTED, INSTANCE_ACCEPTED, INSTANCE_COMMITTED, INSTANCE_EXECUTED
-----------------------------------------------------------------------------
\* Where a goroutine waits for the answers to which requests
Waiting == {<<"asked", "Successor">>, <<"prepare", "Prepare">>,
            <<"preaccept", "PreAccept">>, <<"accept", "Accept">>}

\* A request that starts a phase at its receiver brings the instance, the leader
\* is no successor, and a goroutine awaits answers to one kind of request only
RequestsOK ==
    \A r \in net :
        /\ r.type \in {"PreAccept", "Accept", "Commit"} => r.inst # Nil
        /\ r.type = "Successor" => r.to # Leader
        /\ r.awaited => <<pc[r.by], r.type>> \in Waiting

\* An answer is there only while it is waited for; an answer to a pre-accept
\* brings the dependencies that are merged
RepliesOK ==
    \A r \in replies :
        /\ \E w \in Waiting : pc[r.by] = w[1]
        /\ pc[r.by] = "preaccept" => r.inst # Nil

BallotsBounded == \E b \in Nat : \A r \in replies : r.ballot <= b

\* The node of a goroutine at work has the instance, but for the leader before
\* it pre-accepts it
TaskOK(t) ==
    /\ pc[t] # "idle" => \/ Local(At(t)) # Nil
                         \/ pc[t] = "mustPreAccept" /\ using[t] # Nil
    /\ pc[t] = "done" => Committed(At(t))
    /\ pc[t] \notin {"done", "failed"} => tried[t] < Tries
    /\ succ[t] >= 1

IInv ==
    /\ TypeOK
    /\ RequestsOK
    /\ RepliesOK
    /\ BallotsBounded
    /\ \A t \in Task : TaskOK(t)

NobodyBack == \A n \in Node : NeverBack(n)
-----------------------------------------------------------------------------
\* A nonempty bounded set of numbers has a largest element
LEMMA LargestExists ==
    ASSUME NEW S \in SUBSET Nat, S # {}, NEW b \in Nat, \A d \in S : d <= b
    PROVE  \E c \in S : \A d \in S : c >= d
  <1> DEFINE T == {u \in Nat : \A d \in S : d <= u}
  <1>1. T \subseteq Nat /\ T # {} /\ \A u \in T, d \in S : d <= u
    OBVIOUS
  <1>2. PICK R : IsWellFoundedOn(R, Nat) /\ \A x, y \in Nat : x < y => <<x, y>> \in R
    <2>1. \A x, y \in Nat : x < y => <<x, y>> \in {ss \in Nat \X Nat : ss[1] < ss[2]}
      OBVIOUS
    <2>2. IsWellFoundedOn({ss \in Nat \X Nat : ss[1] < ss[2]}, Nat)
      BY NatLessThanWellFounded DEF OpToRel
    <2> QED  BY <2>1, <2>2
  <1>4. PICK u \in T : \A v \in T : ~(<<v, u>> \in R)
    <2>1. T \subseteq Nat /\ T # {} /\ IsWellFoundedOn(R, Nat)
      BY <1>1, <1>2
    <2> HIDE DEF T
    <2> QED  BY <2>1, WFMin, Zenon
  <1>5. \A v \in T : ~(v < u)
    BY <1>1, <1>2, <1>4
  <1>6. u \in S
    <2> SUFFICES ASSUME u \notin S PROVE FALSE
      OBVIOUS
    <2>1. \A d \in S : d \in Nat /\ d < u
      BY <1>1
    <2>2. PICK d \in S : d \in Nat /\ d < u /\ u \in Nat
      BY <1>1, <2>1
    <2>3. u - 1 \in Nat /\ \A e \in S : e <= u - 1
      BY <2>1, <2>2
    <2> QED  BY <1>1, <1>5, <2>2, <2>3
  <1> QED  BY <1>1, <1>6

LEMMA LargestBallotIs ==
    ASSUME IInv, NEW t, NEW x \in Instance, NEW R \in SUBSET RepliesTo(t)
    PROVE  /\ LargestBallot(x.ballot, R) \in Nat
           /\ LargestBallot(x.ballot, R) >= x.ballot
  <1> DEFINE S == {x.ballot} \cup {r.ballot : r \in R}
  <1>1. PICK b \in Nat : \A r \in replies : r.ballot <= b
    BY DEF IInv, BallotsBounded
  <1>2. R \subseteq replies /\ \A r \in R : r.ballot \in Nat
    BY DEF RepliesTo, IInv, TypeOK, Reply
  <1>3. x.ballot \in Nat
    BY DEF Instance
  <1>4. S \in SUBSET Nat /\ S # {} /\ x.ballot \in S
    BY <1>2, <1>3
  <1>5. b + x.ballot \in Nat /\ \A d \in S : d <= b + x.ballot
    BY <1>1, <1>2, <1>3
  <1> HIDE DEF S
  <1>6. \E c \in S : \A d \in S : c >= d
    BY <1>4, <1>5, LargestExists
  <1>7. LargestBallot(x.ballot, R) = CHOOSE c \in S : \A d \in S : c >= d
    BY DEF LargestBallot, S
  <1> QED  BY <1>4, <1>6, <1>7
-----------------------------------------------------------------------------
LEMMA TaskAt ==
    ASSUME NEW t \in Task
    PROVE  At(t) \in Node
  BY RecoveryAssumption DEF Task, At

LEMMA LocalType ==
    ASSUME TypeOK, NEW n \in Node
    PROVE  /\ manager[n] \in ManagerType
           /\ Local(n) # Nil => Local(n) \in Instance
           /\ Status(n) \in 0..INSTANCE_EXECUTED
           /\ Committed(n) <=> IsCommitted(Local(n))
  <1>1. manager[n] \in ManagerType
    BY DEF TypeOK
  <1>2. Local(n) # Nil => Local(n) \in Instance
    BY <1>1, RecoveryAssumption DEF Local, ManagerType
  <1>3. Status(n) \in 0..INSTANCE_EXECUTED
    BY <1>2 DEF Status, Instance
  <1> QED  BY <1>1, <1>2, <1>3 DEF Committed, Status, IsCommitted

\* Node n may replace its manager by m
MayBecome(n, m) ==
    /\ m \in ManagerType
    /\ Advances(Local(n), m.instances[Target])

LEMMA SetManager ==
    ASSUME TypeOK, NEW n \in Node, NEW m, MayBecome(n, m),
           manager' = [manager EXCEPT ![n] = m]
    PROVE  /\ manager' \in [Node -> ManagerType]
           /\ Local(n)' = m.instances[Target]
           /\ NobodyBack
  <1>1. manager' \in [Node -> ManagerType] /\ manager'[n] = m
        /\ \A k \in Node \ {n} : manager'[k] = manager[k]
    BY DEF TypeOK, MayBecome
  <1>2. \A k \in Node : Advances(Local(k), Local(k)')
    <2> TAKE k \in Node
    <2>1. CASE k = n
      BY <1>1, <2>1 DEF MayBecome, Local
    <2>2. CASE k # n
      <3>1. Local(k)' = Local(k)
        BY <1>1, <2>2 DEF Local
      <3> QED  BY <3>1, LocalType DEF Advances, Instance
    <2> QED  BY <2>1, <2>2
  <1>3. \A k \in Node : NeverBack(k)
    BY <1>2 DEF Advances, NeverBack, Status
  <1> QED  BY <1>1, <1>3 DEF NobodyBack, Local

LEMMA SameManager ==
    ASSUME TypeOK
    PROVE  /\ \A n \in Node : MayBecome(n, manager[n])
           /\ manager' = manager => NobodyBack
  <1>1. \A n \in Node : MayBecome(n, manager[n])
    BY LocalType DEF MayBecome, Advances, Instance, Local
  <1>2. manager' = manager => NobodyBack
    <2> SUFFICES ASSUME manager' = manager, NEW n \in Node
                 PROVE  NeverBack(n)
      BY DEF NobodyBack
    <2>1. Local(n)' = Local(n) /\ Status(n)' = Status(n)
      BY DEF Local, Status
    <2> QED  BY <2>1, LocalType DEF NeverBack, Instance
  <1> QED  BY <1>1, <1>2

\* A goroutine that does nothing is not disturbed by what the others do
LEMMA OthersOK ==
    ASSUME IInv, NEW t \in Task, NobodyBack, manager' \in [Node -> ManagerType],
           pc'[t] = pc[t], using'[t] = using[t], succ'[t] = succ[t], tried'[t] = tried[t]
    PROVE  TaskOK(t)'
  <1>1. At(t) \in Node
    BY TaskAt
  <1>2. NeverBack(At(t)) /\ TaskOK(t)
    BY <1>1 DEF NobodyBack, IInv
  <1>3. Local(At(t)) # Nil => Local(At(t))' # Nil
    BY <1>2 DEF NeverBack
  <1>4. Committed(At(t)) => Committed(At(t))'
    <2>1. Status(At(t)) \in Nat
      BY <1>1, LocalType DEF IInv
    <2>2. Local(At(t))' # Nil => Status(At(t))' \in Nat
      <3>1. manager'[At(t)] \in ManagerType
        BY <1>1
      <3>2. manager'[At(t)].instances[Target] \in Instance \cup {Nil}
        BY <3>1, RecoveryAssumption DEF ManagerType
      <3> QED  BY <3>2 DEF Local, Status, Instance
    <2> QED  BY <1>2, <1>3, <2>1, <2>2 DEF Committed, NeverBack, Status
  <1> QED  BY <1>2, <1>3, <1>4 DEF TaskOK
-----------------------------------------------------------------------------
\* How a step of goroutine t that ends at p leaves its own state
Moves(t, p) ==
    /\ pc' = [pc EXCEPT ![t] = p]
    /\ \/ using' = using
       \/ \E x \in Instance \cup {Nil} : using' = [using EXCEPT ![t] = x]
    /\ \/ succ' = succ
       \/ \E k \in Nat \ {0} : succ' = [succ EXCEPT ![t] = k]
    /\ \/ tried' = tried
       \/ tried[t] < Tries /\ tried' = [tried EXCEPT ![t] = @ + 1]

Ends == {"done", "failed"}

\* The goroutines after a step of one of them, whose node has the instance now
LEMMA MovesOK ==
    ASSUME IInv, NEW t \in Task, NEW p \in Preparing \cup {"try", "retry"} \cup Ends, Moves(t, p),
           manager' \in [Node -> ManagerType], NobodyBack,
           Local(At(t))' # Nil,
           p = "done" => IsCommitted(Local(At(t))'),
           p \notin Ends => tried'[t] < Tries
    PROVE  /\ pc' \in [Task -> Preparing \cup {"idle", "try", "retry", "done", "failed"}]
           /\ pc'[t] = p
           /\ \A u \in Task \ {t} : pc'[u] = pc[u]
           /\ using' \in [Task -> Instance \cup {Nil}]
           /\ succ' \in [Task -> Nat]
           /\ tried' \in [Task -> 0..Tries]
           /\ \A u \in Task : TaskOK(u)'
  <1>1. TypeOK
    BY DEF IInv
  <1>2. /\ pc' \in [Task -> Preparing \cup {"idle", "try", "retry", "done", "failed"}]
        /\ pc'[t] = p
        /\ \A u \in Task \ {t} : pc'[u] = pc[u]
    BY <1>1 DEF TypeOK, Moves, Ends
  <1>3. using' \in [Task -> Instance \cup {Nil}] /\ \A u \in Task \ {t} : using'[u] = using[u]
    BY <1>1 DEF TypeOK, Moves
  <1>4. /\ succ' \in [Task -> Nat] /\ \A u \in Task \ {t} : succ'[u] = succ[u]
        /\ succ'[t] >= 1
    BY <1>1 DEF TypeOK, Moves, IInv, TaskOK
  <1>5. tried' \in [Task -> 0..Tries] /\ \A u \in Task \ {t} : tried'[u] = tried[u]
    BY <1>1, RecoveryAssumption DEF TypeOK, Moves
  <1>6. TaskOK(t)'
    <2>1. Committed(At(t))' <=> IsCommitted(Local(At(t))')
      BY DEF Committed, IsCommitted, Status
    <2> QED  BY <1>2, <1>4, <2>1 DEF TaskOK, Ends
  <1>7. \A u \in Task \ {t} : TaskOK(u)'
    BY <1>2, <1>3, <1>4, <1>5, OthersOK
  <1> QED  BY <1>2, <1>3, <1>4, <1>5, <1>6, <1>7

\* Where a goroutine is not waiting for answers, there are none
LEMMA NotWaiting ==
    ASSUME IInv, NEW t \in Task, \A w \in Waiting : pc[t] # w[1]
    PROVE  /\ \A r \in net : r.by = t => ~r.awaited
           /\ \A r \in replies : r.by # t
  BY DEF IInv, RequestsOK, RepliesOK, Waiting

\* A step of a goroutine that sends nothing and takes no answer
LEMMA LocalStep ==
    ASSUME IInv, NEW t \in Task, NEW p \in Preparing \cup {"try", "retry"} \cup Ends, Moves(t, p),
           UNCHANGED <<manager, up, net, replies>>,
           \A w \in Waiting : pc[t] # w[1] /\ p # w[1],
           Local(At(t)) # Nil, p = "done" => Committed(At(t)),
           p \notin Ends => tried'[t] < Tries
    PROVE  IInv' /\ NobodyBack
  <1>1. TypeOK /\ NobodyBack /\ At(t) \in Node
    BY SameManager, TaskAt DEF IInv
  <1>2. Local(At(t))' = Local(At(t)) /\ manager' \in [Node -> ManagerType]
    BY <1>1 DEF Local, TypeOK
  <1>3. p = "done" => IsCommitted(Local(At(t))')
    BY <1>1, <1>2, LocalType
  <1>4. /\ pc' \in [Task -> Preparing \cup {"idle", "try", "retry", "done", "failed"}]
        /\ pc'[t] = p
        /\ \A u \in Task \ {t} : pc'[u] = pc[u]
        /\ using' \in [Task -> Instance \cup {Nil}]
        /\ succ' \in [Task -> Nat]
        /\ tried' \in [Task -> 0..Tries]
        /\ \A u \in Task : TaskOK(u)'
    BY <1>1, <1>2, <1>3, MovesOK
  <1>5. TypeOK'
    BY <1>1, <1>2, <1>4 DEF TypeOK
  <1>6. RequestsOK'
    <2>1. \A r \in net : r.by \in Task /\ (r.by = t => ~r.awaited)
      BY <1>1, NotWaiting DEF TypeOK, Request
    <2> QED  BY <1>4, <2>1 DEF IInv, RequestsOK
  <1>7. RepliesOK' /\ BallotsBounded'
    <2>1. \A r \in replies : r.by \in Task /\ r.by # t
      BY <1>1, NotWaiting DEF TypeOK, Reply
    <2> QED  BY <1>4, <2>1 DEF IInv, RepliesOK, BallotsBounded
  <1> QED  BY <1>1, <1>4, <1>5, <1>6, <1>7 DEF IInv

\* A goroutine ends its wait: nobody waits for the answers that are still missing
LEMMA EndWaitStep ==
    ASSUME IInv, NEW t \in Task, NEW m, NEW p \in Preparing \cup {"try", "retry"} \cup Ends,
           Moves(t, p), EndWait(t, m, p), up' = up, tried' = tried,
           MayBecome(At(t), m), pc[t] \notin Ends \cup {"idle", "mustPreAccept"},
           \A w \in Waiting : p # w[1],
           p = "done" => IsCommitted(m.instances[Target])
    PROVE  IInv' /\ NobodyBack
  <1>1. TypeOK /\ At(t) \in Node /\ TaskOK(t) /\ manager' = [manager EXCEPT ![At(t)] = m]
    BY TaskAt DEF IInv, EndWait
  <1>2. /\ manager' \in [Node -> ManagerType] /\ Local(At(t))' = m.instances[Target]
        /\ NobodyBack
    BY <1>1, SetManager
  <1>3. Local(At(t))' # Nil
    <2>1. Local(At(t)) # Nil
      BY <1>1 DEF TaskOK
    <2> QED  BY <1>2, <2>1 DEF MayBecome, Advances
  <1>4. tried'[t] < Tries
    BY <1>1 DEF TaskOK, Ends
  <1>5. /\ pc' \in [Task -> Preparing \cup {"idle", "try", "retry", "done", "failed"}]
        /\ pc'[t] = p
        /\ \A u \in Task \ {t} : pc'[u] = pc[u]
        /\ using' \in [Task -> Instance \cup {Nil}]
        /\ succ' \in [Task -> Nat]
        /\ tried' \in [Task -> 0..Tries]
        /\ \A u \in Task : TaskOK(u)'
    BY <1>2, <1>3, <1>4, MovesOK
  <1>6. \A q \in net' : /\ q \in Request
                        /\ \E r \in net : /\ q.type = r.type /\ q.inst = r.inst /\ q.to = r.to
                                          /\ q.by = r.by /\ (q.awaited => r.awaited /\ r.by # t)
    <2> SUFFICES ASSUME NEW r \in net,
                        NEW q, q = IF r.by = t THEN [r EXCEPT !.awaited = FALSE] ELSE r
                 PROVE  /\ q \in Request
                        /\ q.type = r.type /\ q.inst = r.inst /\ q.to = r.to
                        /\ q.by = r.by /\ (q.awaited => r.awaited /\ r.by # t)
      BY DEF EndWait, Unawaited
    <2>1. r \in Request
      BY <1>1 DEF TypeOK
    <2>2. CASE r.by = t
      BY <2>1, <2>2 DEF Request
    <2>3. CASE r.by # t
      BY <2>1, <2>3
    <2> QED  BY <2>2, <2>3
  <1>7. RequestsOK'
    <2> SUFFICES ASSUME NEW q \in net'
                 PROVE  /\ q.type \in {"PreAccept", "Accept", "Commit"} => q.inst # Nil
                        /\ q.type = "Successor" => q.to # Leader
                        /\ q.awaited => <<pc'[q.by], q.type>> \in Waiting
      BY DEF RequestsOK
    <2>1. PICK r \in net : /\ q.type = r.type /\ q.inst = r.inst /\ q.to = r.to
                           /\ q.by = r.by /\ (q.awaited => r.awaited /\ r.by # t)
      BY <1>6
    <2>2. r.by \in Task
      BY <1>1 DEF TypeOK, Request
    <2> QED  BY <1>5, <2>1, <2>2 DEF IInv, RequestsOK
  <1>8. replies' \subseteq replies /\ \A r \in replies' : r.by \in Task \ {t}
    BY <1>1 DEF EndWait, RepliesTo, TypeOK, Reply
  <1>9. RepliesOK' /\ BallotsBounded'
    BY <1>5, <1>8 DEF IInv, RepliesOK, BallotsBounded
  <1>10. TypeOK'
    BY <1>1, <1>2, <1>5, <1>6, <1>8 DEF TypeOK
  <1> QED  BY <1>2, <1>5, <1>7, <1>9, <1>10 DEF IInv

\* A goroutine that was not waiting sends the instance to the others
LEMMA SendStep ==
    ASSUME IInv, NEW t \in Task, NEW m, NEW p \in Preparing \cup {"done"},
           NEW type \in {"PreAccept", "Accept", "Commit", "Prepare"}, NEW aw \in BOOLEAN,
           Moves(t, p), up' = up, replies' = replies, tried' = tried,
           manager' = [manager EXCEPT ![At(t)] = m],
           net' = net \cup ToOthers(t, type, m.instances[Target], aw),
           MayBecome(At(t), m), m.instances[Target] # Nil,
           pc[t] \notin Ends, \A w \in Waiting : pc[t] # w[1],
           aw => <<p, type>> \in Waiting,
           p = "done" => IsCommitted(m.instances[Target])
    PROVE  IInv' /\ NobodyBack
  <1>1. TypeOK /\ At(t) \in Node /\ TaskOK(t)
    BY TaskAt DEF IInv
  <1>2. /\ manager' \in [Node -> ManagerType] /\ Local(At(t))' = m.instances[Target]
        /\ NobodyBack
    BY <1>1, SetManager
  <1>3. tried'[t] < Tries
    BY <1>1 DEF TaskOK, Ends
  <1>4. /\ pc' \in [Task -> Preparing \cup {"idle", "try", "retry", "done", "failed"}]
        /\ pc'[t] = p
        /\ \A u \in Task \ {t} : pc'[u] = pc[u]
        /\ using' \in [Task -> Instance \cup {Nil}]
        /\ succ' \in [Task -> Nat]
        /\ tried' \in [Task -> 0..Tries]
        /\ \A u \in Task : TaskOK(u)'
    BY <1>2, <1>3, MovesOK DEF Ends
  <1>5. m.instances[Target] \in Instance
    BY RecoveryAssumption DEF MayBecome, ManagerType
  <1>6. \A q \in ToOthers(t, type, m.instances[Target], aw) :
          /\ q \in Request /\ q.by = t /\ q.type = type /\ q.awaited = aw
          /\ type # "Prepare" => q.inst # Nil
    <2>1. m.instances[Target].ballot \in Nat
      BY <1>5 DEF Instance
    <2>2. up \subseteq Node
      BY <1>1 DEF TypeOK
    <2> QED  BY <1>5, <2>1, <2>2, NilAssumption DEF ToOthers, Request
  <1>7. RequestsOK'
    <2> SUFFICES ASSUME NEW q \in net'
                 PROVE  /\ q.type \in {"PreAccept", "Accept", "Commit"} => q.inst # Nil
                        /\ q.type = "Successor" => q.to # Leader
                        /\ q.awaited => <<pc'[q.by], q.type>> \in Waiting
      BY DEF RequestsOK
    <2>1. CASE q \in net
      <3>1. q.by \in Task /\ (q.by = t => ~q.awaited)
        BY <1>1, <2>1, NotWaiting DEF TypeOK, Request
      <3> QED  BY <1>4, <2>1, <3>1 DEF IInv, RequestsOK
    <2>2. CASE q \in ToOthers(t, type, m.instances[Target], aw)
      BY <1>4, <1>6, <2>2
    <2> QED  BY <2>1, <2>2
  <1>8. RepliesOK' /\ BallotsBounded'
    <2>1. \A r \in replies : r.by \in Task /\ r.by # t
      BY <1>1, NotWaiting DEF TypeOK, Reply
    <2> QED  BY <1>4, <2>1 DEF IInv, RepliesOK, BallotsBounded
  <1>9. TypeOK'
    BY <1>1, <1>2, <1>4, <1>6 DEF TypeOK
  <1> QED  BY <1>2, <1>4, <1>7, <1>8, <1>9 DEF IInv

\* A is the answer x to request r
AnswerTo(r, A, x) == \E a \in Reply : A = {a} /\ a.by = r.by /\ a.inst = x

\* A node handles a request and may answer it; the handler may start a goroutine
LEMMA HandledStep ==
    ASSUME IInv, NEW r \in net, NEW m, NEW A, NEW x, Handled(r, m, A), MayBecome(r.to, m),
           A # {} => AnswerTo(r, A, x), r.type = "PreAccept" => x # Nil,
           pc' # pc => \E s \in Task : /\ pc[s] = "idle" /\ Local(At(s)) # Nil
                                       /\ pc' = [pc EXCEPT ![s] = "try"]
    PROVE  IInv' /\ NobodyBack
  <1>1. TypeOK /\ r \in Request /\ UNCHANGED <<up, progress>>
    BY DEF IInv, TypeOK, Handled
  <1>2. r.to \in Node /\ r.by \in Task
    BY <1>1 DEF Request
  <1>3. manager' \in [Node -> ManagerType] /\ NobodyBack
    BY <1>1, <1>2, SetManager DEF Handled
  <1>4. /\ pc' \in [Task -> Preparing \cup {"idle", "try", "retry", "done", "failed"}]
        /\ \A u \in Task : TaskOK(u)'
        /\ \A u \in Task : pc[u] # "idle" => pc'[u] = pc[u]
    <2>1. CASE pc' = pc
      <3>1. \A u \in Task : TaskOK(u)'
        BY <1>1, <1>3, <2>1, OthersOK DEF progress
      <3> QED  BY <1>1, <2>1, <3>1 DEF TypeOK
    <2>2. CASE pc' # pc
      <3>1. PICK s \in Task : /\ pc[s] = "idle" /\ Local(At(s)) # Nil
                              /\ pc' = [pc EXCEPT ![s] = "try"]
        BY <2>2
      <3>2. Moves(s, "try")
        BY <1>1, <3>1 DEF Moves, progress
      <3>3. Local(At(s))' # Nil
        BY <1>3, <3>1, TaskAt DEF NobodyBack, NeverBack
      <3>4. tried'[s] < Tries
        BY <1>1, <3>1 DEF progress, IInv, TaskOK
      <3> QED  BY <1>3, <3>1, <3>2, <3>3, <3>4, MovesOK DEF Ends
    <2> QED  BY <2>1, <2>2
  <1>5. RequestsOK'
    <2>1. \A q \in net' : q \in net /\ q.by \in Task
      BY <1>1 DEF Handled, TypeOK, Request
    <2> QED  BY <1>4, <2>1 DEF RequestsOK, IInv, Waiting
  <1>6. \A q \in replies' \ replies :
          /\ q \in Reply /\ q.by = r.by /\ r.awaited
          /\ r.type = "PreAccept" => q.inst # Nil
    BY DEF Handled, AnswerTo
  <1>7. RepliesOK'
    <2> SUFFICES ASSUME NEW q \in replies'
                 PROVE  /\ \E w \in Waiting : pc'[q.by] = w[1]
                        /\ pc'[q.by] = "preaccept" => q.inst # Nil
      BY DEF RepliesOK
    <2>1. CASE q \in replies
      <3>1. /\ q.by \in Task /\ (\E w \in Waiting : pc[q.by] = w[1])
            /\ pc[q.by] = "preaccept" => q.inst # Nil
        BY <1>1, <2>1 DEF TypeOK, Reply, IInv, RepliesOK
      <3>2. pc[q.by] # "idle"
        BY <3>1 DEF Waiting
      <3> QED  BY <1>4, <3>1, <3>2
    <2>2. CASE q \notin replies
      <3>1. q.by = r.by /\ r.awaited /\ (r.type = "PreAccept" => q.inst # Nil)
        BY <1>6, <2>2
      <3>2. <<pc[r.by], r.type>> \in Waiting
        BY <3>1 DEF IInv, RequestsOK
      <3>3. pc'[r.by] = pc[r.by]
        BY <1>2, <1>4, <3>2 DEF Waiting
      <3> QED  BY <3>1, <3>2, <3>3 DEF Waiting
    <2> QED  BY <2>1, <2>2
  <1>8. BallotsBounded'
    <2>1. PICK b \in Nat : \A q \in replies : q.ballot <= b
      BY DEF IInv, BallotsBounded
    <2>2. CASE replies' \subseteq replies
      BY <2>1, <2>2 DEF BallotsBounded
    <2>3. CASE ~(replies' \subseteq replies)
      <3>1. PICK a \in Reply : A = {a}
        BY <2>3 DEF Handled, AnswerTo
      <3>2. replies' \subseteq replies \cup {a}
        BY <3>1 DEF Handled
      <3>3. a.ballot \in Nat /\ \A q \in replies : q.ballot \in Nat
        BY <1>1 DEF Reply, TypeOK
      <3>4. b + a.ballot \in Nat /\ \A q \in replies' : q.ballot <= b + a.ballot
        BY <2>1, <3>2, <3>3
      <3> QED  BY <3>4 DEF BallotsBounded
    <2> QED  BY <2>2, <2>3
  <1>9. TypeOK'
    <2>1. net' \subseteq Request /\ replies' \subseteq Reply
      BY <1>1, <1>6 DEF TypeOK, Handled
    <2> QED  BY <1>1, <1>3, <1>4, <2>1 DEF TypeOK, progress
  <1> QED  BY <1>3, <1>4, <1>5, <1>7, <1>8, <1>9 DEF IInv
-----------------------------------------------------------------------------
LEMMA MethodsMayBecome ==
    ASSUME IInv, NEW n \in Node, NEW m \in ManagerType, NEW x \in Instance, NEW inc \in BOOLEAN,
           Advances(Local(n), m.instances[Target])
    PROVE  /\ MayBecome(n, preAcceptInstance(m, Target, x, inc))
           /\ MayBecome(n, acceptInstance(m, Target, x, inc))
           /\ MayBecome(n, commitInstance(m, Target, x, inc))
           /\ preAcceptInstance(m, Target, x, inc).instances[Target] \in Instance
           /\ acceptInstance(m, Target, x, inc).instances[Target] \in Instance
           /\ commitInstance(m, Target, x, inc).instances[Target] \in Instance
           /\ IsCommitted(commitInstance(m, Target, x, inc).instances[Target])
  <1>1. Target \in Inst /\ m.instances[Target] \in Instance \cup {Nil}
    BY RecoveryAssumption DEF ManagerType
  <1>2. Local(n) # Nil => Local(n) \in Instance
    BY LocalType DEF IInv
  <1>3. ASSUME NEW k, NEW y, Learns(m, k, Target, y)
        PROVE  MayBecome(n, k) /\ k.instances[Target] \in Instance
    BY <1>1, <1>2, <1>3, NilAssumption DEF Learns, RowLearns, MayBecome, Advances, Instance
  <1>4. /\ Learns(m, preAcceptInstance(m, Target, x, inc), Target, x)
        /\ Learns(m, acceptInstance(m, Target, x, inc), Target, x)
    BY <1>1, PreAcceptLearns, AcceptLearns
  <1>5. PICK y : /\ Learns(m, commitInstance(m, Target, x, inc), Target, y)
                 /\ IsCommitted(commitInstance(m, Target, x, inc).instances[Target])
    BY <1>1, CommitLearns
  <1> QED  BY <1>3, <1>4, <1>5

\* A change of the target's own row
LEMMA SetRow ==
    ASSUME NEW n \in Node, NEW m \in ManagerType, NEW x \in Instance, Advances(Local(n), x)
    PROVE  /\ MayBecome(n, [m EXCEPT !.instances[Target] = x])
           /\ [m EXCEPT !.instances[Target] = x].instances[Target] = x
  BY RecoveryAssumption DEF ManagerType, MayBecome

\* The ballot is raised to the highest one in the replies
LEMMA RaiseBallot ==
    ASSUME IInv, NEW n \in Node, Local(n) # Nil, NEW t, NEW R \in SUBSET RepliesTo(t),
           NEW m, m = [manager[n] EXCEPT !.instances[Target].ballot = LargestBallot(@, R)]
    PROVE  /\ MayBecome(n, m)
           /\ m.instances[Target] \in Instance
           /\ m.instances[Target].status = Status(n)
  <1>1. Local(n) \in Instance /\ manager[n] \in ManagerType
    BY LocalType DEF IInv
  <1>2. PICK b : /\ b = LargestBallot(Local(n).ballot, R)
                 /\ b \in Nat /\ b >= Local(n).ballot
    BY <1>1, LargestBallotIs
  <1>3. PICK y : y = [Local(n) EXCEPT !.ballot = b]
    OBVIOUS
  <1>4. y \in Instance /\ y.ballot >= Local(n).ballot /\ y.status = Local(n).status
    BY <1>1, <1>2, <1>3 DEF Instance
  <1>5. Advances(Local(n), y)
    BY <1>1, <1>4, NilAssumption DEF Advances, Instance
  <1>6. m = [manager[n] EXCEPT !.instances[Target] = y]
    BY <1>2, <1>3 DEF Local
  <1>7. MayBecome(n, m) /\ m.instances[Target] = y
    <2>1. PICK k \in ManagerType : k = manager[n]
      BY <1>1
    <2>2. m = [k EXCEPT !.instances[Target] = y]
      BY <1>6, <2>1
    <2>3. /\ MayBecome(n, [k EXCEPT !.instances[Target] = y])
          /\ [k EXCEPT !.instances[Target] = y].instances[Target] = y
      BY <1>4, <1>5, SetRow
    <2> QED  BY <2>2, <2>3
  <1> QED  BY <1>4, <1>7 DEF Status

LEMMA AfterErrorType ==
    ASSUME NEW t, NEW b
    PROVE  AfterError(t, b) \in {"mustCommit", "retry", "failed"}
  BY DEF AfterError

\* What a goroutine that may take a step knows about its own state
LEMMA OwnState ==
    ASSUME IInv, NEW t \in Task, pc[t] # "idle"
    PROVE  /\ TypeOK /\ TaskOK(t) /\ At(t) \in Node
           /\ pc[t] # "mustPreAccept" => Local(At(t)) # Nil
           /\ Given(t) \in Instance
           /\ manager[At(t)] \in ManagerType
  <1>1. TypeOK /\ TaskOK(t) /\ At(t) \in Node
    BY TaskAt DEF IInv
  <1>2. using[t] \in Instance \cup {Nil}
    BY <1>1 DEF TypeOK
  <1> QED  BY <1>1, <1>2, LocalType DEF TaskOK, Given
-----------------------------------------------------------------------------
LEMMA StartExecuteStep ==
    ASSUME IInv, NEW n \in Node, StartExecute(n)
    PROVE  IInv' /\ NobodyBack
  <1>1. PICK t : t = <<"execute", n>>
    OBVIOUS
  <1>2. t \in Task /\ At(t) = n /\ pc[t] = "idle" /\ Local(n) # Nil
    BY <1>1 DEF StartExecute, At
  <1>3. Moves(t, "try") /\ UNCHANGED <<manager, up, net, replies>>
    BY <1>1 DEF StartExecute, Moves, progress
  <1>4. tried'[t] < Tries
    BY <1>1, <1>2 DEF StartExecute, progress, IInv, TaskOK
  <1> QED  BY <1>2, <1>3, <1>4, LocalStep DEF Waiting, Ends

LEMMA ShouldProceedStep ==
    ASSUME IInv, NEW t \in Task, ShouldProceed(t)
    PROVE  IInv' /\ NobodyBack
  <1>1. pc[t] = "try" /\ Local(At(t)) # Nil /\ tried[t] < Tries
    BY OwnState DEF ShouldProceed, TaskOK
  <1>2. PICK p \in {"done", "defer"} : /\ pc' = [pc EXCEPT ![t] = p]
                                       /\ p = "done" => Committed(At(t))
    BY DEF ShouldProceed
  <1>3. Moves(t, p) /\ UNCHANGED <<manager, up, net, replies>> /\ tried' = tried
    <2>1. 1 \in Nat \ {0} /\ succ' = [succ EXCEPT ![t] = 1]
      BY DEF ShouldProceed
    <2> QED  BY <1>2, <2>1 DEF ShouldProceed, Moves
  <1>4. p \in Preparing \cup {"try", "retry"} \cup Ends
    BY DEF Preparing, Ends
  <1> QED  BY <1>1, <1>2, <1>3, <1>4, LocalStep DEF Waiting

LEMMA ContactAgainStep ==
    ASSUME IInv, NEW t \in Task, ContactAgain(t)
    PROVE  IInv' /\ NobodyBack
  <1>1. pc[t] = "again" /\ Local(At(t)) # Nil /\ tried[t] < Tries
    BY OwnState DEF ContactAgain, TaskOK
  <1>2. Moves(t, "defer") /\ UNCHANGED <<manager, up, net, replies>> /\ tried' = tried
    <2>1. 1 \in Nat \ {0} /\ succ' = [succ EXCEPT ![t] = 1]
      BY DEF ContactAgain
    <2> QED  BY <2>1 DEF ContactAgain, Moves
  <1> QED  BY <1>1, <1>2, LocalStep DEF Waiting, Preparing

LEMMA RetryStep ==
    ASSUME IInv, NEW t \in Task, Retry(t)
    PROVE  IInv' /\ NobodyBack
  <1>1. /\ pc[t] = "retry" /\ Local(At(t)) # Nil /\ tried[t] < Tries
        /\ tried \in [Task -> 0..Tries]
    BY OwnState DEF Retry, TaskOK, TypeOK
  <1>2. PICK p \in {"failed", "try", "done"} :
            /\ pc' = [pc EXCEPT ![t] = p]
            /\ p = "done" => Committed(At(t))
            /\ p = "try" => tried[t] + 1 # Tries
    BY DEF Retry
  <1>3. Moves(t, p) /\ UNCHANGED <<manager, up, net, replies>>
    BY <1>1, <1>2 DEF Retry, Moves
  <1>4. p \in Preparing \cup {"try", "retry"} \cup Ends
    BY DEF Ends
  <1>5. p \notin Ends => tried'[t] < Tries
    BY <1>1, <1>2, RecoveryAssumption DEF Retry, Ends
  <1> QED  BY <1>1, <1>2, <1>3, <1>4, <1>5, LocalStep DEF Waiting

\* A successor is a node, and not the leader
LEMMA AskSuccessorStep ==
    ASSUME IInv, NEW t \in Task, AskSuccessor(t)
    PROVE  IInv' /\ NobodyBack
  <1>1. /\ pc[t] = "defer" /\ Local(At(t)) # Nil /\ tried[t] < Tries
        /\ TypeOK /\ succ[t] \in Nat \ {0} /\ succ[t] <= Len(Successors)
    <2>1. /\ pc[t] = "defer" /\ TypeOK /\ TaskOK(t) /\ Local(At(t)) # Nil
      BY OwnState DEF AskSuccessor
    <2>2. succ[t] \in Nat \ {0} /\ Len(Successors) \in Nat
      BY <2>1, RecoveryAssumption DEF TypeOK, TaskOK
    <2> QED  BY <2>1, <2>2 DEF AskSuccessor, OwnTurn, TaskOK
  <1>2. PICK q : /\ q = [type |-> "Successor", to |-> Successors[succ[t]], by |-> t,
                         ballot |-> 0, inst |-> Nil, awaited |-> TRUE]
                 /\ net' = net \cup {q}
    BY DEF AskSuccessor
  <1>3. /\ q \in Request /\ q.type = "Successor" /\ q.to # Leader /\ q.by = t
    <2>1. Successors[succ[t]] \in Node \ {Leader}
      BY <1>1, RecoveryAssumption
    <2> QED  BY <1>2, <2>1 DEF Request
  <1>4. /\ Moves(t, "asked") /\ pc' = [pc EXCEPT ![t] = "asked"]
        /\ UNCHANGED <<manager, up, replies, using, succ, tried>>
    BY DEF AskSuccessor, Moves, progress
  <1>5. NobodyBack /\ manager' \in [Node -> ManagerType] /\ Local(At(t))' # Nil
    BY <1>1, <1>4, SameManager DEF TypeOK, Local
  <1>6. /\ pc' \in [Task -> Preparing \cup {"idle", "try", "retry", "done", "failed"}]
        /\ pc'[t] = "asked"
        /\ \A u \in Task \ {t} : pc'[u] = pc[u]
        /\ \A u \in Task : TaskOK(u)'
    BY <1>1, <1>4, <1>5, MovesOK DEF Preparing
  <1>7. RequestsOK'
    <2> SUFFICES ASSUME NEW r \in net'
                 PROVE  /\ r.type \in {"PreAccept", "Accept", "Commit"} => r.inst # Nil
                        /\ r.type = "Successor" => r.to # Leader
                        /\ r.awaited => <<pc'[r.by], r.type>> \in Waiting
      BY DEF RequestsOK
    <2>1. CASE r = q
      BY <1>3, <1>6, <2>1 DEF Waiting
    <2>2. CASE r \in net
      <3>1. \A w \in Waiting : pc[t] # w[1]
        BY <1>1 DEF Waiting
      <3>2. r.by \in Task /\ (r.by = t => ~r.awaited)
        BY <1>1, <2>2, <3>1, NotWaiting DEF TypeOK, Request
      <3> QED  BY <1>6, <2>2, <3>2 DEF IInv, RequestsOK
    <2> QED  BY <1>2, <2>1, <2>2
  <1>8. RepliesOK' /\ BallotsBounded'
    <2>1. \A w \in Waiting : pc[t] # w[1]
      BY <1>1 DEF Waiting
    <2>2. \A r \in replies : r.by \in Task /\ r.by # t
      BY <1>1, <2>1, NotWaiting DEF TypeOK, Reply
    <2> QED  BY <1>4, <1>6, <2>2 DEF IInv, RepliesOK, BallotsBounded
  <1>9. TypeOK'
    BY <1>1, <1>2, <1>3, <1>4, <1>5, <1>6 DEF TypeOK
  <1> QED  BY <1>5, <1>6, <1>7, <1>8, <1>9 DEF IInv

\* A wait that ends with the manager as it was
LEMMA EndUnchanged ==
    ASSUME IInv, NEW t \in Task, NEW p \in {"defer", "again", "retry", "failed", "mustCommit", "done"},
           EndWait(t, manager[At(t)], p), p = "done" => Committed(At(t)),
           pc[t] \in {"asked", "again", "prepare", "preaccept", "accept"},
           UNCHANGED <<up, using, tried>>,
           succ' = succ \/ succ' = [succ EXCEPT ![t] = @ + 1]
    PROVE  IInv' /\ NobodyBack
  <1>1. TypeOK /\ At(t) \in Node /\ pc[t] \notin Ends \cup {"idle", "mustPreAccept"}
    BY TaskAt DEF IInv, Ends
  <1>2. MayBecome(At(t), manager[At(t)])
    BY <1>1, SameManager
  <1>3. Moves(t, p)
    <2>1. succ[t] + 1 \in Nat \ {0}
      BY <1>1 DEF TypeOK
    <2> QED  BY <2>1 DEF Moves, EndWait
  <1>4. p \in Preparing \cup {"try", "retry"} \cup Ends /\ \A w \in Waiting : p # w[1]
    BY DEF Preparing, Ends, Waiting
  <1>5. p = "done" => IsCommitted(manager[At(t)].instances[Target])
    BY <1>1, LocalType DEF Local
  <1> QED  BY <1>1, <1>2, <1>3, <1>4, <1>5, EndWaitStep

LEMMA SuccessorSilentStep ==
    ASSUME IInv, NEW t \in Task, SuccessorSilent(t)
    PROVE  IInv' /\ NobodyBack
  BY EndUnchanged DEF SuccessorSilent

LEMMA CommittedMeanwhileStep ==
    ASSUME IInv, NEW t \in Task, CommittedMeanwhile(t)
    PROVE  IInv' /\ NobodyBack
  BY EndUnchanged DEF CommittedMeanwhile, progress

LEMMA WaitTimeoutStep ==
    ASSUME IInv, NEW t \in Task, WaitTimeout(t)
    PROVE  IInv' /\ NobodyBack
  <1>1. AfterError(t, FALSE) \in {"mustCommit", "retry", "failed"}
    BY AfterErrorType
  <1> QED  BY <1>1, EndUnchanged DEF WaitTimeout, progress

LEMMA AcceptQuorumStep ==
    ASSUME IInv, NEW t \in Task, AcceptQuorum(t)
    PROVE  IInv' /\ NobodyBack
  BY EndUnchanged DEF AcceptQuorum, progress

LEMMA SuccessorAnswersStep ==
    ASSUME IInv, NEW t \in Task, SuccessorAnswers(t)
    PROVE  IInv' /\ NobodyBack
  <1> DEFINE m == manager[At(t)]
             l == Local(At(t))
  <1>1. /\ pc[t] = "asked" /\ At(t) \in Node /\ l \in Instance /\ m \in ManagerType
        /\ UNCHANGED <<up, using, tried>>
    <2>1. pc[t] = "asked"
      BY DEF SuccessorAnswers
    <2> QED  BY <2>1, OwnState, LocalType DEF SuccessorAnswers
  <1>2. \/ EndWait(t, m, "defer") /\ succ' = [succ EXCEPT ![t] = @ + 1]
        \/ EndWait(t, m, IF Committed(At(t)) THEN "done" ELSE "again") /\ succ' = succ
        \/ EndWait(t, acceptInstance(m, Target, l, FALSE), "again") /\ succ' = succ
        \/ EndWait(t, commitInstance(m, Target, l, FALSE), "done") /\ succ' = succ
    BY DEF SuccessorAnswers
  <1>3. CASE EndWait(t, m, "defer") /\ succ' = [succ EXCEPT ![t] = @ + 1]
    BY <1>1, <1>3, EndUnchanged
  <1>4. CASE EndWait(t, m, IF Committed(At(t)) THEN "done" ELSE "again") /\ succ' = succ
    <2>1. PICK p \in {"done", "again"} : EndWait(t, m, p) /\ (p = "done" => Committed(At(t)))
      BY <1>4
    <2> QED  BY <1>1, <1>4, <2>1, EndUnchanged
  <1>5. /\ MayBecome(At(t), acceptInstance(m, Target, l, FALSE))
        /\ MayBecome(At(t), commitInstance(m, Target, l, FALSE))
        /\ IsCommitted(commitInstance(m, Target, l, FALSE).instances[Target])
    <2>1. Advances(Local(At(t)), m.instances[Target])
      BY <1>1, SameManager DEF IInv, MayBecome
    <2> QED  BY <1>1, <2>1, MethodsMayBecome
  <1>6. ASSUME NEW k, NEW p \in {"again", "done"}, EndWait(t, k, p), MayBecome(At(t), k), succ' = succ,
               p = "done" => IsCommitted(k.instances[Target])
        PROVE  IInv' /\ NobodyBack
    <2>1. Moves(t, p)
      BY <1>1, <1>6 DEF Moves, EndWait
    <2>2. p \in Preparing \cup {"try", "retry"} \cup Ends /\ \A w \in Waiting : p # w[1]
      BY DEF Preparing, Ends, Waiting
    <2>3. pc[t] \notin Ends \cup {"idle", "mustPreAccept"}
      BY <1>1 DEF Ends
    <2> QED  BY <1>1, <1>6, <2>1, <2>2, <2>3, EndWaitStep
  <1> HIDE DEF m, l
  <1> QED  BY <1>2, <1>3, <1>4, <1>5, <1>6

LEMMA SendPrepareStep ==
    ASSUME IInv, NEW t \in Task, SendPrepare(t)
    PROVE  IInv' /\ NobodyBack
  <1>1. /\ pc[t] = "defer" /\ At(t) \in Node /\ Local(At(t)) \in Instance /\ tried[t] < Tries
        /\ UNCHANGED <<up, replies, using, succ, tried>> /\ manager[At(t)] \in ManagerType
        /\ Local(At(t)) # Nil
    <2>1. pc[t] = "defer"
      BY DEF SendPrepare
    <2> QED  BY <2>1, OwnState, LocalType DEF SendPrepare, progress, TaskOK
  <1>2. CASE Committed(At(t)) /\ pc' = [pc EXCEPT ![t] = "done"] /\ UNCHANGED <<manager, net>>
    <2>1. Moves(t, "done")
      BY <1>1, <1>2 DEF Moves
    <2> QED  BY <1>1, <1>2, <2>1, LocalStep DEF Waiting, Ends
  <1>3. CASE SendAndWait(t, "Prepare",
               [manager[At(t)] EXCEPT !.instances[Target] = incrementBallot(@, TRUE)], "prepare")
    <2>1. PICK y : y = incrementBallot(Local(At(t)), TRUE)
      OBVIOUS
    <2>2. y \in Instance /\ Advances(Local(At(t)), y)
      BY <1>1, <2>1, NilAssumption DEF incrementBallot, Instance, Advances
    <2>3. PICK m : m = [manager[At(t)] EXCEPT !.instances[Target] = y]
      OBVIOUS
    <2>4. MayBecome(At(t), m) /\ m.instances[Target] # Nil
      <3>1. PICK k \in ManagerType : k = manager[At(t)]
        BY <1>1
      <3> QED  BY <1>1, <2>2, <2>3, <3>1, SetRow, NilAssumption
    <2>5. SendAndWait(t, "Prepare", m, "prepare")
      BY <1>3, <2>1, <2>3 DEF Local
    <2>6. Moves(t, "prepare")
      BY <1>1, <2>5 DEF Moves, SendAndWait
    <2>7. /\ manager' = [manager EXCEPT ![At(t)] = m]
          /\ net' = net \cup ToOthers(t, "Prepare", m.instances[Target], TRUE)
      BY <2>5 DEF SendAndWait
    <2>8. /\ pc[t] \notin Ends /\ \A w \in Waiting : pc[t] # w[1]
          /\ "prepare" \in Preparing \cup {"done"} /\ <<"prepare", "Prepare">> \in Waiting
      BY <1>1 DEF Ends, Waiting, Preparing
    <2> QED  BY <1>1, <2>4, <2>6, <2>7, <2>8, SendStep
  <1> QED  BY <1>2, <1>3 DEF SendPrepare

\* The phases of a prepare and of the leader
LEMMA StartPhase ==
    ASSUME IInv, NEW t \in Task, NEW m, NEW p, NEW type, NEW aw \in BOOLEAN,
           pc[t] \in {"mustPreAccept", "mustAccept", "mustCommit"},
           <<p, type, aw>> \in {<<"preaccept", "PreAccept", TRUE>>, <<"accept", "Accept", TRUE>>,
                                <<"done", "Commit", FALSE>>},
           MayBecome(At(t), m), m.instances[Target] \in Instance,
           p = "done" => IsCommitted(m.instances[Target]),
           manager' = [manager EXCEPT ![At(t)] = m],
           net' = net \cup ToOthers(t, type, m.instances[Target], aw),
           pc' = [pc EXCEPT ![t] = p], using' = [using EXCEPT ![t] = Nil],
           UNCHANGED <<up, replies, succ, tried>>
    PROVE  IInv' /\ NobodyBack
  <1>1. Moves(t, p)
    <2>1. Nil \in Instance \cup {Nil}
      OBVIOUS
    <2> QED  BY <2>1 DEF Moves
  <1>2. /\ p \in Preparing \cup {"done"} /\ (aw => <<p, type>> \in Waiting)
        /\ type \in {"PreAccept", "Accept", "Commit", "Prepare"}
        /\ pc[t] \notin Ends /\ \A w \in Waiting : pc[t] # w[1]
    <2>1. \/ p = "preaccept" /\ type = "PreAccept"
          \/ p = "accept" /\ type = "Accept"
          \/ p = "done" /\ type = "Commit" /\ ~aw
      OBVIOUS
    <2> QED  BY <2>1 DEF Preparing, Waiting, Ends
  <1>3. m.instances[Target] # Nil
    BY NilAssumption
  <1> QED  BY <1>1, <1>2, <1>3, SendStep

\* What the methods do with what a phase is started with
LEMMA GivenMethods ==
    ASSUME IInv, NEW t \in Task, pc[t] # "idle", NEW n, n = At(t), NEW x, x = Given(t)
    PROVE  /\ MayBecome(n, preAcceptInstance(manager[n], Target, x, TRUE))
           /\ MayBecome(n, acceptInstance(manager[n], Target, x, TRUE))
           /\ MayBecome(n, commitInstance(manager[n], Target, x, TRUE))
           /\ preAcceptInstance(manager[n], Target, x, TRUE).instances[Target] \in Instance
           /\ acceptInstance(manager[n], Target, x, TRUE).instances[Target] \in Instance
           /\ commitInstance(manager[n], Target, x, TRUE).instances[Target] \in Instance
           /\ IsCommitted(commitInstance(manager[n], Target, x, TRUE).instances[Target])
  <1>1. n \in Node /\ manager[n] \in ManagerType /\ x \in Instance
    BY OwnState
  <1>2. Advances(Local(n), manager[n].instances[Target])
    BY <1>1, SameManager DEF IInv, MayBecome
  <1> QED  BY <1>1, <1>2, MethodsMayBecome

LEMMA StartPreAcceptStep ==
    ASSUME IInv, NEW t \in Task, StartPreAccept(t)
    PROVE  IInv' /\ NobodyBack
  <1>1. PICK m : m = preAcceptInstance(manager[At(t)], Target, Given(t), TRUE)
    OBVIOUS
  <1>2. /\ pc[t] = "mustPreAccept" /\ SendAndWait(t, "PreAccept", m, "preaccept")
        /\ using' = [using EXCEPT ![t] = Nil] /\ UNCHANGED <<up, replies, succ, tried>>
    BY <1>1 DEF StartPreAccept
  <1>3. MayBecome(At(t), m) /\ m.instances[Target] \in Instance
    BY <1>1, <1>2, GivenMethods
  <1> QED  BY <1>2, <1>3, StartPhase DEF SendAndWait

LEMMA StartAcceptStep ==
    ASSUME IInv, NEW t \in Task, StartAccept(t)
    PROVE  IInv' /\ NobodyBack
  <1>1. PICK m : m = acceptInstance(manager[At(t)], Target, Given(t), TRUE)
    OBVIOUS
  <1>2. /\ pc[t] = "mustAccept" /\ SendAndWait(t, "Accept", m, "accept")
        /\ using' = [using EXCEPT ![t] = Nil] /\ UNCHANGED <<up, replies, succ, tried>>
    BY <1>1 DEF StartAccept
  <1>3. MayBecome(At(t), m) /\ m.instances[Target] \in Instance
    BY <1>1, <1>2, GivenMethods
  <1> QED  BY <1>2, <1>3, StartPhase DEF SendAndWait

LEMMA CommitPhaseStep ==
    ASSUME IInv, NEW t \in Task, CommitPhase(t)
    PROVE  IInv' /\ NobodyBack
  <1>1. PICK m : m = commitInstance(manager[At(t)], Target, Given(t), TRUE)
    OBVIOUS
  <1>2. /\ pc[t] = "mustCommit" /\ manager' = [manager EXCEPT ![At(t)] = m]
        /\ net' = net \cup ToOthers(t, "Commit", m.instances[Target], FALSE)
        /\ pc' = [pc EXCEPT ![t] = "done"]
        /\ using' = [using EXCEPT ![t] = Nil] /\ UNCHANGED <<up, replies, succ, tried>>
    BY <1>1 DEF CommitPhase
  <1>3. /\ MayBecome(At(t), m) /\ m.instances[Target] \in Instance
        /\ IsCommitted(m.instances[Target])
    BY <1>1, <1>2, GivenMethods
  <1> QED  BY <1>2, <1>3, StartPhase

\* A wait for a quorum that ends, with the instance still there
LEMMA QuorumStep ==
    ASSUME IInv, NEW t \in Task, NEW m, MayBecome(At(t), m),
           NEW p \in {"mustPreAccept", "mustAccept", "mustCommit", "retry", "failed"},
           pc[t] \in {"prepare", "preaccept", "accept"}, EndWait(t, m, p),
           UNCHANGED <<up, succ, tried>>,
           using' = using \/ \E x \in Instance : using' = [using EXCEPT ![t] = x]
    PROVE  IInv' /\ NobodyBack
  <1>1. Moves(t, p)
    BY DEF Moves, EndWait
  <1>2. p \in Preparing \cup {"try", "retry"} \cup Ends /\ \A w \in Waiting : p # w[1]
    BY DEF Preparing, Ends, Waiting
  <1>3. pc[t] \notin Ends \cup {"idle", "mustPreAccept"}
    BY DEF Ends
  <1> QED  BY <1>1, <1>2, <1>3, EndWaitStep

LEMMA PhaseRejectedStep ==
    ASSUME IInv, NEW t \in Task, PhaseRejected(t)
    PROVE  IInv' /\ NobodyBack
  <1>1. PICK R \in Quorums(t) :
            EndWait(t, [manager[At(t)] EXCEPT !.instances[Target].ballot = LargestBallot(@, R)],
                    AfterError(t, TRUE))
    BY DEF PhaseRejected
  <1>2. PICK m : m = [manager[At(t)] EXCEPT !.instances[Target].ballot = LargestBallot(@, R)]
    OBVIOUS
  <1>3. /\ At(t) \in Node /\ Local(At(t)) # Nil /\ pc[t] \in {"preaccept", "accept"}
        /\ UNCHANGED <<up, using, succ, tried>>
    BY OwnState DEF PhaseRejected, progress
  <1>4. MayBecome(At(t), m)
    <2>1. R \in SUBSET RepliesTo(t)
      BY DEF Quorums
    <2> QED  BY <1>2, <1>3, <2>1, RaiseBallot
  <1>5. AfterError(t, TRUE) \in {"mustCommit", "retry", "failed"}
    BY AfterErrorType
  <1> QED  BY <1>1, <1>2, <1>3, <1>4, <1>5, QuorumStep

\* managerPrepareCheckResponses adopts what it has learnt
LEMMA PrepareRejectedStep ==
    ASSUME IInv, NEW t \in Task, PrepareRejected(t)
    PROVE  IInv' /\ NobodyBack
  <1>1. /\ pc[t] = "prepare" /\ At(t) \in Node /\ Local(At(t)) # Nil
        /\ UNCHANGED <<up, using, succ, tried>>
    <2>1. pc[t] = "prepare"
      BY DEF PrepareRejected
    <2> QED  BY <2>1, OwnState DEF PrepareRejected, progress
  <1>2. PICK R \in PrepareQuorums(t) :
          LET seen == {r.inst : r \in R} \ {Nil}
              m == [manager[At(t)] EXCEPT !.instances[Target].ballot = LargestBallot(@, R)]
          IN  \/ EndWait(t, m, "retry")
              \/ \E x \in seen : \/ EndWait(t, acceptInstance(m, Target, x, FALSE), "retry")
                                 \/ EndWait(t, commitInstance(m, Target, x, FALSE), "retry")
    BY DEF PrepareRejected
  <1>3. PICK m : m = [manager[At(t)] EXCEPT !.instances[Target].ballot = LargestBallot(@, R)]
    OBVIOUS
  <1>4. R \in SUBSET RepliesTo(t)
    BY DEF PrepareQuorums
  <1>5. MayBecome(At(t), m)
    BY <1>1, <1>3, <1>4, RaiseBallot
  <1>6. ASSUME NEW k, MayBecome(At(t), k), EndWait(t, k, "retry")
        PROVE  IInv' /\ NobodyBack
    BY <1>1, <1>6, QuorumStep
  <1>7. ASSUME NEW x \in {r.inst : r \in R} \ {Nil}
        PROVE  /\ MayBecome(At(t), acceptInstance(m, Target, x, FALSE))
               /\ MayBecome(At(t), commitInstance(m, Target, x, FALSE))
    <2>1. x \in Instance
      BY <1>4, <1>7 DEF RepliesTo, IInv, TypeOK, Reply
    <2>2. m \in ManagerType /\ Advances(Local(At(t)), m.instances[Target])
      BY <1>5 DEF MayBecome
    <2> QED  BY <1>1, <2>1, <2>2, MethodsMayBecome
  <1> QED  BY <1>2, <1>3, <1>5, <1>6, <1>7

LEMMA PhaseForType ==
    ASSUME NEW s \in 0..INSTANCE_EXECUTED
    PROVE  PhaseFor(s) \in {"mustPreAccept", "mustAccept", "mustCommit"}
  <1>1. CASE s <= INSTANCE_PREACCEPTED
    BY <1>1 DEF PhaseFor
  <1>2. CASE s = INSTANCE_ACCEPTED
    BY <1>2 DEF PhaseFor
  <1>3. CASE s >= INSTANCE_COMMITTED
    BY <1>3 DEF PhaseFor
  <1> QED  BY <1>1, <1>2, <1>3

\* managerPrepareApply goes on from an instance of the replies or from its own
LEMMA PrepareAcceptedStep ==
    ASSUME IInv, NEW t \in Task, PrepareAccepted(t)
    PROVE  IInv' /\ NobodyBack
  <1>1. /\ pc[t] = "prepare" /\ At(t) \in Node /\ Local(At(t)) # Nil
        /\ UNCHANGED <<up, succ, tried>> /\ Status(At(t)) \in 0..INSTANCE_EXECUTED
    <2>1. pc[t] = "prepare"
      BY DEF PrepareAccepted
    <2> QED  BY <2>1, OwnState, LocalType DEF PrepareAccepted
  <1> DEFINE s == Status(At(t))
  <1>2. PICK R \in PrepareQuorums(t) :
          LET seen == {r.inst : r \in R} \ {Nil}
              m == [manager[At(t)] EXCEPT !.instances[Target].ballot = LargestBallot(@, R)]
          IN  \/ /\ EndWait(t, [m EXCEPT !.instances[Target].noop =
                                    @ \/ s <= INSTANCE_PREACCEPTED], "mustPreAccept")
                 /\ UNCHANGED using
              \/ EndWait(t, m, PhaseFor(s)) /\ UNCHANGED using
              \/ \E x \in seen : EndWait(t, m, PhaseFor(x.status)) /\ using' = [using EXCEPT ![t] = x]
    <2>1. \A S : Analyzed(S) \subseteq S
      BY DEF Analyzed
    <2> QED  BY <2>1 DEF PrepareAccepted
  <1>3. PICK m : m = [manager[At(t)] EXCEPT !.instances[Target].ballot = LargestBallot(@, R)]
    OBVIOUS
  <1>4. R \in SUBSET RepliesTo(t)
    BY DEF PrepareQuorums
  <1>5. MayBecome(At(t), m) /\ m.instances[Target] \in Instance
    BY <1>1, <1>3, <1>4, RaiseBallot
  <1>6. CASE /\ EndWait(t, [m EXCEPT !.instances[Target].noop =
                               @ \/ s <= INSTANCE_PREACCEPTED], "mustPreAccept")
             /\ UNCHANGED using
    <2>1. PICK y : y = [m.instances[Target] EXCEPT !.noop = @ \/ s <= INSTANCE_PREACCEPTED]
      OBVIOUS
    <2>2. /\ y \in Instance /\ y.status = m.instances[Target].status
          /\ y.ballot = m.instances[Target].ballot
      BY <1>5, <2>1 DEF Instance
    <2>3. Advances(Local(At(t)), y)
      BY <1>5, <2>2, NilAssumption DEF MayBecome, Advances
    <2>4. MayBecome(At(t), [m EXCEPT !.instances[Target] = y])
      <3>1. m \in ManagerType
        BY <1>5 DEF MayBecome
      <3> QED  BY <1>1, <2>2, <2>3, <3>1, SetRow
    <2>5. EndWait(t, [m EXCEPT !.instances[Target] = y], "mustPreAccept")
      BY <1>6, <2>1
    <2> QED  BY <1>1, <1>6, <2>4, <2>5, QuorumStep
  <1>7. CASE EndWait(t, m, PhaseFor(s)) /\ UNCHANGED using
    <2>1. PhaseFor(s) \in {"mustPreAccept", "mustAccept", "mustCommit"}
      BY <1>1, PhaseForType
    <2> QED  BY <1>1, <1>5, <1>7, <2>1, QuorumStep
  <1>8. ASSUME NEW x \in {r.inst : r \in R} \ {Nil},
               EndWait(t, m, PhaseFor(x.status)), using' = [using EXCEPT ![t] = x]
        PROVE  IInv' /\ NobodyBack
    <2>1. x \in Instance
      BY <1>4, <1>8 DEF RepliesTo, IInv, TypeOK, Reply
    <2>2. PhaseFor(x.status) \in {"mustPreAccept", "mustAccept", "mustCommit"}
      BY <2>1, PhaseForType DEF Instance
    <2> QED  BY <1>1, <1>5, <1>8, <2>1, <2>2, QuorumStep
  <1> HIDE DEF s
  <1> QED  BY <1>2, <1>3, <1>6, <1>7, <1>8

\* Every reply brings the dependencies of the pre-accepted instance
LEMMA PreAcceptQuorumStep ==
    ASSUME IInv, NEW t \in Task, PreAcceptQuorum(t)
    PROVE  IInv' /\ NobodyBack
  <1>1. /\ pc[t] = "preaccept" /\ At(t) \in Node /\ Local(At(t)) \in Instance
        /\ UNCHANGED <<up, using, succ, tried>> /\ manager[At(t)] \in ManagerType
    <2>1. pc[t] = "preaccept"
      BY DEF PreAcceptQuorum
    <2> QED  BY <2>1, OwnState, LocalType DEF PreAcceptQuorum, progress
  <1>2. PICK R \in Quorums(t) :
          LET m == addMissingInstances(manager[At(t)], MissingFrom(R))
              x == m.instances[Target]
              d == {r.inst.deps : r \in R}
          IN  EndWait(t, [m EXCEPT !.instances[Target] = mergeAttributes(x, d)],
                    IF x.status # INSTANCE_PREACCEPTED THEN AfterError(t, FALSE)
                    ELSE IF mergeChanges(x, d) THEN "mustAccept" ELSE "mustCommit")
    BY DEF PreAcceptQuorum
  <1>3. R \subseteq replies /\ \A r \in R : r \in Reply /\ r.by = t
    BY DEF Quorums, RepliesTo, IInv, TypeOK
  <1>4. PICK f : f = MissingFrom(R)
    OBVIOUS
  <1>5. f \in [Inst -> Row]
    <2> SUFFICES ASSUME NEW j \in Inst
                 PROVE  MissingFrom(R)[j] \in Row
      BY <1>4 DEF MissingFrom
    <2> DEFINE C == {r.missing[j] : r \in R} \ {Nil}
    <2>1. C \subseteq Row
      BY <1>3 DEF Reply, Row
    <2>2. MissingFrom(R)[j] = IF C = {} THEN Nil ELSE CHOOSE x \in C : TRUE
      BY DEF MissingFrom
    <2> HIDE DEF C
    <2> QED  BY <2>1, <2>2 DEF Row
  <1>6. PICK m \in ManagerType : m = addMissingInstances(manager[At(t)], f)
    BY <1>1, <1>5, AddMissing
  <1>7. m.instances[Target] = Local(At(t))
    BY <1>1, <1>5, <1>6, AddMissing, RecoveryAssumption, NilAssumption DEF Local
  <1>8. PICK x \in Instance : x = m.instances[Target]
    BY <1>1, <1>7
  <1>9. PICK d : d = {r.inst.deps : r \in R}
    OBVIOUS
  <1>10. d \subseteq SUBSET Inst
    <2>1. \A r \in R : r.inst \in Instance
      BY <1>1, <1>3 DEF IInv, RepliesOK, Reply
    <2> QED  BY <1>9, <2>1 DEF Instance
  <1>11. PICK y : y = mergeAttributes(x, d)
    OBVIOUS
  <1>12. y \in Instance /\ y.status = x.status /\ y.ballot = x.ballot
    <2>1. x.deps \cup UNION d \in SUBSET Inst
      BY <1>10 DEF Instance
    <2> QED  BY <1>11, <2>1 DEF mergeAttributes, Instance
  <1>13. Advances(Local(At(t)), y)
    BY <1>7, <1>8, <1>12, NilAssumption DEF Advances, Instance
  <1>14. MayBecome(At(t), [m EXCEPT !.instances[Target] = y])
    BY <1>1, <1>12, <1>13, SetRow
  <1>15. PICK p : /\ p = IF x.status # INSTANCE_PREACCEPTED THEN AfterError(t, FALSE)
                         ELSE IF mergeChanges(x, d) THEN "mustAccept" ELSE "mustCommit"
                  /\ EndWait(t, [m EXCEPT !.instances[Target] = y], p)
    BY <1>2, <1>4, <1>6, <1>8, <1>9, <1>11
  <1>16. p \in {"mustPreAccept", "mustAccept", "mustCommit", "retry", "failed"}
    BY <1>15, AfterErrorType
  <1> QED  BY <1>1, <1>14, <1>15, <1>16, QuorumStep
-----------------------------------------------------------------------------
LEMMA Requested ==
    ASSUME IInv, NEW r \in net
    PROVE  /\ r \in Request /\ r.to \in Node /\ r.by \in Task /\ r.ballot \in Nat
           /\ r.type \in {"PreAccept", "Accept", "Commit"} => r.inst \in Instance
           /\ manager[r.to] \in ManagerType
           /\ Local(r.to) # Nil => Local(r.to) \in Instance
           /\ MayBecome(r.to, manager[r.to])
           /\ Advances(Local(r.to), manager[r.to].instances[Target])
  <1>1. TypeOK /\ r \in Request
    BY DEF IInv, TypeOK
  <1>2. r.to \in Node /\ r.by \in Task /\ r.ballot \in Nat
    BY <1>1 DEF Request
  <1>3. r.type \in {"PreAccept", "Accept", "Commit"} => r.inst \in Instance
    BY <1>1 DEF Request, IInv, RequestsOK
  <1> QED  BY <1>1, <1>2, <1>3, LocalType, SameManager DEF MayBecome

\* An answer of a handler
LEMMA AnswerType ==
    ASSUME NEW r \in Request, NEW b \in BOOLEAN, NEW k \in Nat, NEW x \in Row, NEW f \in [Inst -> Row]
    PROVE  AnswerTo(r, Answer(r, b, k, x, f), x)
  <1>1. PICK a : a = [by |-> r.by, from |-> r.to, accepted |-> b, ballot |-> k,
                      inst |-> x, missing |-> f]
    OBVIOUS
  <1>2. a \in Reply
    <2>1. r.by \in Task /\ r.to \in Node
      BY DEF Request
    <2>2. x \in Instance \cup {Nil} /\ f \in [Inst -> Instance \cup {Nil}]
      BY DEF Row
    <2> QED  BY <1>1, <2>1, <2>2 DEF Reply
  <1>3. Answer(r, b, k, x, f) = {a} /\ a.by = r.by /\ a.inst = x
    BY <1>1 DEF Answer
  <1> QED  BY <1>2, <1>3 DEF AnswerTo

LEMMA NoMissingType == NoMissing \in [Inst -> Row]
  BY DEF NoMissing, Row

LEMMA HandlePreAcceptStep ==
    ASSUME IInv, NEW r \in net, HandlePreAccept(r)
    PROVE  IInv' /\ NobodyBack
  <1>1. r.type = "PreAccept" /\ pc' = pc /\ r.inst \in Instance
    BY Requested DEF HandlePreAccept
  <1>2. PICK m : m = preAcceptInstance(manager[r.to], Target, r.inst, FALSE)
    OBVIOUS
  <1>3. MayBecome(r.to, m) /\ m.instances[Target] \in Instance
    BY <1>1, <1>2, Requested, MethodsMayBecome
  <1>4. PICK x \in Instance : x = m.instances[Target]
    BY <1>3
  <1>5. PICK f : f = [j \in Inst |-> IF j \in x.deps \ r.inst.deps THEN m.instances[j] ELSE Nil]
    OBVIOUS
  <1>6. f \in [Inst -> Row]
    BY <1>3, <1>5 DEF MayBecome, ManagerType, Row
  <1>7. \/ /\ Local(r.to) # Nil
           /\ Handled(r, manager[r.to],
                 Answer(r, FALSE, Local(r.to).ballot, Local(r.to), NoMissing))
        \/ Handled(r, m, Answer(r, TRUE, x.ballot, x, f))
    BY <1>2, <1>4, <1>5 DEF HandlePreAccept, Stale
  <1>8. CASE /\ Local(r.to) # Nil
             /\ Handled(r, manager[r.to],
                   Answer(r, FALSE, Local(r.to).ballot, Local(r.to), NoMissing))
    <2>1. Local(r.to) \in Row /\ Local(r.to).ballot \in Nat
      BY <1>8, Requested DEF Row, Instance
    <2>2. AnswerTo(r, Answer(r, FALSE, Local(r.to).ballot, Local(r.to), NoMissing), Local(r.to))
      BY <2>1, Requested, AnswerType, NoMissingType
    <2>3. PICK l, A : l = Local(r.to) /\ A = Answer(r, FALSE, Local(r.to).ballot, Local(r.to), NoMissing)
      OBVIOUS
    <2>4. l # Nil /\ Handled(r, manager[r.to], A) /\ AnswerTo(r, A, l) /\ MayBecome(r.to, manager[r.to])
      BY <1>8, <2>2, <2>3, Requested
    <2> QED  BY <1>1, <2>4, HandledStep
  <1>9. CASE Handled(r, m, Answer(r, TRUE, x.ballot, x, f))
    <2>1. x \in Row /\ x.ballot \in Nat /\ x # Nil
      BY NilAssumption DEF Row, Instance
    <2>2. AnswerTo(r, Answer(r, TRUE, x.ballot, x, f), x)
      BY <1>6, <2>1, Requested, AnswerType
    <2> QED  BY <1>1, <1>3, <1>9, <2>1, <2>2, HandledStep
  <1> QED  BY <1>7, <1>8, <1>9

LEMMA HandleAcceptStep ==
    ASSUME IInv, NEW r \in net, HandleAccept(r)
    PROVE  IInv' /\ NobodyBack
  <1>1. r.type = "Accept" /\ pc' = pc /\ r.inst \in Instance /\ Nil \in Row
    BY Requested DEF HandleAccept, Row
  <1>2. CASE /\ Local(r.to) # Nil
             /\ Handled(r, manager[r.to], Answer(r, FALSE, Local(r.to).ballot, Nil, NoMissing))
    <2>1. Local(r.to).ballot \in Nat
      BY <1>2, Requested DEF Instance
    <2>2. AnswerTo(r, Answer(r, FALSE, Local(r.to).ballot, Nil, NoMissing), Nil)
      BY <1>1, <2>1, Requested, AnswerType, NoMissingType
    <2> QED  BY <1>1, <1>2, <2>2, Requested, HandledStep
  <1>3. CASE Handled(r, acceptInstance(manager[r.to], Target, r.inst, FALSE),
                     Answer(r, TRUE, 0, Nil, NoMissing))
    <2>1. MayBecome(r.to, acceptInstance(manager[r.to], Target, r.inst, FALSE))
      BY <1>1, Requested, MethodsMayBecome
    <2>2. AnswerTo(r, Answer(r, TRUE, 0, Nil, NoMissing), Nil)
      BY <1>1, Requested, AnswerType, NoMissingType
    <2> QED  BY <1>1, <1>3, <2>1, <2>2, HandledStep
  <1> QED  BY <1>2, <1>3 DEF HandleAccept, Stale

LEMMA HandleCommitStep ==
    ASSUME IInv, NEW r \in net, HandleCommit(r)
    PROVE  IInv' /\ NobodyBack
  <1>1. r.type = "Commit" /\ pc' = pc /\ r.inst \in Instance
    BY Requested DEF HandleCommit
  <1>2. MayBecome(r.to, commitInstance(manager[r.to], Target, r.inst, FALSE))
    BY <1>1, Requested, MethodsMayBecome
  <1> QED  BY <1>1, <1>2, HandledStep DEF HandleCommit

LEMMA HandlePrepareStep ==
    ASSUME IInv, NEW r \in net, HandlePrepare(r)
    PROVE  IInv' /\ NobodyBack
  <1>1. r.type = "Prepare" /\ pc' = pc /\ Nil \in Row
    BY DEF HandlePrepare, Row
  <1>2. PICK y : y = updateBallot(Local(r.to), r.ballot)
    OBVIOUS
  <1>3. CASE Handled(r, manager[r.to], Answer(r, TRUE, 0, Nil, NoMissing))
    <2>1. AnswerTo(r, Answer(r, TRUE, 0, Nil, NoMissing), Nil)
      BY <1>1, Requested, AnswerType, NoMissingType
    <2> QED  BY <1>1, <1>3, <2>1, Requested, HandledStep
  <1>4. CASE /\ Local(r.to) # Nil
             /\ Handled(r, [manager[r.to] EXCEPT !.instances[Target] = y],
                        Answer(r, TRUE, y.ballot, y, NoMissing))
    <2>1. Local(r.to) \in Instance
      BY <1>4, Requested
    <2>2. y \in Instance /\ y.status = Local(r.to).status /\ y.ballot >= Local(r.to).ballot
      BY <1>2, <2>1, Requested DEF updateBallot, Larger, Instance
    <2>3. Advances(Local(r.to), y) /\ y \in Row /\ y.ballot \in Nat
      BY <2>1, <2>2, NilAssumption DEF Advances, Row, Instance
    <2>4. MayBecome(r.to, [manager[r.to] EXCEPT !.instances[Target] = y])
      <3>1. PICK k \in ManagerType : k = manager[r.to]
        BY Requested
      <3> QED  BY <2>2, <2>3, <3>1, Requested, SetRow
    <2>5. AnswerTo(r, Answer(r, TRUE, y.ballot, y, NoMissing), y)
      BY <2>3, Requested, AnswerType, NoMissingType
    <2> QED  BY <1>1, <1>4, <2>4, <2>5, HandledStep
  <1>5. CASE /\ Local(r.to) # Nil
             /\ Handled(r, manager[r.to],
                        Answer(r, FALSE, Local(r.to).ballot, Local(r.to), NoMissing))
    <2>1. Local(r.to) \in Row /\ Local(r.to).ballot \in Nat
      BY <1>5, Requested DEF Row, Instance
    <2>2. AnswerTo(r, Answer(r, FALSE, Local(r.to).ballot, Local(r.to), NoMissing), Local(r.to))
      BY <2>1, Requested, AnswerType, NoMissingType
    <2> QED  BY <1>1, <1>5, <2>2, Requested, HandledStep
  <1> QED  BY <1>2, <1>3, <1>4, <1>5 DEF HandlePrepare

LEMMA HandlePrepareSuccessorStep ==
    ASSUME IInv, NEW r \in net, HandlePrepareSuccessor(r)
    PROVE  IInv' /\ NobodyBack
  <1>1. /\ r.type = "Successor" /\ r.to # Leader
        /\ Handled(r, manager[r.to], Answer(r, TRUE, 0, Local(r.to), NoMissing))
    BY DEF HandlePrepareSuccessor, IInv, RequestsOK
  <1>2. AnswerTo(r, Answer(r, TRUE, 0, Local(r.to), NoMissing), Local(r.to))
    <2>1. Local(r.to) \in Row
      BY Requested DEF Row
    <2> QED  BY <2>1, Requested, AnswerType, NoMissingType
  <1>3. ASSUME pc' # pc
        PROVE  \E s \in Task : /\ pc[s] = "idle" /\ Local(At(s)) # Nil
                               /\ pc' = [pc EXCEPT ![s] = "try"]
    <2>1. PICK s : s = <<"successor", r.to>>
      OBVIOUS
    <2>2. s \in Task /\ At(s) = r.to
      BY <1>1, <2>1, Requested DEF Task, At
    <2> QED  BY <1>3, <2>1, <2>2 DEF HandlePrepareSuccessor
  <1> QED  BY <1>1, <1>2, <1>3, Requested, HandledStep

LEMMA StopStep ==
    ASSUME IInv, NEW n \in Node, Stop(n)
    PROVE  IInv' /\ NobodyBack
  <1>1. /\ TypeOK /\ UNCHANGED <<manager, pc, using, succ, tried>>
        /\ net' \subseteq net /\ replies' \subseteq replies /\ up' \subseteq up
    BY DEF Stop, IInv, progress
  <1>2. NobodyBack /\ manager' \in [Node -> ManagerType]
    BY <1>1, SameManager DEF TypeOK
  <1>3. \A t \in Task : TaskOK(t)'
    BY <1>1, <1>2, OthersOK
  <1>4. TypeOK'
    BY <1>1 DEF TypeOK
  <1>5. RequestsOK' /\ RepliesOK' /\ BallotsBounded'
    BY <1>1 DEF IInv, RequestsOK, RepliesOK, BallotsBounded
  <1> QED  BY <1>2, <1>3, <1>4, <1>5 DEF IInv
-----------------------------------------------------------------------------
LEMMA InitInv == Init => IInv
  <1> SUFFICES ASSUME Init
               PROVE  IInv
    OBVIOUS
  <1>1. CommittedElsewhere \in Instance /\ makeInstance \in Instance
    BY DEF CommittedElsewhere, makeInstance, Instance
  <1>2. manager \in [Node -> ManagerType]
    <2> SUFFICES ASSUME NEW n \in Node
                 PROVE  manager[n] \in ManagerType
      BY DEF Init
    <2> DEFINE I == [i \in Inst |-> IF i \in Knows[n] THEN CommittedElsewhere ELSE Nil]
               D == [k \in Key |->
                       [newDependencies EXCEPT !.writes = {i \in Knows[n] : KeyOf[i] = k}]]
    <2>1. I \in [Inst -> Instance \cup {Nil}]
      BY <1>1
    <2>2. D \in [Key -> DependenciesType(Inst)]
      BY RecoveryAssumption DEF newDependencies, DependenciesType
    <2>3. <<>> \in Seq(Inst)
      OBVIOUS
    <2>4. manager[n] = [instances |-> I, depsMngr |-> D, executed |-> <<>>]
      BY DEF Init
    <2> HIDE DEF I, D
    <2> QED  BY <2>1, <2>2, <2>3, <2>4 DEF ManagerType
  <1>3. TypeOK
    <2>1. 0 \in 0..Tries
      BY RecoveryAssumption
    <2> QED  BY <1>1, <1>2, <2>1 DEF Init, TypeOK, Preparing
  <1>4. \A t \in Task : TaskOK(t)
    <2> TAKE t \in Task
    <2>1. pc[t] = "idle" \/ (pc[t] = "mustPreAccept" /\ using[t] = makeInstance)
      BY DEF Init
    <2>2. tried[t] < Tries /\ succ[t] >= 1
      BY RecoveryAssumption DEF Init
    <2> QED  BY <1>1, <2>1, <2>2, NilAssumption DEF TaskOK
  <1>5. RequestsOK /\ RepliesOK /\ BallotsBounded
    <2>1. 0 \in Nat
      OBVIOUS
    <2> QED  BY <2>1 DEF Init, RequestsOK, RepliesOK, BallotsBounded
  <1> QED  BY <1>3, <1>4, <1>5 DEF IInv

LEMMA NextInv == IInv /\ [Next]_vars => IInv' /\ [NobodyBack]_vars
  <1> SUFFICES ASSUME IInv, [Next]_vars
               PROVE  IInv' /\ NobodyBack
    OBVIOUS
  <1>1. CASE UNCHANGED vars
    <2>1. NobodyBack /\ TypeOK
      BY <1>1, SameManager DEF vars, IInv
    <2>2. \A t \in Task : TaskOK(t)'
      BY <1>1, <2>1, OthersOK DEF vars, TypeOK
    <2>3. TypeOK' /\ RequestsOK' /\ RepliesOK' /\ BallotsBounded'
      BY <1>1, <2>1 DEF vars, TypeOK, IInv, RequestsOK, RepliesOK, BallotsBounded
    <2> QED  BY <2>1, <2>2, <2>3 DEF IInv
  <1>2. ASSUME NEW t \in Task, Step(t)
        PROVE  IInv' /\ NobodyBack
    BY <1>2, ShouldProceedStep, AskSuccessorStep, SuccessorAnswersStep, SuccessorSilentStep,
       ContactAgainStep, CommittedMeanwhileStep, SendPrepareStep, PrepareRejectedStep,
       PrepareAcceptedStep, StartPreAcceptStep, PreAcceptQuorumStep, PhaseRejectedStep,
       StartAcceptStep, AcceptQuorumStep, CommitPhaseStep, RetryStep DEF Step
  <1>3. ASSUME NEW t \in Task, WaitTimeout(t)
        PROVE  IInv' /\ NobodyBack
    BY <1>3, WaitTimeoutStep
  <1>4. ASSUME NEW n \in up \cap Preparers, StartExecute(n)
        PROVE  IInv' /\ NobodyBack
    BY <1>4, StartExecuteStep, RecoveryAssumption
  <1>5. ASSUME NEW r \in net, Handle(r)
        PROVE  IInv' /\ NobodyBack
    BY <1>5, HandlePreAcceptStep, HandleAcceptStep, HandleCommitStep, HandlePrepareStep,
       HandlePrepareSuccessorStep DEF Handle
  <1>6. ASSUME NEW n \in Node, Stop(n)
        PROVE  IInv' /\ NobodyBack
    BY <1>6, StopStep
  <1> QED  BY <1>1, <1>2, <1>3, <1>4, <1>5, <1>6 DEF Next

(***************************************************************************)
(* The inductive invariant: a goroutine of a prepare only ever gets the    *)
(* answers to what it asks for now, its node has the instance, and when it *)
(* has ended without an error the instance is committed there.             *)
(***************************************************************************)
THEOREM Invariance == Spec => []IInv
  <1>1. IInv /\ [Next]_vars => IInv'
    BY NextInv
  <1> QED  BY InitInv, <1>1, PTL DEF Spec

(***************************************************************************)
(* Every variable of the model of explicit prepare keeps its type; in      *)
(* particular no goroutine tries more than BALLOT_FAILURE_RETRIES times    *)
(* (managerPrepare's callers).                                             *)
(***************************************************************************)
THEOREM TypeCorrect == Spec => []TypeOK
  <1>1. IInv => TypeOK
    BY DEF IInv
  <1> QED  BY Invariance, <1>1, PTL

(***************************************************************************)
(* Whoever leads or prepares the instance, and whatever older requests are *)
(* still on their way, no node forgets it or goes back in its status or    *)
(* ballot (preaccept, accept, commit, updateBallot).                       *)
(***************************************************************************)
THEOREM NobodyGoesBack == Spec => StatusNeverBack
  <1>1. IInv /\ [Next]_vars => [\A n \in Node : NeverBack(n)]_vars
    BY NextInv DEF NobodyBack
  <1> QED  BY Invariance, <1>1, PTL DEF Spec, StatusNeverBack

(***************************************************************************)
(* A prepare that ends without an error leaves the instance committed at   *)
(* its node (managerPrepareInstance), for executeInstance to go on.        *)
(***************************************************************************)
THEOREM PreparedIsCommitted == Spec => []PrepareCommits
  <1>1. IInv => PrepareCommits
    BY DEF IInv, TaskOK, PrepareCommits
  <1> QED  BY Invariance, <1>1, PTL
=============================================================================
