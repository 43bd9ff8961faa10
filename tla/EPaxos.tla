------------------------------- MODULE EPaxos -------------------------------
(***************************************************************************)
(* The consensus of the replicas of a token range: every client query is   *)
(* an instance, led by the node that received it through the pre-accept,   *)
(* accept and commit phases (Manager.ExecutePaxos), then executed there    *)
(* after the instances it depends on (Manager.executeInstance).  Each      *)
(* leader is a goroutine of its own; requests are delivered in any order   *)
(* and as late as it takes, and a phase may time out.  Explicit prepare,   *)
(* by which other nodes take over an instance, is not part of this module: *)
(* execution waits for its dependencies to be committed.                   *)
(***************************************************************************)
EXTENDS Manager

CONSTANTS
    Node,      \* the replicas
    Leader,    \* instance -> the node its client contacted
    After,     \* instance -> instances that are over when its client sends it
    Failing,   \* instances whose instruction the store answers with an error
    MayTimeout \* instances whose leader may give up waiting for replies

ASSUME NodeAssumption == IsFiniteSet(Node) /\ Leader \in [Inst -> Node]
\* An instance id is a time based UUID: its order is that of the numbers here
ASSUME InstAssumption == Inst \subseteq Nat /\ IsFiniteSet(Inst)
ASSUME ScenarioAssumption ==
    After \in [Inst -> SUBSET Inst] /\ Failing \subseteq Inst /\ MayTimeout \subseteq Inst

VARIABLES
    manager,   \* node -> its Manager
    net,       \* requests sent and not yet handled
    replies,   \* replies the leaders have received in their current phase
    pc,        \* instance -> where its leader's goroutine is
    chain      \* instance -> what executeDependencyChain has left to do

vars == <<manager, net, replies, pc, chain>>

\* getInstanceReplicas: the other nodes of the token range
Replicas(n) == Node \ {n}

\* Mutant: one short of a quorum
QuorumTooSmall == (Cardinality(Node) - 1) \div 2

\* Counted from the other replicas: a majority only when Node is odd
QuorumSize == (Cardinality(Node) - 1) \div 2 + 1

\* A request of the leader, awaited as long as its phase lasts
Request == [type    : {"PreAccept", "Accept", "Commit"},
            to      : Node,
            id      : Inst,
            inst    : Instance,
            awaited : BOOLEAN]

\* PreAcceptResponse and AcceptResponse (which carries no instance)
Reply == [id       : Inst,
          from     : Node,
          accepted : BOOLEAN,
          ballot   : Nat,
          deps     : SUBSET Inst,
          missing  : [Inst -> Instance \cup {Nil}]]

NoMissing == [j \in Inst |-> Nil]

Phases == {"idle", "preaccept", "mustAccept", "accept", "mustCommit",
           "execute", "apply", "done", "failed"}

TypeOK ==
    /\ manager \in [Node -> ManagerType]
    /\ net \subseteq Request
    /\ replies \subseteq Reply
    /\ pc \in [Inst -> Phases]
    /\ chain \in [Inst -> Seq(Inst)]

Init ==
    /\ manager = [n \in Node |-> NewManager]
    /\ net = {}
    /\ replies = {}
    /\ pc = [i \in Inst |-> "idle"]
    /\ chain = [i \in Inst |-> <<>>]
-----------------------------------------------------------------------------
Status(n, i) ==
    IF manager[n].instances[i] = Nil THEN 0 ELSE manager[n].instances[i].status
Deps(n, i) == manager[n].instances[i].deps
Committed(n, i) == Status(n, i) >= INSTANCE_COMMITTED

\* Send a copy of the leader's instance x to the other replicas
Broadcast(type, i, x, awaited) ==
    {[type |-> type, to |-> n, id |-> i, inst |-> x, awaited |-> awaited] :
        n \in Replicas(Leader[i])}

\* The leader stops listening; its requests are still on their way
Unawaited(i) ==
    {IF r.id = i THEN [r EXCEPT !.awaited = FALSE] ELSE r : r \in net}

RepliesTo(i) == {r \in replies : r.id = i}

\* The replies a phase goes on with: the first ones, up to a quorum
QuorumsOf(i) ==
    {R \in SUBSET RepliesTo(i) : Cardinality(R) = QuorumSize - 1}

\* End the wait of the leader of i: it goes on at p with manager m
EndWait(i, p, m) ==
    /\ manager' = [manager EXCEPT ![Leader[i]] = m]
    /\ pc' = [pc EXCEPT ![i] = p]
    /\ net' = Unawaited(i)
    /\ replies' = replies \ RepliesTo(i)
    /\ UNCHANGED chain

\* The ballot updateInstanceBallotFromResponses leaves on the instance: the
\* largest one seen
BallotFrom(m, i, R) ==
    LET seen == {m.instances[i].ballot} \cup {r.ballot : r \in R}
    IN  {b \in seen : \A c \in seen : b >= c}
-----------------------------------------------------------------------------
\* ExecuteQuery and the start of preAcceptPhase
StartPreAccept(i) ==
    LET l == Leader[i]
        m == preAcceptInstance(manager[l], i, makeInstance, TRUE)
    IN  /\ pc[i] = "idle"
        /\ \A j \in After[i] : pc[j] \in {"done", "failed"}
        /\ manager' = [manager EXCEPT ![l] = m]
        /\ net' = net \cup Broadcast("PreAccept", i, m.instances[i], TRUE)
        /\ pc' = [pc EXCEPT ![i] = "preaccept"]
        /\ UNCHANGED <<replies, chain>>

\* The copies of missing instances in the replies: of several for one instance
\* the first to arrive is taken, so any one
MissingFrom(R) ==
    {f \in [Inst -> {Nil} \cup UNION {{r.missing[j] : j \in Inst} : r \in R}] :
        \A j \in Inst : LET copies == {r.missing[j] : r \in R} \ {Nil}
                        IN  f[j] \in IF copies = {} THEN {Nil} ELSE copies}

\* sendPreAccept has its replies and one is a rejection: the error is logged,
\* acceptRequired is false and ExecutePaxos goes on to commit
PreAcceptRejected(i) ==
    LET m == manager[Leader[i]]
    IN  /\ pc[i] = "preaccept"
        /\ \E R \in QuorumsOf(i) : \E b \in BallotFrom(m, i, R) :
              /\ \E r \in R : ~r.accepted
              /\ EndWait(i, "mustCommit", [m EXCEPT !.instances[i].ballot = b])

\* All replies accepted: add the missing instances, merge the dependencies,
\* and run the accept phase only if that changed them
PreAcceptQuorum(i) ==
    /\ pc[i] = "preaccept"
    /\ \E R \in QuorumsOf(i) :
          /\ \A r \in R : r.accepted
          /\ \E missing \in MissingFrom(R) :
                LET m == addMissingInstances(manager[Leader[i]], missing)
                    x == m.instances[i]
                    d == {r.deps : r \in R}
                IN  EndWait(i, IF mergeChanges(x, d) THEN "mustAccept" ELSE "mustCommit",
                            [m EXCEPT !.instances[i] = mergeAttributes(x, d)])

\* acceptPhase up to its wait
StartAccept(i) ==
    LET l == Leader[i]
        m == acceptInstance(manager[l], i, manager[l].instances[i], TRUE)
    IN  /\ pc[i] = "mustAccept"
        /\ manager' = [manager EXCEPT ![l] = m]
        /\ net' = net \cup Broadcast("Accept", i, m.instances[i], TRUE)
        /\ pc' = [pc EXCEPT ![i] = "accept"]
        /\ UNCHANGED <<replies, chain>>

\* sendAccept has its replies, all accepted
AcceptQuorum(i) ==
    /\ pc[i] = "accept"
    /\ \E R \in QuorumsOf(i) :
          /\ \A r \in R : r.accepted
          /\ EndWait(i, "mustCommit", manager[Leader[i]])

\* or one is a rejection: the error is logged and ExecutePaxos commits all the same
AcceptRejected(i) ==
    LET m == manager[Leader[i]]
    IN  /\ pc[i] = "accept"
        /\ \E R \in QuorumsOf(i) : \E b \in BallotFrom(m, i, R) :
              /\ \E r \in R : ~r.accepted
              /\ EndWait(i, "mustCommit", [m EXCEPT !.instances[i].ballot = b])

\* A timeout in either phase is logged and ExecutePaxos goes on to commit
PhaseTimeout(i) ==
    /\ pc[i] \in {"preaccept", "accept"}
    /\ i \in MayTimeout
    /\ EndWait(i, "mustCommit", manager[Leader[i]])

\* commitPhase: nobody waits for the replies
LeaderCommit(i) ==
    LET l == Leader[i]
        m == commitInstance(manager[l], i, manager[l].instances[i], TRUE)
    IN  /\ pc[i] = "mustCommit"
        /\ manager' = [manager EXCEPT ![l] = m]
        /\ net' = net \cup Broadcast("Commit", i, m.instances[i], FALSE)
        /\ pc' = [pc EXCEPT ![i] = "execute"]
        /\ UNCHANGED <<replies, chain>>
-----------------------------------------------------------------------------
\* Handle request r: the replica's manager becomes m, and the reply reaches the
\* leader if it still waits
Handled(r, m, Answers) ==
    /\ manager' = [manager EXCEPT ![r.to] = m]
    /\ net' = net \ {r}
    /\ replies' = replies \cup IF r.awaited THEN Answers ELSE {}
    /\ UNCHANGED <<pc, chain>>

\* A replica refuses a request whose ballot is not above its own
Stale(r) ==
    /\ manager[r.to].instances[r.id] # Nil
    /\ manager[r.to].instances[r.id].ballot >= r.inst.ballot

HandlePreAccept(r) ==
    /\ r.type = "PreAccept"
    /\ LET old == manager[r.to].instances[r.id]
           m == preAcceptInstance(manager[r.to], r.id, r.inst, FALSE)
           x == m.instances[r.id]
       IN  \/ /\ Stale(r)
              /\ Handled(r, manager[r.to],
                    {[id |-> r.id, from |-> r.to, accepted |-> FALSE,
                      ballot |-> old.ballot, deps |-> old.deps, missing |-> NoMissing]})
           \/ /\ ~Stale(r)
              /\ Handled(r, m,
                    {[id |-> r.id, from |-> r.to, accepted |-> TRUE,
                      ballot |-> x.ballot, deps |-> x.deps,
                      missing |-> [j \in Inst |-> IF j \in x.deps \ r.inst.deps
                                                 THEN m.instances[j] ELSE Nil]]})

HandleAccept(r) ==
    /\ r.type = "Accept"
    /\ \/ /\ Stale(r)
          /\ Handled(r, manager[r.to],
                {[id |-> r.id, from |-> r.to, accepted |-> FALSE,
                  ballot |-> manager[r.to].instances[r.id].ballot,
                  deps |-> {}, missing |-> NoMissing]})
       \/ /\ ~Stale(r)
          /\ Handled(r, acceptInstance(manager[r.to], r.id, r.inst, FALSE),
                {[id |-> r.id, from |-> r.to, accepted |-> TRUE,
                  ballot |-> 0, deps |-> {}, missing |-> NoMissing]})

\* Whatever the ballot; a replica does not execute what it is told is committed
HandleCommit(r) ==
    /\ r.type = "Commit"
    /\ Handled(r, commitInstance(manager[r.to], r.id, r.inst, FALSE), {})
-----------------------------------------------------------------------------
\* getExecutionOrder meets an instance this node never heard of: executeInstance
\* returns the error, nobody looks at it
UnknownDependency(i) ==
    LET m == manager[Leader[i]]
    IN  /\ pc[i] = "execute"
        /\ \E j \in ExecutionGraph(m, i) : m.instances[j] = Nil
        /\ pc' = [pc EXCEPT ![i] = "failed"]
        /\ UNCHANGED <<manager, net, replies, chain>>

\* Mutant: strongly connected instances are not sorted by id
PrecedesUnsorted(m, j, k) ==
    /\ j # k
    /\ Reaches(m, k, j)
    /\ ~Reaches(m, j, k)

\* j is executed before k: k depends on j, or both are strongly connected and j
\* has the smaller id
Precedes(m, j, k) ==
    /\ j # k
    /\ Reaches(m, k, j)
    /\ Reaches(m, j, k) => j < k

\* Mutant: components in any order
AnyOrders(m, G) ==
    {s \in [1..Cardinality(G) -> G] : \A j \in G : \E k \in DOMAIN s : s[k] = j}

\* The orders tarjanConnect and iidSorter may produce for the graph G
ExecutionOrders(m, G) ==
    {s \in [1..Cardinality(G) -> G] :
        /\ \A j \in G : \E k \in DOMAIN s : s[k] = j
        /\ \A k, l \in DOMAIN s : Precedes(m, s[k], s[l]) => k < l}

\* Mutant: dependencies that are known but not committed do not hold it up
StartExecutionEarly(i) ==
    LET m == manager[Leader[i]]
        G == {j \in ExecutionGraph(m, i) : m.instances[j] # Nil /\ m.instances[j].status >= INSTANCE_COMMITTED}
    IN  /\ pc[i] = "execute"
        /\ \E s \in ExecutionOrders(m, G) : chain' = [chain EXCEPT ![i] = s]
        /\ pc' = [pc EXCEPT ![i] = "apply"]
        /\ UNCHANGED <<manager, net, replies>>

\* executeInstance once every dependency it can reach is committed
StartExecution(i) ==
    LET m == manager[Leader[i]]
        G == ExecutionGraph(m, i)
    IN  /\ pc[i] = "execute"
        /\ \A j \in G : m.instances[j] # Nil /\ m.instances[j].status >= INSTANCE_COMMITTED
        /\ \E s \in ExecutionOrders(m, G) : chain' = [chain EXCEPT ![i] = s]
        /\ pc' = [pc EXCEPT ![i] = "apply"]
        /\ UNCHANGED <<manager, net, replies>>

\* One turn of executeDependencyChain; another goroutine of this node may have
\* executed the instance already, and the chain then goes on past the target
ApplyNext(i) ==
    LET l == Leader[i]
        j == Head(chain[i])
        rest == Tail(chain[i])
    IN  /\ pc[i] = "apply"
        /\ chain[i] # <<>>
        /\ \/ /\ Status(l, j) = INSTANCE_COMMITTED
              /\ j \notin Failing
              /\ manager' = [manager EXCEPT ![l] = applyInstance(@, j)]
              /\ chain' = [chain EXCEPT ![i] = IF j = i THEN <<>> ELSE rest]
              /\ UNCHANGED pc
           \/ \* the store's error ends the chain, the instance stays committed
              /\ Status(l, j) = INSTANCE_COMMITTED
              /\ j \in Failing
              /\ pc' = [pc EXCEPT ![i] = "failed"]
              /\ UNCHANGED <<manager, chain>>
           \/ /\ Status(l, j) = INSTANCE_EXECUTED
              /\ chain' = [chain EXCEPT ![i] = rest]
              /\ UNCHANGED <<manager, pc>>
        /\ UNCHANGED <<net, replies>>

FinishExecution(i) ==
    /\ pc[i] = "apply"
    /\ chain[i] = <<>>
    /\ pc' = [pc EXCEPT ![i] = "done"]
    /\ UNCHANGED <<manager, net, replies, chain>>
-----------------------------------------------------------------------------
\* The goroutine of ExecutePaxos for instance i, timeouts apart
Lead(i) ==
    \/ StartPreAccept(i)
    \/ PreAcceptRejected(i)
    \/ PreAcceptQuorum(i)
    \/ StartAccept(i)
    \/ AcceptQuorum(i)
    \/ AcceptRejected(i)
    \/ LeaderCommit(i)
    \/ UnknownDependency(i)
    \/ StartExecution(i)
    \/ ApplyNext(i)
    \/ FinishExecution(i)

Handle(r) == HandlePreAccept(r) \/ HandleAccept(r) \/ HandleCommit(r)

\* Every query is over and every message handled
Terminated ==
    /\ \A i \in Inst : pc[i] \in {"done", "failed"}
    /\ net = {}
    /\ UNCHANGED vars

Next ==
    \/ \E i \in Inst : Lead(i) \/ PhaseTimeout(i)
    \/ \E r \in net : Handle(r)
    \/ Terminated

Spec == Init /\ [][Next]_vars

(***************************************************************************)
(* Goroutines keep running and the transport delivers what it accepted: a  *)
(* leader that can go on does, and a request in flight is handled.         *)
(***************************************************************************)
Fairness ==
    /\ \A i \in Inst : WF_vars(Lead(i))
    /\ WF_vars(\E r \in net : Handle(r))

FairSpec == Spec /\ Fairness
-----------------------------------------------------------------------------
(***************************************************************************)
(* All replicas that have an instance committed have it committed with the *)
(* same dependencies (Instance.commit overwrites them without a ballot     *)
(* check): replicas then see the same dependency graph.                    *)
(***************************************************************************)
CommittedAgree ==
    \A i \in Inst : \A n1, n2 \in Node :
        (Committed(n1, i) /\ Committed(n2, i)) => Deps(n1, i) = Deps(n2, i)

\* The committed graph: i depends on j along dependencies committed at some node
CommittedDeps(i) == UNION {Deps(n, i) : n \in {m \in Node : Committed(m, i)}}
DependsOn(i, j) ==
    \A S \in SUBSET Inst :
        (i \in S /\ \A k \in S : CommittedDeps(k) \subseteq S) => j \in S

(***************************************************************************)
(* Two committed instances on the same key are ordered by the committed    *)
(* dependency graph, even though each leader only heard from a quorum      *)
(* (sendPreAccept, sendAccept, dependencies.GetAndSetDeps).  It needs an   *)
(* odd number of replicas that have accepted every pre-accept and not yet  *)
(* forgotten any instance: see DirectlyLinked in EPaxosProofs.             *)
(***************************************************************************)
GraphLinked ==
    \A i, j \in Inst :
        (/\ i # j
         /\ KeyOf[i] = KeyOf[j]
         /\ \E n \in Node : Committed(n, i)
         /\ \E n \in Node : Committed(n, j))
        => DependsOn(i, j) \/ DependsOn(j, i)

\* i comes before j in the execution log of node n
Before(n, i, j) ==
    \E k, l \in DOMAIN manager[n].executed :
        k < l /\ manager[n].executed[k] = i /\ manager[n].executed[l] = j

(***************************************************************************)
(* Two nodes never execute two instances on the same key in opposite       *)
(* orders, though each computes its order from the graph it knew when its  *)
(* own query was committed (getExecutionOrder, executeDependencyChain).    *)
(***************************************************************************)
SameOrder ==
    \A n1, n2 \in Node : \A i, j \in Inst :
        (KeyOf[i] = KeyOf[j] /\ Before(n1, i, j)) => ~Before(n2, j, i)

(***************************************************************************)
(* A node executes an instance once, and its status says so, whatever      *)
(* goroutines of the node have it in their chains (applyInstance).         *)
(***************************************************************************)
ExecutedOnce ==
    \A n \in Node : \A i \in Inst :
        Cardinality({k \in DOMAIN manager[n].executed : manager[n].executed[k] = i})
            = IF Status(n, i) = INSTANCE_EXECUTED THEN 1 ELSE 0

(***************************************************************************)
(* At a replica an instance is never forgotten, its status and its ballot  *)
(* never go back, and once committed its dependencies are final, in        *)
(* whatever order requests, copies and executions reach it (getOrSetInstance, *)
(* preaccept, accept, commit, updateBallot).                               *)
(***************************************************************************)
NeverBack(n, i) ==
    manager[n].instances[i] # Nil =>
        /\ manager'[n].instances[i] # Nil
        /\ Status(n, i)' >= Status(n, i)
        /\ manager'[n].instances[i].ballot >= manager[n].instances[i].ballot
        /\ Committed(n, i) => Deps(n, i)' = Deps(n, i)

ReplicaNeverBack == [][\A n \in Node, i \in Inst : NeverBack(n, i)]_vars

(***************************************************************************)
(* Every client gets the result of its query: its instance is executed at  *)
(* its leader, where the client's listener waits (ExecuteQuery,            *)
(* applyInstance).                                                         *)
(***************************************************************************)
ClientsAnswered ==
    \A i \in Inst : <>(Status(Leader[i], i) = INSTANCE_EXECUTED)
-----------------------------------------------------------------------------
\* What the replicas have agreed on: the dependencies any of them committed
Chosen ==
    [i \in Inst |-> IF \E n \in Node : Committed(n, i)
                    THEN Deps(CHOOSE n \in Node : Committed(n, i), i) ELSE Nil]

Agreed == INSTANCE Agreement WITH
    chosen  <- Chosen,
    learned <- [n \in Node |-> {i \in Inst : Committed(n, i)}],
    log     <- [n \in Node |-> manager[n].executed]

(***************************************************************************)
(* Phases, requests, copies, timeouts and chains together do no more than  *)
(* the abstract consensus: dependencies are decided once, by the leader's  *)
(* commit; a commit request or a copy of a missing instance only spreads   *)
(* what was decided; and a chain computed earlier from the replica's own   *)
(* graph executes, at the moment of each step, what the whole decided      *)
(* graph allows next (commitInstance, addMissingInstances,                 *)
(* executeDependencyChain).                                                *)
(***************************************************************************)
ImplementsAgreement == Agreed!Spec
=============================================================================
