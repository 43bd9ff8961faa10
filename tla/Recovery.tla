------------------------------ MODULE Recovery ------------------------------
(***************************************************************************)
(* Explicit prepare (consensus/manager_prepare.go): how nodes finish an    *)
(* instance whose leader they suspect.  One instance, Target, is led by    *)
(* its leader's ExecutePaxos goroutine, which may stop with its node at    *)
(* any point.  A node whose own query depends on Target prepares it, after *)
(* deferring to the nodes before it in the list of successors, and these   *)
(* prepare it when asked.  Each preparing goroutine asks a quorum for what *)
(* it knows and then takes Target through the remaining phases under a     *)
(* higher ballot, in competition with the others and with a leader that    *)
(* was only slow.  Time is left out: a wait may end as soon as its timer   *)
(* could.                                                                  *)
(***************************************************************************)
EXTENDS Manager

CONSTANTS
    Node,         \* the replicas
    Leader,       \* the node that leads Target
    Target,       \* the instance
    Successors,   \* its Successors: the other nodes in some order
    Knows,        \* node -> instances it has committed, none of which Target's
                  \* leader has to know: their commits are still on their way
    Preparers,    \* nodes with a query that depends on Target
    MayStop,      \* nodes that may stop
    MayTimeout,   \* roles whose waits for a quorum may time out
    Tries         \* BALLOT_FAILURE_RETRIES

ASSUME RecoveryAssumption ==
    /\ IsFiniteSet(Node) /\ Leader \in Node /\ Target \in Inst
    /\ Successors \in Seq(Node \ {Leader})
    /\ Knows \in [Node -> SUBSET (Inst \ {Target})]
    /\ Preparers \subseteq Node /\ MayStop \subseteq Node
    /\ Tries \in Nat \ {0}

\* The goroutines at work on Target: the leader's, the one of a query that
\* depends on it, and the one HandlePrepareSuccessor starts
Task == {<<"lead", Leader>>} \cup ({"execute"} \X Preparers)
                             \cup ({"successor"} \X (Node \ {Leader}))
Role(t) == t[1]
At(t) == t[2]

VARIABLES
    manager,   \* node -> its Manager
    up,        \* the nodes that run
    net,       \* requests sent and not yet handled
    replies,   \* replies the goroutines have received and not yet used
    pc,        \* task -> where it is
    using,     \* task -> the remote instance its next phase starts from, or Nil
    succ,      \* task -> its place in the list of successors
    tried      \* task -> how many prepares have failed

vars == <<manager, up, net, replies, pc, using, succ, tried>>
progress == <<using, succ, tried>>

QuorumSize == (Cardinality(Node) - 1) \div 2 + 1

Request == [type    : {"PreAccept", "Accept", "Commit", "Prepare", "Successor"},
            to      : Node,
            by      : Task,
            ballot  : Nat,
            inst    : Instance \cup {Nil},
            awaited : BOOLEAN]

Reply == [by       : Task,
          from     : Node,
          accepted : BOOLEAN,
          ballot   : Nat,
          inst     : Instance \cup {Nil},
          missing  : [Inst -> Instance \cup {Nil}]]

NoMissing == [j \in Inst |-> Nil]

\* In a prepare the goroutine holds the instance's prepareLock
Preparing == {"defer", "asked", "again", "prepare", "mustPreAccept", "preaccept",
              "mustAccept", "accept", "mustCommit"}

TypeOK ==
    /\ manager \in [Node -> ManagerType]
    /\ up \subseteq Node
    /\ net \subseteq Request
    /\ replies \subseteq Reply
    /\ pc \in [Task -> Preparing \cup {"idle", "try", "retry", "done", "failed"}]
    /\ using \in [Task -> Instance \cup {Nil}]
    /\ succ \in [Task -> Nat]
    /\ tried \in [Task -> 0..Tries]

CommittedElsewhere ==
    [status |-> INSTANCE_COMMITTED, deps |-> {}, ballot |-> 2, noop |-> FALSE]

Init ==
    /\ manager = [n \in Node |->
                    [instances |-> [i \in Inst |->
                        IF i \in Knows[n] THEN CommittedElsewhere ELSE Nil],
                     depsMngr  |-> [k \in Key |->
                        [newDependencies EXCEPT !.writes = {i \in Knows[n] : KeyOf[i] = k}]],
                     executed  |-> <<>>]]
    /\ up = Node
    /\ net = {}
    /\ replies = {}
    /\ pc = [t \in Task |-> IF Role(t) = "lead" THEN "mustPreAccept" ELSE "idle"]
    /\ using = [t \in Task |-> IF Role(t) = "lead" THEN makeInstance ELSE Nil]
    /\ succ = [t \in Task |-> 1]
    /\ tried = [t \in Task |-> 0]
-----------------------------------------------------------------------------
Local(n) == manager[n].instances[Target]
Status(n) == IF Local(n) = Nil THEN 0 ELSE Local(n).status
Committed(n) == Status(n) >= INSTANCE_COMMITTED

\* What a phase of t is started with
Given(t) == IF using[t] = Nil THEN Local(At(t)) ELSE using[t]

ToOthers(t, type, x, awaited) ==
    {[type |-> type, to |-> n, by |-> t, ballot |-> x.ballot,
      inst |-> IF type = "Prepare" THEN Nil ELSE x, awaited |-> awaited] :
        n \in up \ {At(t)}}

Unawaited(t) == {IF r.by = t THEN [r EXCEPT !.awaited = FALSE] ELSE r : r \in net}

RepliesTo(t) == {r \in replies : r.by = t}

\* t sends x to the others and waits at p
SendAndWait(t, type, m, p) ==
    /\ manager' = [manager EXCEPT ![At(t)] = m]
    /\ net' = net \cup ToOthers(t, type, m.instances[Target], TRUE)
    /\ pc' = [pc EXCEPT ![t] = p]

\* t ends its wait with manager m and goes on at p
EndWait(t, m, p) ==
    /\ manager' = [manager EXCEPT ![At(t)] = m]
    /\ net' = Unawaited(t)
    /\ replies' = replies \ RepliesTo(t)
    /\ pc' = [pc EXCEPT ![t] = p]

\* Where t goes after an error of a phase: ExecutePaxos logs it and commits, a
\* prepare ends; the caller of a prepare tries again after a BallotError, and
\* the goroutine of HandlePrepareSuccessor after any error
AfterError(t, isBallotError) ==
    IF Role(t) = "lead" THEN "mustCommit"
    ELSE IF isBallotError \/ Role(t) = "successor" THEN "retry" ELSE "failed"

LargestBallot(b, R) ==
    LET seen == {b} \cup {r.ballot : r \in R}
    IN  CHOOSE c \in seen : \A d \in seen : c >= d
-----------------------------------------------------------------------------
\* executeInstance at a node whose query depends on Target finds it uncommitted
StartExecute(n) ==
    LET t == <<"execute", n>>
    IN  /\ t \in Task /\ pc[t] = "idle"
        /\ Local(n) # Nil /\ ~Committed(n)
        /\ pc' = [pc EXCEPT ![t] = "try"]
        /\ UNCHANGED <<manager, up, net, replies, progress>>

\* Mutant: an accepted instance counts as finished
ShouldProceedUnlessAccepted(t) ==
    /\ pc[t] = "try"
    /\ pc' = [pc EXCEPT ![t] = IF Status(At(t)) >= INSTANCE_ACCEPTED THEN "done" ELSE "defer"]
    /\ succ' = [succ EXCEPT ![t] = 1]
    /\ UNCHANGED <<manager, up, net, replies, using, tried>>

\* managerPrepareInstance takes the prepareLock; prepareShouldProceed waits for
\* the commit timeout or the commit
ShouldProceed(t) ==
    /\ pc[t] = "try"
    /\ ~\E u \in Task \ {t} : At(u) = At(t) /\ Role(u) # "lead" /\ pc[u] \in Preparing
    /\ pc' = [pc EXCEPT ![t] = IF Committed(At(t)) THEN "done" ELSE "defer"]
    /\ succ' = [succ EXCEPT ![t] = 1]
    /\ UNCHANGED <<manager, up, net, replies, using, tried>>

\* The successor that deferToSuccessor contacts next, if it is not t's own turn
OwnTurn(t) == succ[t] > Len(Successors) \/ Successors[succ[t]] = At(t)

AskSuccessor(t) ==
    /\ pc[t] = "defer" /\ ~OwnTurn(t)
    /\ net' = net \cup {[type |-> "Successor", to |-> Successors[succ[t]], by |-> t,
                         ballot |-> 0, inst |-> Nil, awaited |-> TRUE]}
    /\ pc' = [pc EXCEPT ![t] = "asked"]
    /\ UNCHANGED <<manager, up, replies, progress>>

\* The successor's answer.  If it is further, t advances its own copy, with the
\* attributes it has; once it is committed there is nothing left to prepare.
SuccessorAnswers(t) ==
    /\ pc[t] = "asked"
    /\ \E r \in RepliesTo(t) :
          LET m == manager[At(t)]
              ahead == r.inst # Nil /\ r.inst.status > Status(At(t))
          IN  \/ /\ r.inst = Nil
                 /\ EndWait(t, m, "defer")
                 /\ succ' = [succ EXCEPT ![t] = @ + 1]
              \/ /\ r.inst # Nil /\ ~ahead
                 /\ EndWait(t, m, IF Committed(At(t)) THEN "done" ELSE "again")
                 /\ UNCHANGED succ
              \/ /\ ahead /\ r.inst.status = INSTANCE_ACCEPTED
                 /\ EndWait(t, acceptInstance(m, Target, Local(At(t)), FALSE), "again")
                 /\ UNCHANGED succ
              \/ /\ ahead /\ r.inst.status >= INSTANCE_COMMITTED
                 /\ EndWait(t, commitInstance(m, Target, Local(At(t)), FALSE), "done")
                 /\ UNCHANGED succ
    /\ UNCHANGED <<up, using, tried>>

\* SUCCESSOR_TIMEOUT, or an error of the connection to a stopped node
SuccessorSilent(t) ==
    /\ pc[t] = "asked" /\ RepliesTo(t) = {}
    /\ Successors[succ[t]] \notin up \/ Role(t) \in MayTimeout
    /\ EndWait(t, manager[At(t)], "defer")
    /\ succ' = [succ EXCEPT ![t] = @ + 1]
    /\ UNCHANGED <<up, using, tried>>

\* The commit event ends the wait for the successor, and the interval between
\* two contacts
CommittedMeanwhile(t) ==
    /\ pc[t] \in {"asked", "again"} /\ Committed(At(t))
    /\ EndWait(t, manager[At(t)], "done")
    /\ UNCHANGED <<up, progress>>

\* SUCCESSOR_CONTACT_INTERVAL has passed
ContactAgain(t) ==
    /\ pc[t] = "again"
    /\ pc' = [pc EXCEPT ![t] = "defer"]
    /\ succ' = [succ EXCEPT ![t] = 1]
    /\ UNCHANGED <<manager, up, net, replies, using, tried>>

\* prepareShouldProceed once more, then managerPreparePhase up to its wait
SendPrepare(t) ==
    LET m == manager[At(t)]
    IN  /\ pc[t] = "defer" /\ OwnTurn(t)
        /\ \/ /\ Committed(At(t))
              /\ pc' = [pc EXCEPT ![t] = "done"]
              /\ UNCHANGED <<manager, net>>
           \/ /\ ~Committed(At(t))
              /\ SendAndWait(t, "Prepare",
                    [m EXCEPT !.instances[Target] = incrementBallot(@, TRUE)], "prepare")
        /\ UNCHANGED <<up, replies, progress>>

\* Quorums of replies; sendPrepare also takes what else has arrived by then
PrepareQuorums(t) == {R \in SUBSET RepliesTo(t) : Cardinality(R) >= QuorumSize - 1}
Quorums(t) == {R \in SUBSET RepliesTo(t) : Cardinality(R) = QuorumSize - 1}

\* managerPrepareCheckResponses when a reply is a rejection: catch up with the
\* furthest instance of the highest ballot, then BallotError
PrepareRejected(t) ==
    /\ pc[t] = "prepare"
    /\ \E R \in PrepareQuorums(t) :
          LET seen == {r.inst : r \in R} \ {Nil}
              m == [manager[At(t)] EXCEPT !.instances[Target].ballot = LargestBallot(@, R)]
              furthest == {x \in seen : \A y \in seen : x.ballot >= y.ballot /\ x.status >= y.status}
              ahead == {x \in furthest : x.status > Status(At(t))}
          IN  /\ \E r \in R : ~r.accepted
              /\ \/ /\ ahead = {}
                    /\ EndWait(t, m, "retry")
                 \/ \E x \in ahead :
                       \/ /\ x.status = INSTANCE_ACCEPTED
                          /\ EndWait(t, acceptInstance(m, Target, x, FALSE), "retry")
                       \/ /\ x.status >= INSTANCE_COMMITTED
                          /\ EndWait(t, commitInstance(m, Target, x, FALSE), "retry")
    /\ UNCHANGED <<up, progress>>

\* The phase managerPrepareApply starts at for an instance of status s
PhaseFor(s) == CASE s <= INSTANCE_PREACCEPTED -> "mustPreAccept"
                 [] s = INSTANCE_ACCEPTED     -> "mustAccept"
                 [] s >= INSTANCE_COMMITTED   -> "mustCommit"

\* analyzePrepareResponses: the furthest of the instances with the highest ballot
Analyzed(seen) ==
    LET top == {x \in seen : \A y \in seen : x.ballot >= y.ballot}
    IN  {x \in top : \A y \in top : x.status >= y.status}

\* managerPrepareApply when all replies accept: go on from the remote instance
\* unless the local one is further; when nobody else knows the instance, from
\* the local one, made a noop if it is only pre-accepted
PrepareAccepted(t) ==
    /\ pc[t] = "prepare"
    /\ \E R \in PrepareQuorums(t) :
          LET seen == {r.inst : r \in R} \ {Nil}
              m == [manager[At(t)] EXCEPT !.instances[Target].ballot = LargestBallot(@, R)]
              s == Status(At(t))
          IN  /\ \A r \in R : r.accepted
              /\ \/ /\ seen = {}
                    /\ EndWait(t, [m EXCEPT !.instances[Target].noop =
                                        @ \/ s <= INSTANCE_PREACCEPTED], "mustPreAccept")
                    /\ UNCHANGED using
                 \/ \E x \in Analyzed(seen) :
                       /\ s > x.status
                       /\ EndWait(t, m, PhaseFor(s))
                       /\ UNCHANGED using
                 \/ \E x \in Analyzed(seen) :
                       /\ s <= x.status
                       /\ EndWait(t, m, PhaseFor(x.status))
                       /\ using' = [using EXCEPT ![t] = x]
    /\ UNCHANGED <<up, succ, tried>>
-----------------------------------------------------------------------------
\* preAcceptPhase up to its wait
StartPreAccept(t) ==
    /\ pc[t] = "mustPreAccept"
    /\ SendAndWait(t, "PreAccept",
          preAcceptInstance(manager[At(t)], Target, Given(t), TRUE), "preaccept")
    /\ using' = [using EXCEPT ![t] = Nil]
    /\ UNCHANGED <<up, replies, succ, tried>>

\* A rejection in either phase
PhaseRejected(t) ==
    /\ pc[t] \in {"preaccept", "accept"}
    /\ \E R \in Quorums(t) :
          /\ \E r \in R : ~r.accepted
          /\ EndWait(t, [manager[At(t)] EXCEPT !.instances[Target].ballot = LargestBallot(@, R)],
                     AfterError(t, TRUE))
    /\ UNCHANGED <<up, progress>>

\* The copies of missing instances in the replies
MissingFrom(R) ==
    [j \in Inst |-> LET copies == {r.missing[j] : r \in R} \ {Nil}
                    IN  IF copies = {} THEN Nil ELSE CHOOSE x \in copies : TRUE]

\* All pre-accepted: merge what the replies say, unless the instance has gone on
\* meanwhile, which is an error
PreAcceptQuorum(t) ==
    /\ pc[t] = "preaccept"
    /\ \E R \in Quorums(t) :
          LET m == addMissingInstances(manager[At(t)], MissingFrom(R))
              x == m.instances[Target]
              d == {r.inst.deps : r \in R}
          IN  /\ \A r \in R : r.accepted
              /\ EndWait(t, [m EXCEPT !.instances[Target] = mergeAttributes(x, d)],
                    IF x.status # INSTANCE_PREACCEPTED THEN AfterError(t, FALSE)
                    ELSE IF mergeChanges(x, d) THEN "mustAccept" ELSE "mustCommit")
    /\ UNCHANGED <<up, progress>>

StartAccept(t) ==
    /\ pc[t] = "mustAccept"
    /\ SendAndWait(t, "Accept",
          acceptInstance(manager[At(t)], Target, Given(t), TRUE), "accept")
    /\ using' = [using EXCEPT ![t] = Nil]
    /\ UNCHANGED <<up, replies, succ, tried>>

AcceptQuorum(t) ==
    /\ pc[t] = "accept"
    /\ \E R \in Quorums(t) : (\A r \in R : r.accepted) /\ EndWait(t, manager[At(t)], "mustCommit")
    /\ UNCHANGED <<up, progress>>

\* Mutant: the others are not told
CommitSilently(t) ==
    /\ pc[t] = "mustCommit"
    /\ manager' = [manager EXCEPT ![At(t)] = commitInstance(@, Target, Given(t), TRUE)]
    /\ pc' = [pc EXCEPT ![t] = "done"]
    /\ using' = [using EXCEPT ![t] = Nil]
    /\ UNCHANGED <<up, net, replies, succ, tried>>

\* commitPhase; a prepare is then over
CommitPhase(t) ==
    LET m == commitInstance(manager[At(t)], Target, Given(t), TRUE)
    IN  /\ pc[t] = "mustCommit"
        /\ manager' = [manager EXCEPT ![At(t)] = m]
        /\ net' = net \cup ToOthers(t, "Commit", m.instances[Target], FALSE)
        /\ pc' = [pc EXCEPT ![t] = "done"]
        /\ using' = [using EXCEPT ![t] = Nil]
        /\ UNCHANGED <<up, replies, succ, tried>>

\* No quorum in time: a TimeoutError
WaitTimeout(t) ==
    /\ pc[t] \in {"prepare", "preaccept", "accept"}
    /\ Role(t) \in MayTimeout
    /\ EndWait(t, manager[At(t)], AfterError(t, FALSE))
    /\ UNCHANGED <<up, progress>>

\* Mutant: no limit to the attempts
RetryUnlimited(t) ==
    /\ pc[t] = "retry"
    /\ tried' = [tried EXCEPT ![t] = @ + 1]
    /\ pc' = [pc EXCEPT ![t] = "try"]
    /\ UNCHANGED <<manager, up, net, replies, using, succ>>

\* The caller of a failed prepare: committed by another meanwhile, try again
\* after a wait, or give up after BALLOT_FAILURE_RETRIES
Retry(t) ==
    /\ pc[t] = "retry"
    /\ tried' = [tried EXCEPT ![t] = @ + 1]
    /\ \/ pc' = [pc EXCEPT ![t] = IF tried[t] + 1 = Tries THEN "failed" ELSE "try"]
       \/ Committed(At(t)) /\ pc' = [pc EXCEPT ![t] = "done"]
    /\ UNCHANGED <<manager, up, net, replies, using, succ>>
-----------------------------------------------------------------------------
Answer(r, accepted, ballot, x, missing) ==
    {[by |-> r.by, from |-> r.to, accepted |-> accepted, ballot |-> ballot,
      inst |-> x, missing |-> missing]}

Handled(r, m, Answers) ==
    /\ manager' = [manager EXCEPT ![r.to] = m]
    /\ net' = net \ {r}
    /\ replies' = replies \cup IF r.awaited /\ At(r.by) \in up THEN Answers ELSE {}
    /\ UNCHANGED <<up, progress>>

Stale(r) == Local(r.to) # Nil /\ Local(r.to).ballot >= r.ballot

HandlePreAccept(r) ==
    /\ r.type = "PreAccept"
    /\ LET m == preAcceptInstance(manager[r.to], Target, r.inst, FALSE)
           x == m.instances[Target]
       IN  \/ /\ Stale(r)
              /\ Handled(r, manager[r.to],
                    Answer(r, FALSE, Local(r.to).ballot, Local(r.to), NoMissing))
           \/ /\ ~Stale(r)
              /\ Handled(r, m, Answer(r, TRUE, x.ballot, x,
                    [j \in Inst |-> IF j \in x.deps \ r.inst.deps THEN m.instances[j] ELSE Nil]))
    /\ UNCHANGED pc

HandleAccept(r) ==
    /\ r.type = "Accept"
    /\ \/ /\ Stale(r)
          /\ Handled(r, manager[r.to], Answer(r, FALSE, Local(r.to).ballot, Nil, NoMissing))
       \/ /\ ~Stale(r)
          /\ Handled(r, acceptInstance(manager[r.to], Target, r.inst, FALSE),
                     Answer(r, TRUE, 0, Nil, NoMissing))
    /\ UNCHANGED pc

HandleCommit(r) ==
    /\ r.type = "Commit"
    /\ Handled(r, commitInstance(manager[r.to], Target, r.inst, FALSE), {})
    /\ UNCHANGED pc

\* Mutant: the ballot of the request is taken without a look at the local one
HandlePrepareBlindly(r) ==
    /\ r.type = "Prepare"
    /\ LET x == Local(r.to)
           y == IF x = Nil THEN Nil ELSE [x EXCEPT !.ballot = r.ballot]
       IN  Handled(r, [manager[r.to] EXCEPT !.instances[Target] = y],
                   Answer(r, TRUE, r.ballot, y, NoMissing))
    /\ UNCHANGED pc

\* A node that does not know the instance accepts, and remembers nothing
HandlePrepare(r) ==
    /\ r.type = "Prepare"
    /\ LET x == Local(r.to)
           y == updateBallot(x, r.ballot)
       IN  \/ /\ x = Nil
              /\ Handled(r, manager[r.to], Answer(r, TRUE, 0, Nil, NoMissing))
           \/ /\ x # Nil /\ ~Stale(r)
              /\ Handled(r, [manager[r.to] EXCEPT !.instances[Target] = y],
                         Answer(r, TRUE, y.ballot, y, NoMissing))
           \/ /\ x # Nil /\ Stale(r)
              /\ Handled(r, manager[r.to], Answer(r, FALSE, x.ballot, x, NoMissing))
    /\ UNCHANGED pc

\* A node that knows the instance and has not committed it prepares it too.  A
\* second goroutine waits for the first one's prepareLock; as a bound, none is
\* started when the first is over.
HandlePrepareSuccessor(r) ==
    LET t == <<"successor", r.to>>
        starts == Local(r.to) # Nil /\ ~Committed(r.to) /\ pc[t] = "idle"
    IN  /\ r.type = "Successor"
        /\ Handled(r, manager[r.to], Answer(r, TRUE, 0, Local(r.to), NoMissing))
        /\ pc' = IF starts THEN [pc EXCEPT ![t] = "try"] ELSE pc

\* A node stops, with its goroutines and what was on its way to it; what it has
\* sent still arrives
Stop(n) ==
    /\ n \in MayStop /\ n \in up
    /\ up' = up \ {n}
    /\ net' = {r \in net : r.to # n}
    /\ replies' = {r \in replies : At(r.by) # n}
    /\ UNCHANGED <<manager, pc, progress>>
-----------------------------------------------------------------------------
Step(t) ==
    /\ At(t) \in up
    /\ \/ ShouldProceed(t)      \/ AskSuccessor(t)    \/ SuccessorAnswers(t)
       \/ SuccessorSilent(t)    \/ ContactAgain(t)    \/ CommittedMeanwhile(t)
       \/ SendPrepare(t)        \/ PrepareRejected(t) \/ PrepareAccepted(t)
       \/ StartPreAccept(t)     \/ PreAcceptQuorum(t) \/ PhaseRejected(t)
       \/ StartAccept(t)        \/ AcceptQuorum(t)    \/ CommitPhase(t)
       \/ Retry(t)

Handle(r) ==
    /\ r.to \in up
    /\ \/ HandlePreAccept(r) \/ HandleAccept(r) \/ HandleCommit(r)
       \/ HandlePrepare(r)   \/ HandlePrepareSuccessor(r)

Next ==
    \/ \E t \in Task : Step(t) \/ (At(t) \in up /\ WaitTimeout(t))
    \/ \E n \in up \cap Preparers : StartExecute(n)
    \/ \E r \in net : Handle(r)
    \/ \E n \in Node : Stop(n)

Spec == Init /\ [][Next]_vars

(***************************************************************************)
(* Goroutines keep running, timers fire, and the transport delivers what   *)
(* it accepted to a running node.  A node that waits may contact its       *)
(* successor again and again, so these requests must not be what keeps the *)
(* others from being handled.                                              *)
(***************************************************************************)
Fairness ==
    /\ \A t \in Task : WF_vars(Step(t))
    /\ WF_vars(\E r \in net : r.type # "Successor" /\ Handle(r))
    /\ WF_vars(\E r \in net : r.type = "Successor" /\ Handle(r))

FairSpec == Spec /\ Fairness
-----------------------------------------------------------------------------
NeverBack(n) ==
    Local(n) # Nil => /\ Local(n)' # Nil
                      /\ Status(n)' >= Status(n)
                      /\ Local(n)'.ballot >= Local(n).ballot

(***************************************************************************)
(* Whoever leads or prepares the instance, and whatever older requests are *)
(* still on their way, a node never forgets it and its status and ballot   *)
(* there never go back (preaccept, accept, commit, updateBallot).          *)
(***************************************************************************)
StatusNeverBack == [][\A n \in Node : NeverBack(n)]_vars

(***************************************************************************)
(* A prepare that ends without an error leaves the instance committed at   *)
(* its node, so that executeInstance may go on: also when a successor, the *)
(* leader or a message got there first (managerPrepareInstance).           *)
(***************************************************************************)
PrepareCommits == \A t \in Task : pc[t] = "done" => Committed(At(t))

(***************************************************************************)
(* Nobody waits for ever, also when goroutines defer to each other and     *)
(* take the instance away from each other: in the end each has succeeded   *)
(* or given up, or its node has stopped; and if any node has committed the *)
(* instance, all running ones have, since whoever commits tells the others *)
(* (managerPrepareInstance and its callers, commitPhase).                  *)
(***************************************************************************)
RecoverySettles ==
    <>[](/\ \A t \in Task : pc[t] \in {"idle", "done", "failed"} \/ At(t) \notin up
         /\ (\E n \in Node : Committed(n)) => (\A n \in up : Committed(n)))

(***************************************************************************)
(* All nodes that have the instance committed agree on its dependencies    *)
(* (managerPrepareApply, managerDeferToSuccessor).                         *)
(***************************************************************************)
DepsAgreed ==
    \A m, n \in Node : Committed(m) /\ Committed(n) => Local(m).deps = Local(n).deps
=============================================================================
