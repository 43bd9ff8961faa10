----------------------------- MODULE ReadRepair -----------------------------
(***************************************************************************)
(* Cluster.ExecuteRead on one key, with the repair of the replicas it      *)
(* finds behind.  A coordinator queries the replicas in goroutines, waits  *)
(* for the answers its consistency level asks for, answers its client with *)
(* the newest value, and collects the remaining answers to send            *)
(* corrections, again in goroutines.  Meanwhile each replica executes, at  *)
(* its own pace, the writes on which consensus has agreed (module          *)
(* Agreement).                                                             *)
(***************************************************************************)
EXTENDS Store, FiniteSets

CONSTANTS
    Node,      \* the replicas of the key
    Dc,        \* datacenters
    DcOf,      \* replica -> its datacenter
    LocalDc,   \* the coordinator's datacenter
    ReadKey,   \* the key
    Writes,    \* the writes on it, in the order consensus executes them
    Reads,     \* the reads clients ask of the coordinator
    Requests,  \* the consistency levels they may ask for, synchronous or not
    MayFail    \* replicas whose queries may end with an error

ConsistencyLevel ==
    {"ONE", "QUORUM", "QUORUM_LOCAL", "ALL", "ALL_LOCAL", "CONSENSUS", "CONSENSUS_LOCAL"}

ASSUME ReplicaAssumption ==
    /\ IsFiniteSet(Node)
    /\ DcOf \in [Node -> Dc]
    /\ \E n \in Node : DcOf[n] = LocalDc   \* the local ring has the local node
    /\ MayFail \subseteq Node
    /\ Requests \subseteq [level : ConsistencyLevel, sync : BOOLEAN]
ASSUME WriteAssumption ==
    /\ ReadKey \in Key
    /\ Writes \in Seq(Instruction)
    /\ \A k \in DOMAIN Writes :
          /\ Writes[k].cmd \in {"SET", "DEL"}
          /\ Writes[k].key = ReadKey
          /\ IF Writes[k].cmd = "SET" THEN validateSet(Writes[k]) ELSE validateDel(Writes[k])

VARIABLES
    data,      \* replica -> its store
    applied,   \* replica -> how many of Writes it has executed
    read,      \* read -> the state of its ExecuteRead
    repairs,   \* corrections on their way to replicas
    crashed    \* the coordinator has panicked: its goroutines are gone

vars == <<data, applied, read, repairs, crashed>>

NoAnswer == [answered |-> FALSE, err |-> FALSE, val |-> Nil]
Answer == [answered : BOOLEAN, err : BOOLEAN, val : Value \cup {Nil}]

\* pc of ExecuteRead, repair that of reconcileRead.  floor, covered and high are
\* history: what the read must not miss, the replicas whose values its corrections
\* were computed from, and the winning timestamp
ReadType == [pc      : {"idle", "waiting", "repairing", "done", "error", "timeout"},
             level   : ConsistencyLevel,
             sync    : BOOLEAN,
             answers : [Node -> Answer],
             val     : Value \cup {Nil},
             repair  : {"none", "collect", "over"},
             floor   : 0..MaxTime,
             covered : SUBSET Node,
             high    : 0..MaxTime]

Repair == [read : Reads, to : Node, inst : Instruction]

\* The model keeps args short: only SET has one
TypeOK ==
    /\ data \in [Node -> DataType]
    /\ applied \in [Node -> 0..Len(Writes)]
    /\ read \in [Reads -> ReadType]
    /\ \A p \in repairs : p.read \in Reads /\ p.to \in Node /\ p.inst.time \in Time
    /\ crashed \in BOOLEAN

Init ==
    /\ data = [n \in Node |-> NewKVStore]
    /\ applied = [n \in Node |-> 0]
    /\ \E request \in [Reads -> Requests] :
          read = [r \in Reads |->
                    [pc |-> "idle", level |-> request[r].level, sync |-> request[r].sync,
                     answers |-> [n \in Node |-> NoAnswer], val |-> Nil,
                     repair |-> "none", floor |-> 0, covered |-> {}, high |-> 0]]
    /\ repairs = {}
    /\ crashed = FALSE
-----------------------------------------------------------------------------
TimeOf(v) == IF v = Nil THEN 0 ELSE v.time
HeldTime(n) == TimeOf(data[n][ReadKey])
ReplicasIn(dc) == {n \in Node : DcOf[n] = dc}

readLocalOnly(level) == level \in {"ONE", "QUORUM_LOCAL", "ALL_LOCAL", "CONSENSUS_LOCAL"}

Contacted(level) == IF readLocalOnly(level) THEN ReplicasIn(LocalDc) ELSE Node

\* Mutant: half of the replicas is taken for a quorum
RequiredHalf(level, dc) ==
    LET size == Cardinality(ReplicasIn(dc))
    IN  IF dc # LocalDc /\ readLocalOnly(level) THEN 0
        ELSE CASE level = "ONE" -> 1
               [] level \in {"QUORUM", "QUORUM_LOCAL"} -> size \div 2
               [] OTHER -> size

\* Answers needed from a datacenter
numRequiredResponses(level, dc) ==
    LET size == Cardinality(ReplicasIn(dc))
    IN  IF dc # LocalDc /\ readLocalOnly(level) THEN 0
        ELSE CASE level = "ONE" -> 1
               [] level \in {"QUORUM", "QUORUM_LOCAL"} -> (size \div 2) + 1
               [] OTHER -> size

Good(r, S) == {n \in S : ~read[r].answers[n].err}

\* with the answers of the replicas G
consistencySatisfied(r, G) ==
    \A dc \in {DcOf[n] : n \in Node} :
        Cardinality(Good(r, G) \cap ReplicasIn(dc))
            >= numRequiredResponses(read[r].level, dc)

Answered(r) == {n \in Node : read[r].answers[n].answered}

\* The answers the loop has received when it stops: they come in any order, and
\* the last one is the first to satisfy the level
Sufficient(r) ==
    {G \in SUBSET Answered(r) :
        /\ consistencySatisfied(r, G)
        /\ G # {} => \E n \in G : ~consistencySatisfied(r, G \ {n})}

\* Replicas of a datacenter of which a read at this level cannot but hear one
Enough(level, dc, S) ==
    IF level \in {"QUORUM", "QUORUM_LOCAL"} THEN 2 * Cardinality(S) > Cardinality(ReplicasIn(dc))
    ELSE S # {} /\ level \in {"ALL", "ALL_LOCAL"}

\* What a read at this level may not miss, whatever replicas answer: what a
\* majority of a datacenter it asks for a quorum, or any replica it must hear
\* from, holds as the read begins
Guaranteed(level) ==
    LET held == {t \in Time : \E dc \in {DcOf[n] : n \in Contacted(level)} :
                    Enough(level, dc, {n \in ReplicasIn(dc) : HeldTime(n) >= t})}
    IN  CHOOSE t \in held \cup {0} : \A u \in held : u <= t
-----------------------------------------------------------------------------
\* A replica executes the next write that consensus has ordered
ApplyWrite(n) ==
    /\ applied[n] < Len(Writes)
    /\ data' = [data EXCEPT ![n] = ExecuteInstruction(@, Writes[applied[n] + 1])]
    /\ applied' = [applied EXCEPT ![n] = @ + 1]
    /\ UNCHANGED <<read, repairs, crashed>>

\* ExecuteRead queries the replicas; CONSENSUS is an error before any query
StartRead(r) ==
    /\ ~crashed
    /\ read[r].pc = "idle"
    /\ IF read[r].level \in {"CONSENSUS", "CONSENSUS_LOCAL"}
       THEN read' = [read EXCEPT ![r].pc = "error"]
       ELSE read' = [read EXCEPT ![r].pc = "waiting", ![r].floor = Guaranteed(read[r].level)]
    /\ UNCHANGED <<data, applied, repairs, crashed>>

\* Node.ExecuteQuery of one of the goroutines: GET on the replica's store.  The
\* answer goes to the channel of the read and to that of the repair; nobody looks
\* at either after the end of both
AnswerQuery(r, n) ==
    /\ ~crashed
    /\ read[r].pc = "waiting" \/ read[r].repair = "collect"
    /\ n \in Contacted(read[r].level)
    /\ ~read[r].answers[n].answered
    /\ \/ read' = [read EXCEPT ![r].answers[n] =
                     [answered |-> TRUE, err |-> FALSE, val |-> get(data[n], ReadKey)]]
       \/ /\ n \in MayFail
          /\ read' = [read EXCEPT ![r].answers[n] =
                        [answered |-> TRUE, err |-> TRUE, val |-> Nil]]
    /\ UNCHANGED <<data, applied, repairs, crashed>>

\* The end of ExecuteRead, or of its repair: the channels are garbage
Closed(r, pc) ==
    [read EXCEPT ![r].pc = pc, ![r].answers = [n \in Node |-> NoAnswer]]

\* Mutant: answers with an error do not count
TooManyErrorsNever(r) == FALSE /\ UNCHANGED vars

\* All answers are in and do not satisfy the level.  numNodes counts the replicas
\* of all datacenters: a local read never gets as many answers
TooManyErrors(r) ==
    /\ ~crashed
    /\ read[r].pc = "waiting"
    /\ ~consistencySatisfied(r, Answered(r))
    /\ Cardinality(Answered(r)) >= Cardinality(Node)
    /\ read' = Closed(r, "error")
    /\ UNCHANGED <<data, applied, repairs, crashed>>

ReadTimeout(r) ==
    /\ ~crashed
    /\ read[r].pc = "waiting"
    /\ ~consistencySatisfied(r, {})
    /\ read' = Closed(r, "timeout")
    /\ UNCHANGED <<data, applied, repairs, crashed>>

\* The values of the replicas S, as Reconcile gets them
Values(r, S) == [n \in S |-> read[r].answers[n].val]

\* A panic ends the coordinator's process
Crash ==
    /\ crashed' = TRUE
    /\ repairs' = {}
    /\ read' = [r \in Reads |-> Closed(r, read[r].pc)[r]]
    /\ UNCHANGED <<data, applied>>

\* Enough answers: reconcile them into the client's value, and go on to repair,
\* in this goroutine or in another
FinishRead(r) ==
    /\ ~crashed
    /\ read[r].pc = "waiting"
    /\ \E G \in Sufficient(r) :
          LET S == Good(r, G)
              values == Values(r, S)
          IN  \/ /\ ReconcilePanics(values)
                 /\ Crash
              \/ /\ ~ReconcilePanics(values)
                 /\ \E h \in IF Cardinality(S) = 1 THEN S ELSE HighNodes(values) :
                       read' = [read EXCEPT ![r].val = values[h],
                                            ![r].repair = "collect",
                                            ![r].pc = IF read[r].sync THEN "repairing" ELSE "done"]
                 /\ UNCHANGED <<data, applied, repairs, crashed>>

\* reconcileRead: all answers of the contacted replicas, or those that came before
\* its timeout, are reconciled and the corrections sent
ReconcileRead(r) ==
    LET over == [Closed(r, "done") EXCEPT ![r].repair = "over"]
    IN  /\ ~crashed
        /\ read[r].repair = "collect"
        /\ \E S \in SUBSET Answered(r) :
              LET values == Values(r, Good(r, S))
              IN  \/ /\ Cardinality(DOMAIN values) <= 1
                     /\ read' = over
                     /\ UNCHANGED <<data, applied, repairs, crashed>>
                  \/ /\ ReconcilePanics(values)
                     /\ Crash
                  \/ /\ Cardinality(DOMAIN values) > 1
                     /\ ~ReconcilePanics(values)
                     /\ \E h \in HighNodes(values) :
                           /\ LET instructions == Reconcile(ReadKey, h, values)
                              IN  repairs' = repairs \cup
                                    {[read |-> r, to |-> n, inst |-> instructions[n]] :
                                        n \in DOMAIN instructions}
                           /\ read' = [over EXCEPT ![r].covered = DOMAIN values,
                                                   ![r].high = values[h].time]
                     /\ UNCHANGED <<data, applied, crashed>>

\* Node.ExecuteQuery of a correction; an error is not looked at
ApplyRepair(p) ==
    /\ ~crashed
    /\ repairs' = repairs \ {p}
    /\ \/ data' = [data EXCEPT ![p.to] = ExecuteInstruction(@, p.inst)]
       \/ /\ p.to \in MayFail
          /\ UNCHANGED data
    /\ UNCHANGED <<applied, read, crashed>>
-----------------------------------------------------------------------------
\* The goroutines of a read, timeouts apart
Advance(r) ==
    \/ StartRead(r)
    \/ \E n \in Node : AnswerQuery(r, n)
    \/ TooManyErrors(r)
    \/ FinishRead(r)
    \/ ReconcileRead(r)

Next ==
    \/ \E n \in Node : ApplyWrite(n)
    \/ \E r \in Reads : Advance(r) \/ ReadTimeout(r)
    \/ \E p \in repairs : ApplyRepair(p)

Spec == Init /\ [][Next]_vars

(***************************************************************************)
(* The goroutines of a read keep running and every query is answered, if   *)
(* only by an error; nothing is assumed of timeouts, writes or repairs.    *)
(***************************************************************************)
FairSpec == Spec /\ \A r \in Reads : WF_vars(Advance(r))
-----------------------------------------------------------------------------
(***************************************************************************)
(* A read does not miss what its level promises: the value a quorum read   *)
(* returns is no older than what a majority of a datacenter held when it   *)
(* began, that of a read at ALL no older than what any replica held, while *)
(* replicas move on and corrections of other reads arrive (ExecuteRead).   *)
(***************************************************************************)
ReadFresh ==
    \A r \in Reads : read[r].pc \in {"repairing", "done"} => TimeOf(read[r].val) >= read[r].floor

(***************************************************************************)
(* Once the corrections of a read have arrived, every replica whose value  *)
(* they were computed from holds the winning value or a newer one, though  *)
(* it may have executed any writes and other corrections in between        *)
(* (reconcileRead, reconcileString, reconcileTombstone, set, del).         *)
(***************************************************************************)
RepairSpreads ==
    \A r \in Reads :
        (~crashed /\ \A p \in repairs : p.read # r) =>
            \A n \in read[r].covered \ MayFail : HeldTime(n) >= read[r].high

(***************************************************************************)
(* When all writes are executed and no correction is on its way, all       *)
(* replicas hold the same value: corrections computed from old answers and *)
(* applied late do not make the replicas differ from what consensus        *)
(* ordered (Reconcile, set, del, ExecuteInstruction).                      *)
(***************************************************************************)
Converged ==
    (repairs = {} /\ \A n \in Node : applied[n] = Len(Writes)) =>
        \A n, m \in Node : data[n][ReadKey] = data[m][ReadKey]

(***************************************************************************)
(* What a replica holds for the key is never replaced by something older,  *)
(* by a correction that comes after newer writes in particular (set, del). *)
(***************************************************************************)
ValueNeverBack == [][\A n \in Node : HeldTime(n)' >= HeldTime(n)]_vars

(***************************************************************************)
(* A read that asks all datacenters comes to an end without its timeout,   *)
(* with a value or with an error, once its replicas have answered, unless  *)
(* its process crashed (the loop of ExecuteRead).                          *)
(***************************************************************************)
ReadEnds ==
    \A r \in Reads :
        (read[r].pc = "waiting" /\ ~readLocalOnly(read[r].level))
            ~> (read[r].pc # "waiting" \/ crashed)
=============================================================================
