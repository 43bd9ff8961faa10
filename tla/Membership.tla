----------------------------- MODULE Membership -----------------------------
(***************************************************************************)
(* How the nodes of a cluster come to know each other.  Each runs          *)
(* Cluster.Start in its main goroutine: it listens, starts the nodes of    *)
(* its datacenter, greets its seeds and asks every node it knows for its   *)
(* peers.  Its peer server has a goroutine for each connection, which      *)
(* registers the node that greets it and, once the cluster is NORMAL,      *)
(* connects back to it.  An address is the node that listens on it.        *)
(***************************************************************************)
EXTENDS Ring

CONSTANTS
    Node,
    TokenOf,            \* node -> its token
    DcOf,               \* node -> its datacenter
    Seeds,              \* node -> the addresses it is given
    replicationFactor,
    TokenSpace,         \* tokens are below this
    Flaky,              \* nodes that cannot always be reached within a millisecond
    MayStop,            \* nodes that may be stopped
    After,              \* node -> those whose Start is over before its own begins
    Nil

Dc == {DcOf[c] : c \in Node}
NoDc == ""              \* the zero value of a DatacenterID

ASSUME MembershipAssumption ==
    /\ IsFiniteSet(Node) /\ Nil \notin Node
    /\ TokenSpace \in Nat \ {0} /\ TokenOf \in [Node -> 0..(TokenSpace - 1)]
    /\ \A c, d \in Node : c # d => TokenOf[c] # TokenOf[d]
    /\ {NoDc, "seed", "local", Nil} \cap Dc = {} /\ Nil # NoDc
    /\ Seeds \in [Node -> Seq(Node)]
    /\ \A c \in Node : \A k \in DOMAIN Seeds[c] : Seeds[c][k] # c   \* nobody calls itself
    /\ replicationFactor \in Nat \ {0}

VARIABLES
    status,     \* of each Cluster
    listening,  \* its peer server accepts connections
    rings,      \* node -> datacenter -> ring: its Topology
    nodes,      \* node -> id -> the ring of the object GetNode returns, or Nil
    main,       \* node -> its goroutine in Start
    conn        \* the connections between nodes, and their handlers

topology == <<rings, nodes>>
vars == <<status, listening, topology, main, conn>>

\* A connection is opened for one RemoteNode object: that of a seed, or the one in
\* a ring of the topology
Slot == {"seed", NoDc} \cup Dc
Conn == {k \in Node \X Node \X Slot : k[1] # k[2]}

PeerData == [id : Node, dcId : Dc \cup {NoDc}, token : 0..(TokenSpace - 1), addr : Node \cup {Nil}]

\* LocalNode and RemoteNode; a LocalNode has no address
Entry == [id : Node, dcId : Dc \cup {NoDc}, token : 0..(TokenSpace - 1), addr : Node \cup {Nil},
          status : {"INITIALIZING", "UP", "DOWN"}, started : BOOLEAN, via : Slot \cup {"local"}]

TypeOK ==
    /\ status \in [Node -> {"INITIALIZING", "NORMAL"}]
    /\ listening \in [Node -> BOOLEAN]
    /\ \A c \in Node, dc \in Dc \cup {NoDc} : Nodes(rings[c][dc]) \subseteq Entry
    /\ nodes \in [Node -> [Node -> Dc \cup {NoDc, Nil}]]
    /\ \A c \in Node :
          /\ main[c].phase \in {"new", "locals", "seeds", "peers", "done", "failed"}
          /\ main[c].step \in {"next", "greeting", "awaiting", "adding"}
          /\ \A k \in DOMAIN main[c].reply : main[c].reply[k] \in PeerData
    /\ \A k \in Conn : conn[k].server \in {"none", "opening", "registering", "added",
                                           "starting", "serving", "reset"}

NewLocalNode(c) ==
    [id |-> c, dcId |-> DcOf[c], token |-> TokenOf[c], addr |-> Nil,
     status |-> "UP", started |-> FALSE, via |-> "local"]

NewRemoteNodeInfo(p, via) ==
    [id |-> p.id, dcId |-> p.dcId, token |-> p.token, addr |-> p.addr,
     status |-> "INITIALIZING", started |-> FALSE, via |-> via]

\* NewCluster for every node
Init ==
    /\ status = [c \in Node |-> "INITIALIZING"]
    /\ listening = [c \in Node |-> FALSE]
    /\ rings = [c \in Node |-> [dc \in Dc \cup {NoDc} |->
                  IF dc = DcOf[c] THEN <<NewLocalNode(c)>> ELSE <<>>]]
    /\ nodes = [c \in Node |-> [d \in Node |-> IF d = c THEN DcOf[c] ELSE Nil]]
    /\ main = [c \in Node |-> [phase |-> "new", step |-> "next", todo |-> <<>>, reply |-> <<>>]]
    /\ conn = [k \in Conn |-> [server |-> "none", ready |-> FALSE, request |-> FALSE, reply |-> Nil]]
-----------------------------------------------------------------------------
(* The topology of node c.  An object in it is named by its ring and id. *)

Object(c, o) == CHOOSE e \in Nodes(rings[c][o.ring]) : e.id = o.id

\* rings with the object o of c changed to e
Change(c, o, e) ==
    [rings EXCEPT ![c][o.ring] = [k \in DOMAIN @ |-> IF @[k].id = o.id THEN e ELSE @[k]]]

\* Mutant: the objects of GetNode are not kept
TopologyAddNodeUnfiled(c, e) ==
    /\ rings' = [rings EXCEPT ![c][e.dcId] = AddNode(@, e)]
    /\ UNCHANGED nodes

\* Topology.AddNode, where it is no error
TopologyAddNode(c, e) ==
    /\ rings' = [rings EXCEPT ![c][e.dcId] = AddNode(@, e)]
    /\ nodes' = [nodes EXCEPT ![c][e.id] = e.dcId]

\* Where the objects of the topology are: ring and index
Places(c) == UNION {{dc} \X DOMAIN rings[c][dc] : dc \in Dc \cup {NoDc}}
Placed(c, p) == rings[c][p[1]][p[2]]

\* AllNodes lists ring after ring, the rings in any order
Listings(P) ==
    {s \in SetToSeqs(P) :
        \A i, j \in DOMAIN s : (i < j /\ s[i][1] = s[j][1]) =>
            s[i][2] < s[j][2] /\ \A k \in i..j : s[k][1] = s[i][1]}

AllNodes(c) == {[k \in DOMAIN s |-> Placed(c, s[k])] : s \in Listings(Places(c))}

\* getPeerData
PeersOf(S) == {[k \in DOMAIN s |-> [id |-> s[k].id, dcId |-> s[k].dcId,
                                    token |-> s[k].token, addr |-> s[k].addr]] : s \in S}

\* The RemoteNode objects in P, in the order of AllNodes
addrIsKnown(c, addr) == \E p \in Places(c) : Placed(c, p).via # "local" /\ Placed(c, p).addr = addr
Objects(c, P) ==
    {[k \in DOMAIN s |-> [ring |-> s[k][1], id |-> Placed(c, s[k]).id]] :
        s \in Listings({p \in P : Placed(c, p).via # "local"})}

\* discoverPeers leaves itself out
RemoteObjects(c) == Objects(c, {p \in Places(c) : Placed(c, p).id # c})
-----------------------------------------------------------------------------
(* Connections: k = <<c, d, slot>> is opened by c to the address d. *)

\* The handler of k has written its acceptance
Accepted(k) == conn[k].server \in {"registering", "added", "starting", "serving"}

\* Mutant: the id of the acceptance is not copied
GreetedNameless(e, d) ==
    IF e.status = "INITIALIZING" THEN [e EXCEPT !.dcId = NoDc, !.token = TokenOf[d]] ELSE e

\* handleConnection's acceptance names no datacenter; getConnection copies it into
\* an object that is still INITIALIZING
Greeted(e, d) ==
    IF e.status = "INITIALIZING"
    THEN [e EXCEPT !.id = d, !.dcId = NoDc, !.token = TokenOf[d]]
    ELSE e

\* RemoteNode.Start is over
Started(e) == [e EXCEPT !.status = "UP", !.started = TRUE]

CanDial(addr) == addr # Nil /\ listening[addr]
CannotDial(addr) == addr = Nil \/ ~listening[addr] \/ addr \in Flaky

\* The greeting is on its way, the pool has none yet
Dial(f, k) == [f EXCEPT ![k].server = "opening"]
-----------------------------------------------------------------------------
(* Cluster.Start of node c. *)

\* What main does next
At(c, phase, step) == main[c].phase = phase /\ main[c].step = step
Goto(c, phase, step, todo, reply) ==
    main' = [main EXCEPT ![c] = [phase |-> phase, step |-> step, todo |-> todo, reply |-> reply]]
Skip(c) == Goto(c, main[c].phase, "next", Tail(main[c].todo), <<>>)
StartFails(c) == Goto(c, "failed", "next", <<>>, <<>>)

\* The object main works on, the address it has and its connection
Current(c) == Head(main[c].todo)
IsSeed(c) == main[c].phase = "seeds"
SeedNode(d) == [id |-> Nil, dcId |-> NoDc, token |-> 0, addr |-> d,
                status |-> "INITIALIZING", started |-> FALSE, via |-> "seed"]
CurrentNode(c) == IF IsSeed(c) THEN SeedNode(Current(c)) ELSE Object(c, Current(c))
CurrentConn(c) == <<c, CurrentNode(c).addr, CurrentNode(c).via>>

\* The peer server listens; AllLocalNodes are to be started, the LocalNode at once
Start(c) ==
    /\ main[c].phase = "new"
    /\ ~listening[c]
    /\ \A d \in After[c] : main[d].phase \in {"done", "failed"}
    /\ listening' = [listening EXCEPT ![c] = TRUE]
    /\ UNCHANGED <<status, topology, main, conn>>

StartLocals(c) ==
    LET local == [ring |-> DcOf[c], id |-> c]
    IN  /\ main[c].phase = "new"
        /\ listening[c]
        /\ \E others \in Objects(c, {p \in Places(c) : p[1] = DcOf[c] /\ ~Placed(c, p).started}) :
              Goto(c, "locals", "next", others, <<>>)
        /\ rings' = Change(c, local, [Object(c, local) EXCEPT !.started = TRUE])
        /\ UNCHANGED <<status, listening, nodes, conn>>

\* A seed whose address is known is passed over
Wanted(c) ==
    /\ main[c].step = "next"
    /\ main[c].todo # <<>>
    /\ IsSeed(c) => ~addrIsKnown(c, Current(c))

PassSeed(c) ==
    /\ At(c, "seeds", "next")
    /\ main[c].todo # <<>>
    /\ addrIsKnown(c, Current(c))
    /\ Skip(c)
    /\ UNCHANGED <<status, listening, topology, conn>>

\* getConnection opens a connection
Connect(c) ==
    /\ Wanted(c)
    /\ CanDial(CurrentNode(c).addr)
    /\ ~conn[CurrentConn(c)].ready
    /\ conn' = Dial(conn, CurrentConn(c))
    /\ Goto(c, main[c].phase, "greeting", main[c].todo, <<>>)
    /\ UNCHANGED <<status, listening, topology>>

\* or cannot, or its greeting gets no answer: a seed is passed over, any other node
\* ends Start with an error.  SendMessage and a greeting that failed mark the object
ConnectFails(c) ==
    /\ \/ Wanted(c) /\ CannotDial(CurrentNode(c).addr)
          /\ (CurrentNode(c).addr # Nil => ~conn[CurrentConn(c)].ready)
       \/ main[c].step = "greeting" /\ conn[CurrentConn(c)].server = "reset"
    /\ IF IsSeed(c) THEN Skip(c) ELSE StartFails(c)
    /\ rings' = IF ~IsSeed(c) /\ (main[c].phase = "peers" \/ main[c].step = "greeting")
                THEN Change(c, Current(c), [CurrentNode(c) EXCEPT !.status = "DOWN"])
                ELSE rings
    /\ UNCHANGED <<status, listening, nodes, conn>>

\* The greeting is answered: RemoteNode.Start of a node of this datacenter is over
StartedLocal(c) ==
    LET k == CurrentConn(c)
    IN  /\ At(c, "locals", "greeting")
        /\ Accepted(k)
        /\ rings' = Change(c, Current(c), Started(Greeted(CurrentNode(c), k[2])))
        /\ conn' = [conn EXCEPT ![k].ready = TRUE]
        /\ Skip(c)
        /\ UNCHANGED <<status, listening, nodes>>

\* That of a seed is, and it is added, or dropped if the ring has its id
AddSeed(c) ==
    LET k == CurrentConn(c)
        e == Started(Greeted(CurrentNode(c), k[2]))
    IN  /\ At(c, "seeds", "greeting")
        /\ Accepted(k)
        /\ IF CanAdd(rings[c][e.dcId], e) THEN TopologyAddNode(c, e) ELSE UNCHANGED topology
        /\ conn' = [conn EXCEPT ![k].ready = TRUE]
        /\ Skip(c)
        /\ UNCHANGED <<status, listening>>

\* A peer is asked for its peers, on a connection of its pool or on the new one
AskPeer(c) ==
    LET k == CurrentConn(c)
        new == At(c, "peers", "greeting") /\ Accepted(k)
    IN  /\ main[c].phase = "peers"
        /\ new \/ (Wanted(c) /\ CurrentNode(c).addr # Nil /\ conn[k].ready)
        /\ conn' = [conn EXCEPT ![k].ready = TRUE, ![k].request = TRUE]
        /\ rings' = IF new THEN Change(c, Current(c), Greeted(CurrentNode(c), k[2])) ELSE rings
        /\ Goto(c, "peers", "awaiting", main[c].todo, <<>>)
        /\ UNCHANGED <<status, listening, nodes>>

ReadReply(c) ==
    LET k == CurrentConn(c)
    IN  /\ main[c].step = "awaiting"
        /\ conn[k].reply # Nil
        /\ Goto(c, "peers", "adding", main[c].todo, conn[k].reply)
        /\ conn' = [conn EXCEPT ![k].reply = Nil]
        /\ rings' = Change(c, Current(c), [CurrentNode(c) EXCEPT !.status = "UP"])
        /\ UNCHANGED <<status, listening, nodes>>

\* Mutant: the peer is taken to listen where the one that was asked does
PeerEntryWrongAddr(c, p) == [NewRemoteNodeInfo(p, p.dcId) EXCEPT !.addr = CurrentNode(c).addr]

\* One peer of the reply
PeerEntry(c, p) == NewRemoteNodeInfo(p, p.dcId)

\* addNode of it; the status is INITIALIZING all through discoverPeers.  The first
\* one that is in its ring ends discoverPeers, and Start, with an error
AddPeer(c) ==
    LET e == PeerEntry(c, Head(main[c].reply))
    IN  /\ main[c].step = "adding"
        /\ \/ /\ CanAdd(rings[c][e.dcId], e)
              /\ TopologyAddNode(c, e)
              /\ IF Len(main[c].reply) = 1 THEN Skip(c)
                 ELSE Goto(c, "peers", "adding", main[c].todo, Tail(main[c].reply))
           \/ /\ ~CanAdd(rings[c][e.dcId], e)
              /\ StartFails(c)
              /\ UNCHANGED topology
        /\ UNCHANGED <<status, listening, conn>>

\* From one loop of Start to the next.  firstStartup is false, for the ring has the
\* LocalNode: JoinCluster is not called
NextPhase(c) ==
    /\ main[c].step = "next"
    /\ main[c].todo = <<>>
    /\ \/ /\ main[c].phase = "locals"
          /\ Goto(c, "seeds", "next", Seeds[c], <<>>)
          /\ UNCHANGED status
       \/ /\ main[c].phase = "seeds"
          /\ \E peers \in RemoteObjects(c) : Goto(c, "peers", "next", peers, <<>>)
          /\ UNCHANGED status
       \/ /\ main[c].phase = "peers"
          /\ Goto(c, "done", "next", <<>>, <<>>)
          /\ status' = [status EXCEPT ![c] = "NORMAL"]
    /\ UNCHANGED <<listening, topology, conn>>

\* Cluster.Stop, after Start: connections nobody has accepted yet are reset
Stop(c) ==
    /\ c \in MayStop
    /\ listening[c]
    /\ main[c].phase \in {"done", "failed"}
    /\ listening' = [listening EXCEPT ![c] = FALSE]
    /\ \E lost \in SUBSET {k \in Conn : k[2] = c /\ conn[k].server = "opening"} :
          conn' = [k \in Conn |-> IF k \in lost THEN [conn[k] EXCEPT !.server = "reset"] ELSE conn[k]]
    /\ rings' = [rings EXCEPT ![c][DcOf[c]] =
                    [k \in DOMAIN @ |-> [@[k] EXCEPT !.started = FALSE]]]
    /\ UNCHANGED <<status, nodes, main>>
-----------------------------------------------------------------------------
(* handleConnection for k = <<c, d, slot>>, at d. *)

Handler(k, server) == conn' = [conn EXCEPT ![k].server = server]

\* Mutant: connections are handled one after the other
AcceptSerially(k) ==
    /\ conn[k].server = "opening"
    /\ \A j \in Conn : j[2] = k[2] /\ j # k => conn[j].server \in {"none", "opening", "reset"}
    /\ Handler(k, "registering")
    /\ UNCHANGED <<status, listening, topology, main>>

\* The greeting is read and accepted
Accept(k) ==
    /\ conn[k].server = "opening"
    /\ Handler(k, "registering")
    /\ UNCHANGED <<status, listening, topology, main>>

\* Mutant: nodes are registered only in a cluster that is up
RegisterNormal(k) ==
    LET e == NewRemoteNodeInfo([id |-> k[1], dcId |-> DcOf[k[1]], token |-> TokenOf[k[1]], addr |-> k[1]],
                               DcOf[k[1]])
    IN  /\ conn[k].server = "registering"
        /\ IF status[k[2]] = "NORMAL" /\ CanAdd(rings[k[2]][e.dcId], e)
           THEN TopologyAddNode(k[2], e) /\ Handler(k, "added")
           ELSE Handler(k, "serving") /\ UNCHANGED topology
        /\ UNCHANGED <<status, listening, main>>

\* addNode of the node that sent the greeting, whose error is not looked at
Register(k) ==
    LET e == NewRemoteNodeInfo([id |-> k[1], dcId |-> DcOf[k[1]], token |-> TokenOf[k[1]], addr |-> k[1]],
                               DcOf[k[1]])
    IN  /\ conn[k].server = "registering"
        /\ \/ /\ CanAdd(rings[k[2]][e.dcId], e)
              /\ TopologyAddNode(k[2], e)
              /\ Handler(k, "added")
           \/ /\ ~CanAdd(rings[k[2]][e.dcId], e)
              /\ Handler(k, "serving")
              /\ UNCHANGED topology
        /\ UNCHANGED <<status, listening, main>>

\* The object that was registered, and its connection
Registered(k) == [ring |-> DcOf[k[1]], id |-> k[1]]
Back(k) == <<k[2], k[1], DcOf[k[1]]>>

\* addNode looks at the status after it has added the node, and starts it
StartRegistered(k) ==
    LET d == k[2]
    IN  /\ conn[k].server = "added"
        /\ \/ /\ status[d] = "INITIALIZING"
              /\ Handler(k, "serving")
           \/ /\ status[d] = "NORMAL"
              /\ conn[Back(k)].ready \/ CanDial(k[1])
              /\ LET f == [conn EXCEPT ![k].server = "starting"]
                 IN  conn' = IF conn[Back(k)].ready THEN f ELSE Dial(f, Back(k))
           \/ /\ status[d] = "NORMAL"
              /\ ~conn[Back(k)].ready
              /\ CannotDial(k[1])
              /\ Handler(k, "serving")
        /\ UNCHANGED <<status, listening, topology, main>>

EndStart(k) ==
    LET d == k[2]
        e == Object(d, Registered(k))
    IN  /\ conn[k].server = "starting"
        /\ \/ /\ Accepted(Back(k))
              /\ conn' = [conn EXCEPT ![k].server = "serving", ![Back(k)].ready = TRUE]
              /\ rings' = Change(d, Registered(k), Started(Greeted(e, k[1])))
           \/ /\ conn[Back(k)].server = "reset"
              /\ Handler(k, "serving")
              /\ rings' = Change(d, Registered(k), [e EXCEPT !.status = "DOWN"])
        /\ UNCHANGED <<status, listening, nodes, main>>

\* executeRequest of a DiscoverPeersRequest
Serve(k) ==
    /\ conn[k].server = "serving"
    /\ conn[k].request
    /\ \E peers \in PeersOf(AllNodes(k[2])) :
          conn' = [conn EXCEPT ![k].request = FALSE, ![k].reply = peers]
    /\ UNCHANGED <<status, listening, topology, main>>
-----------------------------------------------------------------------------
MainStep(c) ==
    \/ Start(c)        \/ StartLocals(c) \/ PassSeed(c)  \/ Connect(c) \/ ConnectFails(c)
    \/ StartedLocal(c) \/ AddSeed(c)     \/ AskPeer(c) \/ ReadReply(c)
    \/ AddPeer(c)      \/ NextPhase(c)

HandlerStep(k) ==
    Accept(k) \/ Register(k) \/ StartRegistered(k) \/ EndStart(k) \/ Serve(k)

Next ==
    \/ \E c \in Node : MainStep(c) \/ Stop(c)
    \/ \E k \in Conn : HandlerStep(k)

Spec == Init /\ [][Next]_vars

\* Of the goroutines that can run one does, be it that of a node that was started or
\* of a connection; nobody has to start or stop a node
FairSpec ==
    /\ Spec
    /\ WF_vars(\/ \E c \in Node : listening[c] /\ MainStep(c)
               \/ \E k \in Conn : HandlerStep(k))
-----------------------------------------------------------------------------
KeyToken == 0..(TokenSpace - 1)
IdsOf(s) == [k \in DOMAIN s |-> s[k].id]

(***************************************************************************)
(* Every topology is sound, whatever goroutines added to it in whatever    *)
(* order: each ring has its nodes once and in the order of the tokens they *)
(* now have, and GetNode finds exactly the nodes that are in some ring     *)
(* (Ring.AddNode, refreshRing, Topology.AddNode).                          *)
(***************************************************************************)
TopologySound ==
    \A c \in Node :
        /\ \A dc \in Dc \cup {NoDc} : \A j, k \in DOMAIN rings[c][dc] :
              j < k => /\ rings[c][dc][j].token < rings[c][dc][k].token
                       /\ rings[c][dc][j].id # rings[c][dc][k].id
        /\ \A d \in Node :
              IF nodes[c][d] = Nil THEN \A dc \in Dc \cup {NoDc} : d \notin Ids(rings[c][dc])
              ELSE d \in Ids(rings[c][nodes[c][d]])

(***************************************************************************)
(* What a node believes of another is true, however it heard of it: from a *)
(* seed's acceptance, a greeting, or a peer that repeats what it heard     *)
(* itself.  Only the datacenter and the address may be missing, for the    *)
(* acceptance and the LocalNode do not have them (getConnection,           *)
(* handleConnection, getPeerData, discoverPeers).                          *)
(***************************************************************************)
InfoTrue ==
    \A c \in Node, dc \in Dc \cup {NoDc} : \A e \in Nodes(rings[c][dc]) :
        /\ e.token = TokenOf[e.id]
        /\ e.addr \in {e.id, Nil}
        /\ {e.dcId, dc} \subseteq {DcOf[e.id], NoDc}

(***************************************************************************)
(* Two nodes that know the same members of a datacenter send every token   *)
(* to the same replicas, in the same order, though they learned of them    *)
(* from different nodes in different orders (GetNodesForToken).            *)
(***************************************************************************)
RoutesAgree ==
    \A c, d \in Node, dc \in Dc :
        Ids(rings[c][dc]) = Ids(rings[d][dc]) =>
            \A t \in KeyToken : IdsOf(GetNodesForToken(rings[c][dc], t, replicationFactor))
                              = IdsOf(GetNodesForToken(rings[d][dc], t, replicationFactor))

(***************************************************************************)
(* "a token belongs the first node with a token greater than or equal to   *)
(* it, values are replicated forward": the replicas are the nodes nearest  *)
(* to the token when one walks up the circle of tokens, as many as the     *)
(* replication factor or the ring allows (GetNodesForToken, sort.Search).  *)
(***************************************************************************)
ReplicasNearest ==
    \A c \in Node, dc \in Dc, t \in KeyToken :
        LET ring == rings[c][dc]
            replicas == GetNodesForToken(ring, t, replicationFactor)
            distance(e) == (e.token - t) % TokenSpace
        IN  /\ Cardinality(Nodes(replicas)) = Len(replicas)
            /\ Len(replicas) = replicationFactor \/ Nodes(replicas) = Nodes(ring)
            /\ \A e \in Nodes(replicas), f \in Nodes(ring) \ Nodes(replicas) :
                  distance(e) < distance(f)
            /\ \A j, k \in DOMAIN replicas : j < k => distance(replicas[j]) < distance(replicas[k])

(***************************************************************************)
(* Nobody is known on one side only: when no handler is at work, a node    *)
(* that another has up knows that other one, in its true datacenter        *)
(* (handleConnection registers before it serves, addNode).                 *)
(***************************************************************************)
Mutual ==
    (\A k \in Conn : conn[k].server \in {"none", "serving", "reset"}) =>
        \A c \in Node, dc \in Dc \cup {NoDc} : \A e \in Nodes(rings[c][dc]) :
            (e.via # "local" /\ e.status = "UP") => c \in Ids(rings[e.id][DcOf[c]])

(***************************************************************************)
(* A node that joins takes replicas over and moves none between the        *)
(* others: after any step the replicas of a token are among the ones it    *)
(* had and the nodes that are new, and it loses one at most for each,      *)
(* whatever the replication factor (AddNode, GetNodesForToken).            *)
(***************************************************************************)
ReplicasStable ==
    [][\A c \in Node, dc \in Dc : rings'[c][dc] # rings[c][dc] =>
          LET new == Ids(rings'[c][dc]) \ Ids(rings[c][dc])
          IN  \A t \in KeyToken, factor \in 1..replicationFactor :
                 LET before == Ids(GetNodesForToken(rings[c][dc], t, factor))
                     after == Ids(GetNodesForToken(rings'[c][dc], t, factor))
                 IN  after \subseteq before \cup new /\ Cardinality(before \ after) <= Cardinality(new)
      ]_rings

(***************************************************************************)
(* Start comes to an end, with or without error, though nodes that start   *)
(* at once greet each other, and connect back from within the handlers of  *)
(* greetings, with no timeout on any answer (Start, addNode,               *)
(* acceptConnections).                                                     *)
(***************************************************************************)
StartEnds == \A c \in Node : listening[c] ~> main[c].phase \in {"done", "failed"}
=============================================================================
