-------------------------- MODULE MembershipProofs --------------------------
(***************************************************************************)
(* For any number of nodes, datacenters, seeds and tokens: the topologies  *)
(* that Start and the handlers of greetings build at the same time are     *)
(* sound and true, nobody is known on one side only, and every token has   *)
(* the replicas nearest to it, of which a join moves few.                  *)
(***************************************************************************)
EXTENDS Membership, FiniteSetTheorems, WellFoundedInduction, TLAPS

AllDc == Dc \cup {NoDc}
ObjectName == [ring : AllDc, id : Node]

\* What node c may believe of another in the ring of dc.  The object in a ring of a
\* datacenter has the connection of that ring, c itself is the LocalNode, and only
\* other nodes are connected to
EntryOK(c, dc, e) ==
    /\ e \in Entry
    /\ e.token = TokenOf[e.id] /\ e.addr \in {e.id, Nil}
    /\ e.dcId \in {DcOf[e.id], NoDc} /\ dc \in {DcOf[e.id], NoDc}
    /\ dc # NoDc => e.via \in {dc, "local"}
    /\ e.via = "local" <=> (e.id = c /\ dc = DcOf[c])
    /\ e.status = "UP" /\ e.via # "local" => e.id # c

Sorted(ring) == \A j, k \in DOMAIN ring : j < k => ring[j].token < ring[k].token

RingOK(c, dc, ring) ==
    /\ ring \in Seq(Entry)
    /\ Sorted(ring)
    /\ \A k \in DOMAIN ring : EntryOK(c, dc, ring[k])

RingsOK ==
    /\ rings \in [Node -> [AllDc -> Seq(Entry)]]
    /\ \A c \in Node : c \in Ids(rings[c][DcOf[c]])
    /\ \A c \in Node, dc \in AllDc : RingOK(c, dc, rings[c][dc])

\* GetNode finds what is in some ring
FiledOK ==
    /\ nodes \in [Node -> [Node -> AllDc \cup {Nil}]]
    /\ \A c, d \in Node :
          IF nodes[c][d] = Nil THEN \A dc \in AllDc : d \notin Ids(rings[c][dc])
          ELSE d \in Ids(rings[c][nodes[c][d]])

\* What a node says of another
PeerOK(p) ==
    /\ p \in PeerData
    /\ p.token = TokenOf[p.id] /\ p.addr \in {p.id, Nil} /\ p.dcId \in {DcOf[p.id], NoDc}

MainType ==
    [phase : {"new", "locals", "seeds", "peers", "done", "failed"},
     step  : {"next", "greeting", "awaiting", "adding"},
     todo  : Seq(Node \cup ObjectName),
     reply : Seq(PeerData)]

ConnType ==
    [server  : {"none", "opening", "registering", "added", "starting", "serving", "reset"},
     ready   : BOOLEAN,
     request : BOOLEAN,
     reply   : Seq(PeerData) \cup {Nil}]

Shape ==
    /\ status \in [Node -> {"INITIALIZING", "NORMAL"}]
    /\ listening \in [Node -> BOOLEAN]
    /\ main \in [Node -> MainType]
    /\ conn \in [Conn -> ConnType]

\* o names the object of another node in the rings R of c
Known(c, o, R) == o \in ObjectName /\ o.id # c /\ o.id \in Ids(R[o.ring])

\* One that has an address, one whose connection is in the pool
Dialled(o, R) == \E e \in Nodes(R[o.ring]) : e.id = o.id /\ e.addr # Nil
InPool(c, o, R, f) == \E e \in Nodes(R[o.ring]) : e.id = o.id /\ f[<<c, e.id, e.via>>].ready

\* Start of c, in state m, works on seeds that are other nodes, or on objects of
\* other nodes in its topology; while it waits on a connection the object has an
\* address, while it waits for an answer the connection is in the pool
MainOK(c, m, R, f) ==
    /\ m.step # "next" => m.todo # <<>>
    /\ m.todo # <<>> => m.phase \in {"locals", "seeds", "peers"}
    /\ m.step \in {"awaiting", "adding"} => m.phase = "peers"
    /\ m.step = "adding" => m.reply # <<>>
    /\ \A k \in DOMAIN m.reply : PeerOK(m.reply[k])
    /\ m.phase = "seeds" => \A k \in DOMAIN m.todo : m.todo[k] \in Node \ {c}
    /\ m.phase \in {"locals", "peers"} => \A k \in DOMAIN m.todo : Known(c, m.todo[k], R)
    /\ m.step \in {"greeting", "awaiting"} /\ m.phase # "seeds" => Dialled(Head(m.todo), R)
    /\ m.step = "awaiting" => InPool(c, Head(m.todo), R, f)

\* Connection k, in state x: in the pool it was accepted, and who was accepted is
\* registered in the rings R of the other side before anything else happens
ConnOK(k, x, R) ==
    /\ x.reply # Nil => x.reply # <<>> /\ \A i \in DOMAIN x.reply : PeerOK(x.reply[i])
    /\ x.ready => x.server \in {"registering", "added", "starting", "serving"}
    /\ x.server \in {"added", "starting", "serving"} => k[1] \in Ids(R[DcOf[k[1]]])

\* A node that is up was reached by a connection that is in the pool
UpReady ==
    \A c \in Node, dc \in AllDc : \A e \in Nodes(rings[c][dc]) :
        e.status = "UP" /\ e.via # "local" => conn[<<c, e.id, e.via>>].ready

IInv ==
    /\ Shape
    /\ RingsOK
    /\ FiledOK
    /\ \A c \in Node : MainOK(c, main[c], rings[c], conn)
    /\ \A k \in Conn : ConnOK(k, conn[k], rings[k[2]])
    /\ UpReady
-----------------------------------------------------------------------------
(* The ring of a set of nodes with different tokens. *)

LEMMA SmallestExists ==
    ASSUME NEW T, T \subseteq Nat, T # {}
    PROVE  \E u \in T : \A v \in T : u <= v
  <1>1. PICK R : IsWellFoundedOn(R, Nat) /\ \A x, y \in Nat : x < y => <<x, y>> \in R
    <2>1. \A x, y \in Nat : x < y => <<x, y>> \in {ss \in Nat \X Nat : ss[1] < ss[2]}
      OBVIOUS
    <2>2. IsWellFoundedOn({ss \in Nat \X Nat : ss[1] < ss[2]}, Nat)
      BY NatLessThanWellFounded DEF OpToRel
    <2> QED  BY <2>1, <2>2
  <1>2. PICK u \in T : \A v \in T : ~(<<v, u>> \in R)
    <2>1. IsWellFoundedOn(R, Nat) /\ T \subseteq Nat /\ T # {}
      BY <1>1
    <2> QED  BY <2>1, WFMin, Zenon
  <1>3. \A v \in T : ~(v < u) /\ v \in Nat /\ u \in Nat
    BY <1>1, <1>2
  <1> QED  BY <1>3

\* s lists the elements of S, each once
Lists(s, S) ==
    /\ s \in [1..Cardinality(S) -> S]
    /\ \A i, j \in 1..Cardinality(S) : i # j => s[i] # s[j]

LEMMA SetToSeqsIs ==
    ASSUME NEW S, NEW s
    PROVE  s \in SetToSeqs(S) <=> Lists(s, S)
  BY DEF SetToSeqs, Lists

\* Who lists as many elements as there are lists them all
LEMMA ListsAll ==
    ASSUME NEW S, IsFiniteSet(S), NEW s, Lists(s, S)
    PROVE  {s[k] : k \in DOMAIN s} = S
  <1>1. PICK n \in Nat : n = Cardinality(S)
    BY FS_CardinalityType
  <1>2. PICK D : D = 1..n
    OBVIOUS
  <1>3. IsFiniteSet(D) /\ Cardinality(D) = n
    BY <1>2, FS_Interval
  <1>4. s \in Surjection(D, S)
    <2>1. s \in Injection(D, S)
      BY <1>1, <1>2 DEF Lists, Injection, IsInjective
    <2> QED  BY <1>1, <1>3, <2>1, FS_Injection
  <1> QED  BY <1>4 DEF Surjection

LEMMA SortExists ==
    ASSUME NEW S, IsFiniteSet(S), \A m \in S : m.token \in Nat,
           \A m, n \in S : m.token = n.token => m = n
    PROVE  \E s : Lists(s, S) /\ Sorted(s)
  <1> DEFINE Bad(Q) == ~\E s : Lists(s, Q) /\ Sorted(s)
             T == {n \in Nat : \E Q \in SUBSET S : Cardinality(Q) = n /\ Bad(Q)}
  <1> SUFFICES ASSUME Bad(S)
               PROVE  FALSE
    OBVIOUS
  <1>1. \E u \in T : \A v \in T : u <= v
    <2>1. T \subseteq Nat /\ Cardinality(S) \in T
      BY FS_CardinalityType
    <2> HIDE DEF T
    <2> QED  BY <2>1, SmallestExists
  <1>2. PICK n \in T : \A v \in T : n <= v
    BY <1>1
  <1>3. PICK Q \in SUBSET S : Cardinality(Q) = n /\ Bad(Q)
    BY <1>2
  <1>4. IsFiniteSet(Q) /\ n \in Nat
    BY <1>2, FS_Subset
  <1>5. CASE n = 0
    <2>1. Q = {}
      BY <1>3, <1>4, <1>5, FS_EmptySet
    <2>2. PICK s : s = [i \in 1..0 |-> 0]
      OBVIOUS
    <2>3. Lists(s, Q) /\ Sorted(s)
      BY <1>3, <1>5, <2>1, <2>2 DEF Lists, Sorted
    <2> QED  BY <1>3, <2>3
  <1>6. CASE n # 0
    <2>1. PICK m \in Q : \A q \in Q : m.token <= q.token
      <3>1. Q # {}
        BY <1>3, <1>4, <1>6, FS_EmptySet
      <3>2. PICK U : U = {q.token : q \in Q}
        OBVIOUS
      <3>3. U \subseteq Nat /\ U # {}
        BY <3>1, <3>2
      <3>4. PICK u \in U : \A v \in U : u <= v
        BY <3>3, SmallestExists
      <3> QED  BY <3>2, <3>4
    <2>2. PICK P : P = Q \ {m}
      OBVIOUS
    <2>3. Cardinality(P) = n - 1 /\ n - 1 \in Nat /\ P \subseteq S
      <3>1. Cardinality(P) = Cardinality(Q) - 1
        BY <1>4, <2>1, <2>2, FS_RemoveElement
      <3> QED  BY <1>3, <1>4, <1>6, <2>2, <3>1
    <2>4. n - 1 \notin T
      BY <1>2, <1>4, <2>3
    <2>5. PICK s : Lists(s, P) /\ Sorted(s)
      BY <2>3, <2>4
    <2>6. PICK t : t = [i \in 1..n |-> IF i = 1 THEN m ELSE s[i - 1]]
      OBVIOUS
    <2>7. s \in [1..(n - 1) -> P] /\ \A i, j \in 1..(n - 1) : i # j => s[i] # s[j]
      BY <2>3, <2>5 DEF Lists
    <2>8. \A i \in 1..n : i # 1 => i - 1 \in 1..(n - 1) /\ t[i] = s[i - 1] /\ t[i] \in P
      BY <1>4, <2>6, <2>7
    <2>9. t[1] = m /\ DOMAIN t = 1..n /\ 1 \in 1..n
      BY <1>4, <1>6, <2>6
    <2>10. Lists(t, Q)
      <3>1. \A i \in 1..n : t[i] \in Q
        BY <2>2, <2>8, <2>9
      <3>2. t \in [1..n -> Q]
        BY <2>6, <3>1
      <3>3. ASSUME NEW i \in 1..n, NEW j \in 1..n, i # j
            PROVE  t[i] # t[j]
        <4>1. CASE i = 1 \/ j = 1
          BY <2>2, <2>8, <2>9, <3>3, <4>1
        <4>2. CASE i # 1 /\ j # 1
          <5>1. i - 1 # j - 1
            BY <1>4, <3>3
          <5> QED  BY <2>7, <2>8, <4>2, <5>1
        <4> QED  BY <4>1, <4>2
      <3> QED  BY <1>3, <3>2, <3>3 DEF Lists
    <2>11. Sorted(t)
      <3> SUFFICES ASSUME NEW i \in 1..n, NEW j \in 1..n, i < j
                   PROVE  t[i].token < t[j].token
        BY <2>9 DEF Sorted
      <3>1. j # 1 /\ t[j] \in P
        BY <2>8
      <3>2. CASE i = 1
        <4>1. m.token <= t[j].token /\ m.token # t[j].token
          BY <2>1, <2>2, <3>1
        <4>2. m.token \in Nat /\ t[j].token \in Nat
          BY <2>2, <3>1
        <4> QED  BY <2>9, <3>2, <4>1, <4>2
      <3>3. CASE i # 1
        <4>1. i - 1 < j - 1
          BY <1>4
        <4>2. s[i - 1].token < s[j - 1].token
          BY <2>5, <2>7, <2>8, <3>1, <3>3, <4>1 DEF Sorted
        <4> QED  BY <2>8, <3>1, <3>3, <4>2
      <3> QED  BY <3>2, <3>3
    <2> QED  BY <1>3, <2>10, <2>11
  <1> QED  BY <1>5, <1>6

LEMMA RefreshRing ==
    ASSUME NEW ring, NEW S, IsFiniteSet(S), \A m \in S : m.token \in Nat,
           \A m, n \in S : m.token = n.token => m = n,
           NEW s, s = refreshRing(ring, S)
    PROVE  s \in Seq(S) /\ Nodes(s) = S /\ Sorted(s)
  <1>1. \E x \in SetToSeqs(S) : \A j, k \in DOMAIN x : j < k => x[j].token < x[k].token
    BY SortExists, SetToSeqsIs DEF Sorted
  <1>2. s \in SetToSeqs(S) /\ Sorted(s)
    BY <1>1 DEF refreshRing, Sorted
  <1>3. Lists(s, S) /\ Cardinality(S) \in Nat
    BY <1>2, SetToSeqsIs, FS_CardinalityType
  <1>4. s \in Seq(S)
    BY <1>3 DEF Lists
  <1> QED  BY <1>2, <1>3, <1>4, ListsAll DEF Nodes

LEMMA EntryFacts ==
    ASSUME NEW c, NEW dc, NEW e, EntryOK(c, dc, e)
    PROVE  /\ e.id \in Node /\ e.token \in Nat /\ e.dcId \in AllDc /\ e.addr \in Node \cup {Nil}
           /\ e.via \in Slot \cup {"local"} /\ e.token = TokenOf[e.id]
  BY MembershipAssumption DEF EntryOK, Entry, AllDc

\* In a ring an id names one object
LEMMA RingFacts ==
    ASSUME NEW c, NEW dc, NEW ring, RingOK(c, dc, ring)
    PROVE  /\ IsFiniteSet(Nodes(ring)) /\ DOMAIN ring = 1..Len(ring) /\ Len(ring) \in Nat
           /\ \A e \in Nodes(ring) : EntryOK(c, dc, e) /\ e.token \in Nat
           /\ \A j, k \in DOMAIN ring : ring[j].id = ring[k].id => j = k
           /\ \A e, f \in Nodes(ring) : e.id = f.id => e = f
           /\ \A e, f \in Nodes(ring) : e.token = f.token => e = f
           /\ Ids(ring) \subseteq Node
  <1>1. DOMAIN ring = 1..Len(ring) /\ Len(ring) \in Nat
    BY DEF RingOK
  <1>2. \A k \in DOMAIN ring : EntryOK(c, dc, ring[k]) /\ ring[k].token \in Nat /\ ring[k].id \in Node
    BY EntryFacts DEF RingOK
  <1>3. IsFiniteSet(Nodes(ring))
    <2>1. PICK S : S = 1..Len(ring)
      OBVIOUS
    <2>2. IsFiniteSet(S)
      BY <1>1, <2>1, FS_Interval
    <2>3. PICK f : f = [k \in S |-> ring[k]]
      OBVIOUS
    <2>4. f \in Surjection(S, Nodes(ring))
      BY <1>1, <2>1, <2>3 DEF Surjection, Nodes
    <2> QED  BY <2>2, <2>4, FS_Surjection
  <1>4. \A j, k \in DOMAIN ring : ring[j].token = ring[k].token => j = k
    BY <1>1, <1>2 DEF RingOK, Sorted
  <1>5. \A j, k \in DOMAIN ring : ring[j].id = ring[k].id => ring[j].token = ring[k].token
    BY <1>2 DEF EntryOK
  <1>6. \A j, k \in DOMAIN ring : ring[j].id = ring[k].id => j = k
    BY <1>4, <1>5
  <1> QED  BY <1>1, <1>2, <1>3, <1>4, <1>6 DEF Nodes, Ids

LEMMA AddNodeOK ==
    ASSUME NEW c, NEW dc, NEW ring, RingOK(c, dc, ring), NEW e, EntryOK(c, dc, e), CanAdd(ring, e),
           NEW s, s = AddNode(ring, e)
    PROVE  RingOK(c, dc, s) /\ Nodes(s) = Nodes(ring) \cup {e}
  <1>1. PICK S : S = Nodes(ring) \cup {e}
    OBVIOUS
  <1>2. IsFiniteSet(S)
    BY <1>1, RingFacts, FS_AddElement
  <1>3. \A m \in S : EntryOK(c, dc, m)
    BY <1>1, RingFacts
  <1>4. \A m \in S : m.token \in Nat /\ m.id \in Node /\ m.token = TokenOf[m.id] /\ m \in Entry
    BY <1>3, EntryFacts DEF EntryOK
  <1>5. \A m, n \in S : m.id = n.id => m = n
    BY <1>1, RingFacts DEF CanAdd, Ids
  <1>6. \A m, n \in S : m.token = n.token => m = n
    BY <1>4, <1>5, MembershipAssumption
  <1>7. s = refreshRing(ring, S)
    BY <1>1 DEF AddNode
  <1>8. s \in Seq(S) /\ Nodes(s) = S /\ Sorted(s)
    BY <1>2, <1>4, <1>6, <1>7, RefreshRing
  <1>9. s \in Seq(Entry) /\ \A k \in DOMAIN s : EntryOK(c, dc, s[k])
    BY <1>3, <1>4, <1>8 DEF Nodes
  <1> QED  BY <1>1, <1>8, <1>9 DEF RingOK
-----------------------------------------------------------------------------
(* What a step does to a topology: objects change, or one is added. *)

Topo == RingsOK /\ FiledOK /\ UpReady

\* No object goes away or gets another name, address or connection
RingsGrow ==
    \A c \in Node, dc \in AllDc : \A a \in Nodes(rings[c][dc]) :
        \E b \in Nodes(rings'[c][dc]) : b.id = a.id /\ b.addr = a.addr /\ b.via = a.via

\* No pool loses a connection
ReadyGrows == \A k \in Conn : conn[k].ready => conn'[k].ready

\* b is what may become of the object a of c
Kept(c, a, b) ==
    /\ b \in Entry /\ b.id = a.id /\ b.token = a.token /\ b.addr = a.addr /\ b.via = a.via
    /\ b.dcId \in {a.dcId, NoDc}
    /\ b.status = "UP" /\ b.via # "local" => b.id # c

LEMMA KeptOK ==
    ASSUME NEW c, NEW dc, NEW a, EntryOK(c, dc, a), NEW b, Kept(c, a, b)
    PROVE  EntryOK(c, dc, b)
  BY DEF EntryOK, Kept

LEMMA InConn ==
    ASSUME NEW c \in Node, NEW dc \in AllDc, NEW e, EntryOK(c, dc, e), e.id # c, e.via # "local"
    PROVE  <<c, e.id, e.via>> \in Conn
  BY EntryFacts DEF Conn

LEMMA IdsIs ==
    ASSUME NEW ring, NEW d
    PROVE  d \in Ids(ring) <=> \E k \in DOMAIN ring : ring[k].id = d
  BY DEF Ids, Nodes

LEMMA AllDcFacts ==
    /\ \A c \in Node : DcOf[c] \in AllDc /\ DcOf[c] # NoDc /\ DcOf[c] # Nil /\ DcOf[c] \notin {"seed", "local"}
    /\ NoDc \in AllDc /\ Nil \notin AllDc /\ "local" \notin AllDc
    /\ AllDc \subseteq Slot /\ "seed" \in Slot /\ "local" \notin Slot
  BY MembershipAssumption DEF AllDc, Dc, Slot, NoDc

LEMMA SameTopology ==
    ASSUME Topo, Shape, ReadyGrows, UNCHANGED <<rings, nodes>>
    PROVE  Topo' /\ RingsGrow
  <1>1. RingsOK' /\ FiledOK'
    BY DEF Topo, RingsOK, FiledOK
  <1>2. RingsGrow
    BY DEF RingsGrow
  <1>3. UpReady'
    <2> SUFFICES ASSUME NEW c \in Node, NEW dc \in AllDc, NEW e \in Nodes(rings[c][dc]),
                        e.status = "UP", e.via # "local"
                 PROVE  conn'[<<c, e.id, e.via>>].ready
      BY DEF UpReady
    <2>1. EntryOK(c, dc, e)
      BY RingFacts DEF Topo, RingsOK
    <2>2. <<c, e.id, e.via>> \in Conn
      BY <2>1, InConn DEF EntryOK
    <2> QED  BY <2>2 DEF Topo, UpReady, ReadyGrows
  <1> QED  BY <1>1, <1>2, <1>3 DEF Topo

LEMMA ChangedTopology ==
    ASSUME Topo, ReadyGrows, UNCHANGED nodes, rings' \in [Node -> [AllDc -> Seq(Entry)]],
           \A c \in Node, dc \in AllDc :
              /\ DOMAIN rings'[c][dc] = DOMAIN rings[c][dc]
              /\ \A k \in DOMAIN rings[c][dc] :
                    /\ Kept(c, rings[c][dc][k], rings'[c][dc][k])
                    /\ (rings'[c][dc][k].status = "UP" /\ rings'[c][dc][k].via # "local") =>
                         \/ rings[c][dc][k].status = "UP"
                         \/ conn'[<<c, rings'[c][dc][k].id, rings'[c][dc][k].via>>].ready
    PROVE  Topo' /\ RingsGrow
  <1>1. \A c \in Node, dc \in AllDc : RingOK(c, dc, rings[c][dc]) /\ rings[c][dc] \in Seq(Entry)
    BY DEF Topo, RingsOK, RingOK
  <1>2. ASSUME NEW c \in Node, NEW dc \in AllDc
        PROVE  /\ RingOK(c, dc, rings'[c][dc])
               /\ \A d : d \in Ids(rings'[c][dc]) <=> d \in Ids(rings[c][dc])
    <2>1. PICK r : r = rings[c][dc]
      OBVIOUS
    <2>2. PICK s \in Seq(Entry) : s = rings'[c][dc]
      OBVIOUS
    <2>3. DOMAIN s = DOMAIN r /\ \A k \in DOMAIN r : Kept(c, r[k], s[k])
      BY <2>1, <2>2
    <2>4. \A k \in DOMAIN r : EntryOK(c, dc, s[k]) /\ s[k].token = r[k].token /\ s[k].id = r[k].id
      <3> TAKE k \in DOMAIN r
      <3>1. PICK a, b : a = r[k] /\ b = s[k]
        OBVIOUS
      <3>2. EntryOK(c, dc, a) /\ Kept(c, a, b)
        BY <1>1, <2>1, <2>3, <3>1 DEF RingOK
      <3>3. EntryOK(c, dc, b) /\ b.token = a.token /\ b.id = a.id
        BY <3>2, KeptOK DEF Kept
      <3> QED  BY <3>1, <3>3
    <2>5. RingOK(c, dc, s)
      BY <1>1, <2>1, <2>3, <2>4 DEF RingOK, Sorted
    <2>6. \A d : d \in Ids(s) <=> d \in Ids(r)
      <3> TAKE d
      <3>1. d \in Ids(s) <=> \E k \in DOMAIN s : s[k].id = d
        BY IdsIs
      <3>2. d \in Ids(r) <=> \E k \in DOMAIN r : r[k].id = d
        BY IdsIs
      <3> QED  BY <2>3, <2>4, <3>1, <3>2
    <2> QED  BY <2>1, <2>2, <2>5, <2>6
  <1>3. RingsOK'
    <2>1. \A c \in Node : c \in Ids(rings'[c][DcOf[c]])
      BY <1>2, AllDcFacts DEF Topo, RingsOK
    <2> QED  BY <1>2, <2>1 DEF RingsOK, Ids, Nodes
  <1>4. FiledOK'
    <2>1. ASSUME NEW c \in Node, NEW d \in Node
          PROVE  IF nodes[c][d] = Nil THEN \A dc \in AllDc : d \notin Ids(rings'[c][dc])
                 ELSE d \in Ids(rings'[c][nodes[c][d]])
      <3>1. nodes[c][d] \in AllDc \cup {Nil}
        BY DEF Topo, FiledOK
      <3>2. CASE nodes[c][d] = Nil
        BY <1>2, <3>2 DEF Topo, FiledOK
      <3>3. CASE nodes[c][d] # Nil
        BY <1>2, <3>1, <3>3 DEF Topo, FiledOK
      <3> QED  BY <3>2, <3>3
    <2> QED  BY <2>1 DEF Topo, FiledOK, Ids, Nodes
  <1>5. RingsGrow
    <2> SUFFICES ASSUME NEW c \in Node, NEW dc \in AllDc, NEW a \in Nodes(rings[c][dc])
                 PROVE  \E b \in Nodes(rings'[c][dc]) : b.id = a.id /\ b.addr = a.addr /\ b.via = a.via
      BY DEF RingsGrow
    <2>1. PICK k \in DOMAIN rings[c][dc] : a = rings[c][dc][k]
      BY DEF Nodes
    <2>2. PICK b : b = rings'[c][dc][k]
      OBVIOUS
    <2>3. Kept(c, a, b) /\ b \in Nodes(rings'[c][dc])
      BY <2>1, <2>2 DEF Nodes
    <2> QED  BY <2>3 DEF Kept
  <1>6. UpReady'
    <2> SUFFICES ASSUME NEW c \in Node, NEW dc \in AllDc, NEW k \in DOMAIN rings'[c][dc],
                        rings'[c][dc][k].status = "UP", rings'[c][dc][k].via # "local"
                 PROVE  conn'[<<c, rings'[c][dc][k].id, rings'[c][dc][k].via>>].ready
      BY DEF UpReady, Nodes
    <2>1. PICK a : a = rings[c][dc][k]
      OBVIOUS
    <2>2. PICK b : b = rings'[c][dc][k]
      OBVIOUS
    <2>3. Kept(c, a, b) /\ (a.status = "UP" \/ conn'[<<c, b.id, b.via>>].ready)
      BY <2>1, <2>2
    <2>4. CASE a.status = "UP"
      <3>1. EntryOK(c, dc, a) /\ a \in Nodes(rings[c][dc]) /\ a.via # "local" /\ a.id = b.id /\ a.via = b.via
        BY <1>1, <2>1, <2>2, <2>3 DEF RingOK, Nodes, Kept
      <3>2. <<c, a.id, a.via>> \in Conn
        BY <2>4, <3>1, InConn DEF EntryOK
      <3>3. conn[<<c, a.id, a.via>>].ready
        BY <2>4, <3>1 DEF Topo, UpReady
      <3> QED  BY <2>2, <3>1, <3>2, <3>3 DEF ReadyGrows
    <2> QED  BY <2>2, <2>3, <2>4
  <1> QED  BY <1>3, <1>4, <1>5, <1>6 DEF Topo

\* An object named in the topology, and a change of it
LEMMA ObjectIs ==
    ASSUME Topo, NEW c \in Node, NEW o \in ObjectName, o.id \in Ids(rings[c][o.ring]),
           NEW a, a = Object(c, o)
    PROVE  /\ a \in Nodes(rings[c][o.ring]) /\ a.id = o.id /\ EntryOK(c, o.ring, a)
           /\ \A e \in Nodes(rings[c][o.ring]) : e.id = o.id => e = a
  <1>1. o.ring \in AllDc
    BY DEF ObjectName
  <1>2. RingOK(c, o.ring, rings[c][o.ring])
    BY <1>1 DEF Topo, RingsOK
  <1>3. a \in Nodes(rings[c][o.ring]) /\ a.id = o.id
    BY DEF Object, Ids
  <1> QED  BY <1>2, <1>3, RingFacts

LEMMA ChangeIs ==
    ASSUME Topo, ReadyGrows, UNCHANGED nodes,
           NEW c \in Node, NEW o \in ObjectName, o.id \in Ids(rings[c][o.ring]),
           NEW a, a = Object(c, o), NEW e, Kept(c, a, e), rings' = Change(c, o, e),
           e.status = "UP" /\ e.via # "local" => a.status = "UP" \/ conn'[<<c, e.id, e.via>>].ready
    PROVE  Topo' /\ RingsGrow
  <1>1. o.ring \in AllDc /\ rings \in [Node -> [AllDc -> Seq(Entry)]]
    BY DEF ObjectName, Topo, RingsOK
  <1>2. PICK r \in Seq(Entry) : r = rings[c][o.ring]
    BY <1>1
  <1>3. PICK s : s = [k \in DOMAIN r |-> IF r[k].id = o.id THEN e ELSE r[k]]
    OBVIOUS
  <1>4. s \in Seq(Entry) /\ DOMAIN s = DOMAIN r
    <2>1. e \in Entry
      BY DEF Kept
    <2>2. \A k \in DOMAIN r : r[k] \in Entry
      BY <1>2
    <2> QED  BY <1>2, <1>3, <2>1, <2>2
  <1>5. /\ rings' = [rings EXCEPT ![c][o.ring] = s]
        /\ rings' \in [Node -> [AllDc -> Seq(Entry)]]
    BY <1>1, <1>2, <1>3, <1>4 DEF Change
  <1>6. \A k \in DOMAIN r : r[k].id = o.id => r[k] = a
    <2>1. \A x \in Nodes(r) : x.id = o.id => x = a
      BY <1>2, ObjectIs
    <2> QED  BY <2>1 DEF Nodes
  <1>7. \A d \in Node, dc \in AllDc : \A k \in DOMAIN rings[d][dc] :
           Kept(d, rings[d][dc][k], rings[d][dc][k])
    BY DEF Topo, RingsOK, RingOK, EntryOK, Kept
  <1>8. ASSUME NEW d \in Node, NEW dc \in AllDc
        PROVE  /\ DOMAIN rings'[d][dc] = DOMAIN rings[d][dc]
               /\ \A k \in DOMAIN rings[d][dc] :
                     /\ Kept(d, rings[d][dc][k], rings'[d][dc][k])
                     /\ (rings'[d][dc][k].status = "UP" /\ rings'[d][dc][k].via # "local") =>
                          \/ rings[d][dc][k].status = "UP"
                          \/ conn'[<<d, rings'[d][dc][k].id, rings'[d][dc][k].via>>].ready
    <2>1. CASE d = c /\ dc = o.ring
      <3>1. rings'[d][dc] = s /\ rings[d][dc] = r
        BY <1>1, <1>2, <1>5, <2>1
      <3>2. ASSUME NEW k \in DOMAIN r
            PROVE  /\ Kept(c, r[k], s[k])
                   /\ (s[k].status = "UP" /\ s[k].via # "local") =>
                        r[k].status = "UP" \/ conn'[<<c, s[k].id, s[k].via>>].ready
        <4>1. CASE r[k].id = o.id
          BY <1>3, <1>6, <4>1
        <4>2. CASE r[k].id # o.id
          BY <1>3, <1>7, <2>1, <3>1, <4>2
        <4> QED  BY <4>1, <4>2
      <3> QED  BY <1>4, <2>1, <3>1, <3>2
    <2>2. CASE ~(d = c /\ dc = o.ring)
      <3>1. rings'[d][dc] = rings[d][dc]
        BY <1>1, <1>5, <2>2
      <3> QED  BY <1>7, <3>1
    <2> QED  BY <2>1, <2>2
  <1> QED  BY <1>5, <1>8, ChangedTopology

LEMMA AddedTopology ==
    ASSUME Topo, ReadyGrows, NEW c \in Node, NEW e, EntryOK(c, e.dcId, e),
           CanAdd(rings[c][e.dcId], e), TopologyAddNode(c, e),
           e.status = "UP" /\ e.via # "local" => conn'[<<c, e.id, e.via>>].ready
    PROVE  Topo' /\ RingsGrow /\ e.id \in Ids(rings'[c][e.dcId])
  <1>1. PICK dc \in AllDc : dc = e.dcId
    BY EntryFacts
  <1>2. rings \in [Node -> [AllDc -> Seq(Entry)]] /\ RingOK(c, dc, rings[c][dc])
    BY DEF Topo, RingsOK
  <1>3. PICK s : s = AddNode(rings[c][dc], e)
    OBVIOUS
  <1>4. RingOK(c, dc, s) /\ Nodes(s) = Nodes(rings[c][dc]) \cup {e} /\ s \in Seq(Entry)
    <2>1. PICK r : r = rings[c][dc]
      OBVIOUS
    <2>2. RingOK(c, dc, r) /\ EntryOK(c, dc, e) /\ CanAdd(r, e) /\ s = AddNode(r, e)
      BY <1>1, <1>2, <1>3, <2>1
    <2>3. RingOK(c, dc, s) /\ Nodes(s) = Nodes(r) \cup {e}
      BY <2>2, AddNodeOK
    <2> QED  BY <2>1, <2>3 DEF RingOK
  <1>5. /\ rings' = [rings EXCEPT ![c][dc] = s] /\ nodes' = [nodes EXCEPT ![c][e.id] = dc]
        /\ rings' \in [Node -> [AllDc -> Seq(Entry)]]
    BY <1>1, <1>2, <1>3, <1>4 DEF TopologyAddNode
  <1>6. rings'[c][dc] = s /\ \A d \in Node, k \in AllDc : ~(d = c /\ k = dc) => rings'[d][k] = rings[d][k]
    BY <1>2, <1>5
  <1>7. Ids(s) = Ids(rings[c][dc]) \cup {e.id}
    BY <1>4 DEF Ids
  <1>8. \A d \in Node, k \in AllDc : /\ RingOK(d, k, rings'[d][k])
                                     /\ Nodes(rings[d][k]) \subseteq Nodes(rings'[d][k])
                                     /\ Ids(rings[d][k]) \subseteq Ids(rings'[d][k])
    BY <1>4, <1>6, <1>7 DEF Topo, RingsOK
  <1>9. RingsOK'
    <2>1. \A d \in Node : d \in Ids(rings'[d][DcOf[d]])
      BY <1>8, AllDcFacts DEF Topo, RingsOK
    <2> QED  BY <1>5, <1>8, <2>1 DEF RingsOK, Ids, Nodes
  <1>10. e.id \in Node
    BY EntryFacts
  <1>11. FiledOK'
    <2>1. nodes' \in [Node -> [Node -> AllDc \cup {Nil}]]
      BY <1>5, <1>10 DEF Topo, FiledOK
    <2>2. ASSUME NEW d \in Node, NEW n \in Node
          PROVE  IF nodes'[d][n] = Nil THEN \A k \in AllDc : n \notin Ids(rings'[d][k])
                 ELSE n \in Ids(rings'[d][nodes'[d][n]])
      <3>1. CASE d = c /\ n = e.id
        <4>1. nodes'[d][n] = dc /\ dc # Nil
          BY <1>5, <1>10, <3>1, AllDcFacts DEF Topo, FiledOK
        <4> QED  BY <1>6, <1>7, <3>1, <4>1
      <3>2. CASE ~(d = c /\ n = e.id)
        <4>1. nodes'[d][n] = nodes[d][n] /\ nodes[d][n] \in AllDc \cup {Nil}
          BY <1>5, <3>2 DEF Topo, FiledOK
        <4>2. CASE nodes[d][n] = Nil
          <5>1. \A k \in AllDc : n \notin Ids(rings[d][k])
            BY <4>2 DEF Topo, FiledOK
          <5> QED  BY <1>6, <1>7, <3>2, <4>1, <4>2, <5>1
        <4>3. CASE nodes[d][n] # Nil
          <5>1. n \in Ids(rings[d][nodes[d][n]])
            BY <4>3 DEF Topo, FiledOK
          <5> QED  BY <1>8, <4>1, <4>3, <5>1
        <4> QED  BY <4>2, <4>3
      <3> QED  BY <3>1, <3>2
    <2> QED  BY <2>1, <2>2 DEF FiledOK, Ids, Nodes
  <1>12. RingsGrow
    BY <1>8 DEF RingsGrow
  <1>13. UpReady'
    <2> SUFFICES ASSUME NEW d \in Node, NEW k \in AllDc, NEW x \in Nodes(rings'[d][k]),
                        x.status = "UP", x.via # "local"
                 PROVE  conn'[<<d, x.id, x.via>>].ready
      BY DEF UpReady, Nodes
    <2>1. x \in Nodes(rings[d][k]) \/ (x = e /\ d = c)
      BY <1>4, <1>6
    <2>2. CASE x \in Nodes(rings[d][k])
      <3>1. conn[<<d, x.id, x.via>>].ready
        BY <2>2 DEF Topo, UpReady
      <3>2. EntryOK(d, k, x)
        BY <2>2, RingFacts DEF Topo, RingsOK
      <3>3. <<d, x.id, x.via>> \in Conn
        BY <3>2, InConn DEF EntryOK
      <3> QED  BY <3>1, <3>3 DEF ReadyGrows
    <2> QED  BY <2>1, <2>2
  <1> QED  BY <1>1, <1>6, <1>7, <1>9, <1>11, <1>12, <1>13 DEF Topo
-----------------------------------------------------------------------------
(* Goroutines and connections that a step does not touch, and the composition *)
(* of what a step does to one of each.                                        *)

LEMMA MainStays ==
    ASSUME Topo, RingsGrow, ReadyGrows, NEW c \in Node, NEW m, MainOK(c, m, rings[c], conn),
           m.todo \in Seq(Node \cup ObjectName)
    PROVE  MainOK(c, m, rings'[c], conn')
  <1>1. ASSUME NEW o, Known(c, o, rings[c])
        PROVE  Known(c, o, rings'[c])
    <2>1. o.ring \in AllDc
      BY <1>1 DEF Known, ObjectName
    <2> QED  BY <1>1, <2>1 DEF Known, Ids, RingsGrow
  <1>2. m.step \in {"greeting", "awaiting"} /\ m.phase # "seeds" => Known(c, Head(m.todo), rings[c])
    <2> SUFFICES ASSUME m.step \in {"greeting", "awaiting"}, m.phase # "seeds"
                 PROVE  Known(c, Head(m.todo), rings[c])
      OBVIOUS
    <2>1. m.todo # <<>> /\ m.phase \in {"locals", "peers"}
      BY DEF MainOK
    <2>2. Head(m.todo) = m.todo[1] /\ 1 \in DOMAIN m.todo
      BY <2>1
    <2> QED  BY <2>1, <2>2 DEF MainOK
  <1>3. ASSUME NEW o, Known(c, o, rings[c]), Dialled(o, rings[c])
        PROVE  Dialled(o, rings'[c])
    <2>1. o.ring \in AllDc
      BY <1>3 DEF Known, ObjectName
    <2> QED  BY <1>3, <2>1 DEF Dialled, RingsGrow
  <1>4. ASSUME NEW o, Known(c, o, rings[c]), InPool(c, o, rings[c], conn)
        PROVE  InPool(c, o, rings'[c], conn')
    <2>1. o.ring \in AllDc /\ o.id # c
      BY <1>4 DEF Known, ObjectName
    <2>2. PICK e \in Nodes(rings[c][o.ring]) : e.id = o.id /\ conn[<<c, e.id, e.via>>].ready
      BY <1>4 DEF InPool
    <2>3. EntryOK(c, o.ring, e)
      BY <2>1, RingFacts DEF Topo, RingsOK
    <2>4. <<c, e.id, e.via>> \in Conn
      BY <2>1, <2>2, <2>3, InConn DEF EntryOK
    <2>5. conn'[<<c, e.id, e.via>>].ready
      BY <2>2, <2>4 DEF ReadyGrows
    <2>6. PICK b \in Nodes(rings'[c][o.ring]) : b.id = e.id /\ b.via = e.via
      BY <2>1 DEF RingsGrow
    <2> QED  BY <2>2, <2>5, <2>6 DEF InPool
  <1>5. m.phase \in {"locals", "peers"} => \A k \in DOMAIN m.todo : Known(c, m.todo[k], rings'[c])
    BY <1>1 DEF MainOK
  <1>6. m.step \in {"greeting", "awaiting"} /\ m.phase # "seeds" => Dialled(Head(m.todo), rings'[c])
    BY <1>2, <1>3 DEF MainOK
  <1>7. m.step = "awaiting" => InPool(c, Head(m.todo), rings'[c], conn')
    BY <1>2, <1>4 DEF MainOK
  <1> QED  BY <1>5, <1>6, <1>7 DEF MainOK

LEMMA ConnStays ==
    ASSUME RingsGrow, NEW k \in Conn, NEW x, ConnOK(k, x, rings[k[2]])
    PROVE  ConnOK(k, x, rings'[k[2]])
  <1>1. k[1] \in Node /\ k[2] \in Node /\ DcOf[k[1]] \in AllDc
    BY AllDcFacts DEF Conn
  <1>2. k[1] \in Ids(rings[k[2]][DcOf[k[1]]]) => k[1] \in Ids(rings'[k[2]][DcOf[k[1]]])
    BY <1>1 DEF Ids, RingsGrow
  <1> QED  BY <1>2 DEF ConnOK

\* A step may have the goroutine of c go on to m, and connections change
Goes(c, m) == main' = [main EXCEPT ![c] = m] /\ m \in MainType

LEMMA StepOK ==
    ASSUME IInv, Topo', RingsGrow, ReadyGrows,
           status' \in [Node -> {"INITIALIZING", "NORMAL"}], listening' \in [Node -> BOOLEAN],
           \/ UNCHANGED main
           \/ \E c \in Node, m \in MainType : Goes(c, m) /\ MainOK(c, m, rings'[c], conn'),
           conn' \in [Conn -> ConnType],
           \A k \in Conn : conn'[k] = conn[k] \/ ConnOK(k, conn'[k], rings'[k[2]])
    PROVE  IInv' /\ RingsGrow
  <1>1. Topo /\ Shape
    BY DEF IInv, Topo
  <1>2. \A c \in Node : MainOK(c, main[c], rings'[c], conn')
    <2> TAKE c \in Node
    <2>1. MainOK(c, main[c], rings[c], conn) /\ main[c].todo \in Seq(Node \cup ObjectName)
      BY <1>1 DEF IInv, Shape, MainType
    <2> QED  BY <1>1, <2>1, MainStays
  <1>3. main' \in [Node -> MainType] /\ \A c \in Node : MainOK(c, main'[c], rings'[c], conn')
    <2>1. main \in [Node -> MainType]
      BY <1>1 DEF Shape
    <2>2. CASE UNCHANGED main
      BY <1>2, <2>1, <2>2
    <2>3. ASSUME NEW c \in Node, NEW m \in MainType, Goes(c, m), MainOK(c, m, rings'[c], conn')
          PROVE  main' \in [Node -> MainType] /\ \A d \in Node : MainOK(d, main'[d], rings'[d], conn')
      <3>1. main' \in [Node -> MainType] /\ main'[c] = m /\ \A d \in Node \ {c} : main'[d] = main[d]
        BY <2>1, <2>3 DEF Goes
      <3> QED  BY <1>2, <2>3, <3>1
    <2> QED  BY <2>2, <2>3
  <1>4. \A k \in Conn : ConnOK(k, conn'[k], rings'[k[2]])
    BY ConnStays DEF IInv
  <1> QED  BY <1>3, <1>4 DEF IInv, Topo, Shape

\* The object the goroutine of c works on
Works(c, o, a) ==
    /\ o = Current(c) /\ o \in ObjectName /\ o.id \in Ids(rings[c][o.ring])
    /\ ~IsSeed(c) /\ a = CurrentNode(c) /\ a = Object(c, o)
    /\ a \in Nodes(rings[c][o.ring]) /\ EntryOK(c, o.ring, a)
    /\ a.id = o.id /\ a.id # c /\ a.via # "local" /\ <<c, a.id, a.via>> \in Conn
    /\ a.addr # Nil => CurrentConn(c) = <<c, a.id, a.via>> /\ a.addr = a.id
    /\ main[c].step \in {"greeting", "awaiting"} => a.addr # Nil
    /\ main[c].step = "awaiting" => conn[<<c, a.id, a.via>>].ready
    /\ Known(c, o, rings[c]) /\ o = Head(main[c].todo)

LEMMA WorksOn ==
    ASSUME IInv, NEW c \in Node, main[c].phase \in {"locals", "peers"}, main[c].todo # <<>>
    PROVE  \E o, a : Works(c, o, a)
  <1>1. Topo /\ MainOK(c, main[c], rings[c], conn) /\ main[c].todo \in Seq(Node \cup ObjectName)
    BY DEF IInv, Topo, Shape, MainType
  <1>2. PICK o : o = Current(c)
    OBVIOUS
  <1>3. o = main[c].todo[1] /\ 1 \in DOMAIN main[c].todo /\ o = Head(main[c].todo)
    BY <1>1, <1>2 DEF Current
  <1>4. Known(c, o, rings[c])
    BY <1>1, <1>3 DEF MainOK
  <1>5. PICK a : a = Object(c, o)
    OBVIOUS
  <1>6. /\ a \in Nodes(rings[c][o.ring]) /\ a.id = o.id /\ EntryOK(c, o.ring, a)
        /\ \A e \in Nodes(rings[c][o.ring]) : e.id = o.id => e = a
    BY <1>1, <1>4, <1>5, ObjectIs DEF Known
  <1>7. a.id # c /\ a.via # "local" /\ a.addr \in {a.id, Nil} /\ o.ring \in AllDc
    BY <1>4, <1>6 DEF Known, EntryOK, ObjectName
  <1>8. <<c, a.id, a.via>> \in Conn
    BY <1>6, <1>7, InConn
  <1>9. ~IsSeed(c) /\ a = CurrentNode(c) /\ CurrentConn(c) = <<c, a.addr, a.via>>
    BY <1>2, <1>5 DEF IsSeed, CurrentNode, CurrentConn
  <1>10. main[c].step \in {"greeting", "awaiting"} => a.addr # Nil
    <2>1. main[c].step \in {"greeting", "awaiting"} => Dialled(o, rings[c])
      BY <1>1, <1>3 DEF MainOK
    <2> QED  BY <1>6, <2>1 DEF Dialled
  <1>11. main[c].step = "awaiting" => conn[<<c, a.id, a.via>>].ready
    <2>1. main[c].step = "awaiting" => InPool(c, o, rings[c], conn)
      BY <1>1, <1>3 DEF MainOK
    <2> QED  BY <1>6, <2>1 DEF InPool
  <1>12. o \in ObjectName /\ o.id \in Ids(rings[c][o.ring])
    BY <1>4 DEF Known
  <1> QED  BY <1>2, <1>3, <1>4, <1>5, <1>6, <1>7, <1>8, <1>9, <1>10, <1>11, <1>12 DEF Works

LEMMA WorksOnSeed ==
    ASSUME IInv, NEW c \in Node, main[c].phase = "seeds", main[c].todo # <<>>
    PROVE  /\ Current(c) \in Node \ {c} /\ IsSeed(c) /\ CurrentNode(c) = SeedNode(Current(c))
           /\ CurrentConn(c) = <<c, Current(c), "seed">> /\ CurrentConn(c) \in Conn
  <1>1. MainOK(c, main[c], rings[c], conn) /\ main[c].todo \in Seq(Node \cup ObjectName)
    BY DEF IInv, Shape, MainType
  <1>2. Current(c) = main[c].todo[1] /\ 1 \in DOMAIN main[c].todo
    BY <1>1 DEF Current
  <1>3. Current(c) \in Node \ {c} /\ IsSeed(c)
    BY <1>1, <1>2 DEF MainOK, IsSeed
  <1>4. CurrentNode(c) = SeedNode(Current(c)) /\ CurrentConn(c) = <<c, Current(c), "seed">>
    BY <1>3 DEF CurrentNode, CurrentConn, SeedNode
  <1> QED  BY <1>3, <1>4, AllDcFacts DEF Conn

\* The loops go on, or Start ends
LEMMA SkipOK ==
    ASSUME IInv, NEW c \in Node, main[c].todo # <<>>, Skip(c), RingsGrow, ReadyGrows
    PROVE  \E m \in MainType : Goes(c, m) /\ MainOK(c, m, rings'[c], conn')
  <1>1. /\ Topo /\ main[c] \in MainType /\ MainOK(c, main[c], rings[c], conn)
        /\ main[c].todo \in Seq(Node \cup ObjectName)
    BY DEF IInv, Topo, Shape, MainType
  <1>2. PICK t : t = Tail(main[c].todo)
    OBVIOUS
  <1>3. /\ t \in Seq(Node \cup ObjectName)
        /\ \A k \in DOMAIN t : k + 1 \in DOMAIN main[c].todo /\ t[k] = main[c].todo[k + 1]
    BY <1>1, <1>2
  <1>4. PICK m : m = [phase |-> main[c].phase, step |-> "next", todo |-> t, reply |-> <<>>]
    OBVIOUS
  <1>5. m \in MainType
    BY <1>1, <1>3, <1>4 DEF MainType
  <1>6. Goes(c, m)
    BY <1>2, <1>4, <1>5 DEF Skip, Goto, Goes
  <1>7. MainOK(c, m, rings[c], conn)
    BY <1>1, <1>3, <1>4 DEF MainOK
  <1>8. m.todo \in Seq(Node \cup ObjectName)
    BY <1>3, <1>4
  <1> QED  BY <1>1, <1>5, <1>6, <1>7, <1>8, MainStays

LEMMA FailsOK ==
    ASSUME NEW c \in Node, StartFails(c)
    PROVE  \E m \in MainType : Goes(c, m) /\ MainOK(c, m, rings'[c], conn')
  <1>1. PICK m : m = [phase |-> "failed", step |-> "next", todo |-> <<>>, reply |-> <<>>]
    OBVIOUS
  <1>2. m \in MainType
    BY <1>1 DEF MainType
  <1>3. MainOK(c, m, rings'[c], conn')
    BY <1>1 DEF MainOK
  <1> QED  BY <1>1, <1>2, <1>3 DEF StartFails, Goto, Goes
-----------------------------------------------------------------------------
(* One lemma for each action of Start. *)

LEMMA Facts ==
    ASSUME IInv
    PROVE  /\ Topo /\ Shape
           /\ status \in [Node -> {"INITIALIZING", "NORMAL"}] /\ listening \in [Node -> BOOLEAN]
           /\ main \in [Node -> MainType] /\ conn \in [Conn -> ConnType]
           /\ \A c \in Node : /\ MainOK(c, main[c], rings[c], conn) /\ main[c] \in MainType
                              /\ main[c].todo \in Seq(Node \cup ObjectName)
                              /\ main[c].reply \in Seq(PeerData)
           /\ \A k \in Conn : ConnOK(k, conn[k], rings[k[2]]) /\ conn[k] \in ConnType
           /\ \A c \in Node, dc \in AllDc : RingOK(c, dc, rings[c][dc])
  BY DEF IInv, Topo, Shape, RingsOK, MainType

LEMMA SameConn ==
    ASSUME UNCHANGED conn
    PROVE  ReadyGrows
  BY DEF ReadyGrows

LEMMA SetConn ==
    ASSUME IInv, NEW k \in Conn, NEW x \in ConnType, conn' = [conn EXCEPT ![k] = x],
           conn[k].ready => x.ready
    PROVE  /\ ReadyGrows /\ conn' \in [Conn -> ConnType] /\ conn'[k] = x
           /\ \A j \in Conn \ {k} : conn'[j] = conn[j]
  BY Facts DEF ReadyGrows

LEMMA StartInv ==
    ASSUME IInv, NEW c \in Node, Start(c)
    PROVE  IInv' /\ RingsGrow
  <1>1. /\ listening' \in [Node -> BOOLEAN]
        /\ UNCHANGED <<status, rings, nodes, main, conn>>
    BY Facts DEF Start, topology
  <1>2. ReadyGrows
    BY <1>1, SameConn
  <1>3. Topo' /\ RingsGrow
    BY <1>1, <1>2, SameTopology, Facts
  <1> QED  BY <1>1, <1>2, <1>3, StepOK, Facts

LEMMA PassSeedInv ==
    ASSUME IInv, NEW c \in Node, PassSeed(c)
    PROVE  IInv' /\ RingsGrow
  <1>1. Skip(c) /\ main[c].todo # <<>> /\ UNCHANGED <<status, listening, rings, nodes, conn>>
    BY DEF PassSeed, topology
  <1>2. ReadyGrows
    BY <1>1, SameConn
  <1>3. Topo' /\ RingsGrow
    BY <1>1, <1>2, SameTopology, Facts
  <1>4. \E m \in MainType : Goes(c, m) /\ MainOK(c, m, rings'[c], conn')
    BY <1>1, <1>2, <1>3, SkipOK
  <1> QED  BY <1>1, <1>2, <1>3, <1>4, StepOK, Facts

\* A connection is opened
LEMMA DialOK ==
    ASSUME NEW k \in Conn, NEW x \in ConnType, ConnOK(k, x, rings[k[2]]), ~x.ready,
           NEW y, y = [x EXCEPT !.server = "opening"]
    PROVE  y \in ConnType /\ ~y.ready /\ \A R : ConnOK(k, y, R)
  BY DEF ConnType, ConnOK

LEMMA ConnectInv ==
    ASSUME IInv, NEW c \in Node, Connect(c)
    PROVE  IInv' /\ RingsGrow
  <1>1. /\ main[c].step = "next" /\ main[c].todo # <<>>
        /\ CurrentNode(c).addr # Nil /\ ~conn[CurrentConn(c)].ready
        /\ conn' = Dial(conn, CurrentConn(c))
        /\ Goto(c, main[c].phase, "greeting", main[c].todo, <<>>)
        /\ UNCHANGED <<status, listening, rings, nodes>>
    BY DEF Connect, Wanted, CanDial, topology
  <1>2. MainOK(c, main[c], rings[c], conn) /\ main[c].phase \in {"locals", "seeds", "peers"}
    BY <1>1, Facts DEF MainOK
  <1>3. PICK k : k = CurrentConn(c)
    OBVIOUS
  <1>4. k \in Conn /\ (main[c].phase # "seeds" => Dialled(Head(main[c].todo), rings[c]))
    <2>1. CASE main[c].phase = "seeds"
      BY <1>1, <1>3, <2>1, WorksOnSeed
    <2>2. CASE main[c].phase # "seeds"
      <3>1. PICK o, a : Works(c, o, a)
        BY <1>1, <1>2, <2>2, WorksOn
      <3> QED  BY <1>1, <1>3, <3>1 DEF Works, Dialled
    <2> QED  BY <2>1, <2>2
  <1>5. PICK x : x = [conn[k] EXCEPT !.server = "opening"]
    OBVIOUS
  <1>6. x \in ConnType /\ ~x.ready /\ ConnOK(k, x, rings'[k[2]])
    BY <1>1, <1>3, <1>4, <1>5, DialOK, Facts
  <1>7. conn' = [conn EXCEPT ![k] = x]
    BY <1>1, <1>3, <1>5 DEF Dial
  <1>8. /\ ReadyGrows /\ conn' \in [Conn -> ConnType] /\ conn'[k] = x
        /\ \A j \in Conn \ {k} : conn'[j] = conn[j]
    BY <1>1, <1>3, <1>4, <1>6, <1>7, SetConn
  <1>9. Topo' /\ RingsGrow
    BY <1>1, <1>8, SameTopology, Facts
  <1>10. PICK m : m = [phase |-> main[c].phase, step |-> "greeting", todo |-> main[c].todo, reply |-> <<>>]
    OBVIOUS
  <1>11. m \in MainType /\ m.todo \in Seq(Node \cup ObjectName)
    BY <1>2, <1>10, Facts DEF MainType
  <1>12. MainOK(c, m, rings[c], conn)
    BY <1>1, <1>2, <1>4, <1>10 DEF MainOK
  <1>13. MainOK(c, m, rings'[c], conn')
    BY <1>8, <1>9, <1>11, <1>12, MainStays, Facts
  <1>14. Goes(c, m)
    BY <1>1, <1>10, <1>11 DEF Goto, Goes
  <1>15. \A j \in Conn : conn'[j] = conn[j] \/ ConnOK(j, conn'[j], rings'[j[2]])
    BY <1>6, <1>8
  <1>16. status' \in [Node -> {"INITIALIZING", "NORMAL"}] /\ listening' \in [Node -> BOOLEAN]
    BY <1>1, Facts
  <1> QED  BY <1>8, <1>9, <1>11, <1>13, <1>14, <1>15, <1>16, StepOK

\* The objects that getConnection and SendMessage change
LEMMA KeptFacts ==
    ASSUME NEW c, NEW dc, NEW a, EntryOK(c, dc, a)
    PROVE  /\ Kept(c, a, [a EXCEPT !.status = "DOWN"])
           /\ [a EXCEPT !.status = "DOWN"].status = "DOWN"
           /\ Kept(c, a, [a EXCEPT !.started = TRUE]) /\ [a EXCEPT !.started = TRUE].status = a.status
           /\ Kept(c, a, [a EXCEPT !.started = FALSE]) /\ [a EXCEPT !.started = FALSE].status = a.status
           /\ a.id # c => Kept(c, a, [a EXCEPT !.status = "UP"])
           /\ Kept(c, a, Greeted(a, a.id)) /\ Greeted(a, a.id).status = a.status
           /\ a.id # c => Kept(c, a, Started(Greeted(a, a.id)))
  <1>1. a \in Entry /\ a.id \in Node /\ a.token = TokenOf[a.id] /\ NoDc \in AllDc
    BY EntryFacts, AllDcFacts DEF EntryOK
  <1>2. PICK b : b = Greeted(a, a.id)
    OBVIOUS
  <1>3. b \in Entry /\ b.id = a.id /\ b.token = a.token /\ b.addr = a.addr /\ b.via = a.via
        /\ b.dcId \in {a.dcId, NoDc} /\ b.status = a.status
    BY <1>1, <1>2 DEF Greeted, Entry
  <1>4. Kept(c, a, b)
    BY <1>3 DEF Kept, EntryOK
  <1>5. a.id # c => Kept(c, a, Started(b))
    BY <1>3 DEF Kept, Started, Entry
  <1>6. Kept(c, a, [a EXCEPT !.status = "DOWN"]) /\ [a EXCEPT !.status = "DOWN"].status = "DOWN"
        /\ (a.id # c => Kept(c, a, [a EXCEPT !.status = "UP"]))
    BY <1>1 DEF Kept, Entry
  <1>7. /\ Kept(c, a, [a EXCEPT !.started = TRUE]) /\ [a EXCEPT !.started = TRUE].status = a.status
        /\ Kept(c, a, [a EXCEPT !.started = FALSE]) /\ [a EXCEPT !.started = FALSE].status = a.status
    BY <1>1 DEF Kept, Entry, EntryOK
  <1> QED  BY <1>2, <1>3, <1>4, <1>5, <1>6, <1>7

LEMMA ConnectFailsInv ==
    ASSUME IInv, NEW c \in Node, ConnectFails(c)
    PROVE  IInv' /\ RingsGrow
  <1>1. /\ main[c].step \in {"next", "greeting"} /\ main[c].todo # <<>>
        /\ UNCHANGED <<status, listening, nodes, conn>>
    BY Facts DEF ConnectFails, Wanted, MainOK
  <1>2. ReadyGrows
    BY <1>1, SameConn
  <1>3. Topo' /\ RingsGrow
    <2>1. CASE rings' = rings
      BY <1>1, <1>2, <2>1, SameTopology, Facts
    <2>2. CASE rings' # rings
      <3>1. ~IsSeed(c) /\ rings' = Change(c, Current(c), [CurrentNode(c) EXCEPT !.status = "DOWN"])
        BY <2>2 DEF ConnectFails
      <3>2. main[c].phase \in {"locals", "peers"}
        BY <1>1, <3>1, Facts DEF MainOK, IsSeed
      <3>3. PICK o, a : Works(c, o, a)
        BY <1>1, <3>2, WorksOn
      <3>4. PICK e : e = [a EXCEPT !.status = "DOWN"]
        OBVIOUS
      <3>5. Kept(c, a, e) /\ e.status = "DOWN"
        BY <3>3, <3>4, KeptFacts DEF Works
      <3>6. o \in ObjectName /\ o.id \in Ids(rings[c][o.ring]) /\ a = Object(c, o)
            /\ rings' = Change(c, o, e)
        BY <3>1, <3>3, <3>4 DEF Works
      <3> QED  BY <1>1, <1>2, <3>5, <3>6, ChangeIs, Facts
    <2> QED  BY <2>1, <2>2
  <1>4. \E m \in MainType : Goes(c, m) /\ MainOK(c, m, rings'[c], conn')
    <2>1. CASE Skip(c)
      BY <1>1, <1>2, <1>3, <2>1, SkipOK
    <2>2. CASE StartFails(c)
      BY <2>2, FailsOK
    <2> QED  BY <2>1, <2>2 DEF ConnectFails
  <1> QED  BY <1>1, <1>2, <1>3, <1>4, StepOK, Facts

\* The greeting was answered: the connection is in the pool
LEMMA PooledOK ==
    ASSUME NEW k \in Conn, NEW x \in ConnType, ConnOK(k, x, rings[k[2]]), RingsGrow,
           x.server \in {"registering", "added", "starting", "serving"},
           NEW y, y = [x EXCEPT !.ready = TRUE]
    PROVE  y \in ConnType /\ y.ready /\ ConnOK(k, y, rings'[k[2]])
  <1>1. y \in ConnType /\ y.ready /\ y.server = x.server /\ y.reply = x.reply
    BY DEF ConnType
  <1>2. ConnOK(k, y, rings[k[2]])
    BY <1>1 DEF ConnOK
  <1> QED  BY <1>1, <1>2, ConnStays

LEMMA StartedLocalInv ==
    ASSUME IInv, NEW c \in Node, StartedLocal(c)
    PROVE  IInv' /\ RingsGrow
  <1>1. /\ main[c].phase = "locals" /\ main[c].step = "greeting" /\ main[c].todo # <<>>
        /\ Accepted(CurrentConn(c)) /\ Skip(c)
        /\ rings' = Change(c, Current(c), Started(Greeted(CurrentNode(c), CurrentConn(c)[2])))
        /\ conn' = [conn EXCEPT ![CurrentConn(c)].ready = TRUE]
        /\ UNCHANGED <<status, listening, nodes>>
    BY Facts DEF StartedLocal, At, MainOK
  <1>2. PICK o, a : Works(c, o, a)
    BY <1>1, WorksOn
  <1>3. PICK k \in Conn : k = CurrentConn(c) /\ k = <<c, a.id, a.via>> /\ k[2] = a.id
    BY <1>1, <1>2 DEF Works
  <1>4. PICK x : x = [conn[k] EXCEPT !.ready = TRUE]
    OBVIOUS
  <1>5. conn[k].server \in {"registering", "added", "starting", "serving"}
    BY <1>1, <1>3 DEF Accepted
  <1>6. x \in ConnType /\ x.ready
    BY <1>4, Facts DEF ConnType
  <1>7. /\ ReadyGrows /\ conn' \in [Conn -> ConnType] /\ conn'[k] = x
        /\ \A j \in Conn \ {k} : conn'[j] = conn[j]
    BY <1>1, <1>3, <1>4, <1>6, SetConn
  <1>8. PICK e : e = Started(Greeted(a, a.id))
    OBVIOUS
  <1>9. Kept(c, a, e) /\ conn'[<<c, e.id, e.via>>].ready
    <2>1. Kept(c, a, e)
      BY <1>2, <1>8, KeptFacts DEF Works
    <2> QED  BY <1>3, <1>6, <1>7, <2>1 DEF Kept
  <1>10. Topo' /\ RingsGrow
    <2>1. o \in ObjectName /\ o.id \in Ids(rings[c][o.ring]) /\ a = Object(c, o)
          /\ rings' = Change(c, o, e)
      BY <1>1, <1>2, <1>3, <1>8 DEF Works
    <2> QED  BY <1>1, <1>7, <1>9, <2>1, ChangeIs, Facts
  <1>11. ConnOK(k, x, rings'[k[2]])
    BY <1>4, <1>5, <1>10, PooledOK, Facts
  <1>12. \E m \in MainType : Goes(c, m) /\ MainOK(c, m, rings'[c], conn')
    BY <1>1, <1>7, <1>10, SkipOK
  <1>13. \A j \in Conn : conn'[j] = conn[j] \/ ConnOK(j, conn'[j], rings'[j[2]])
    BY <1>7, <1>11
  <1>14. status' \in [Node -> {"INITIALIZING", "NORMAL"}] /\ listening' \in [Node -> BOOLEAN]
    BY <1>1, Facts
  <1> QED  BY <1>7, <1>10, <1>12, <1>13, <1>14, StepOK

\* The object of a seed that was greeted
LEMMA SeedOK ==
    ASSUME NEW c \in Node, NEW d \in Node \ {c}, NEW e, e = Started(Greeted(SeedNode(d), d))
    PROVE  e.id = d /\ e.dcId = NoDc /\ e.via = "seed" /\ EntryOK(c, NoDc, e)
  <1>1. e = [id |-> d, dcId |-> NoDc, token |-> TokenOf[d], addr |-> d,
             status |-> "UP", started |-> TRUE, via |-> "seed"]
    BY DEF Started, Greeted, SeedNode
  <1>2. e \in Entry
    BY <1>1, AllDcFacts, MembershipAssumption DEF Entry
  <1> QED  BY <1>1, <1>2, AllDcFacts DEF EntryOK

LEMMA AddSeedInv ==
    ASSUME IInv, NEW c \in Node, AddSeed(c)
    PROVE  IInv' /\ RingsGrow
  <1>1. main[c].phase = "seeds" /\ main[c].step = "greeting" /\ main[c].todo # <<>>
    BY Facts DEF AddSeed, At, MainOK
  <1>2. PICK d \in Node \ {c} : d = Current(c) /\ CurrentNode(c) = SeedNode(d)
    BY <1>1, WorksOnSeed
  <1>3. PICK k \in Conn : k = CurrentConn(c) /\ k = <<c, d, "seed">> /\ k[2] = d
    BY <1>1, <1>2, WorksOnSeed
  <1>4. PICK e : e = Started(Greeted(SeedNode(d), d))
    OBVIOUS
  <1>5. e.id = d /\ e.dcId = NoDc /\ e.via = "seed" /\ EntryOK(c, e.dcId, e)
    BY <1>4, SeedOK
  <1>6. /\ Accepted(k) /\ Skip(c)
        /\ IF CanAdd(rings[c][e.dcId], e) THEN TopologyAddNode(c, e) ELSE UNCHANGED topology
        /\ conn' = [conn EXCEPT ![k].ready = TRUE]
        /\ UNCHANGED <<status, listening>>
    BY <1>2, <1>3, <1>4 DEF AddSeed
  <1>7. PICK x : x = [conn[k] EXCEPT !.ready = TRUE]
    OBVIOUS
  <1>8. conn[k].server \in {"registering", "added", "starting", "serving"}
    BY <1>6 DEF Accepted
  <1>9. x \in ConnType /\ x.ready
    BY <1>7, Facts DEF ConnType
  <1>10. /\ ReadyGrows /\ conn' \in [Conn -> ConnType] /\ conn'[k] = x
         /\ \A j \in Conn \ {k} : conn'[j] = conn[j]
    BY <1>6, <1>7, <1>9, SetConn
  <1>11. Topo' /\ RingsGrow
    <2>1. CASE CanAdd(rings[c][e.dcId], e)
      <3>1. conn'[<<c, e.id, e.via>>].ready
        BY <1>3, <1>5, <1>9, <1>10
      <3> QED  BY <1>5, <1>6, <1>10, <2>1, <3>1, AddedTopology, Facts
    <2>2. CASE ~CanAdd(rings[c][e.dcId], e)
      BY <1>6, <1>10, <2>2, SameTopology, Facts DEF topology
    <2> QED  BY <2>1, <2>2
  <1>12. ConnOK(k, x, rings'[k[2]])
    BY <1>7, <1>8, <1>11, PooledOK, Facts
  <1>13. \E m \in MainType : Goes(c, m) /\ MainOK(c, m, rings'[c], conn')
    BY <1>1, <1>6, <1>10, <1>11, SkipOK
  <1>14. \A j \in Conn : conn'[j] = conn[j] \/ ConnOK(j, conn'[j], rings'[j[2]])
    BY <1>10, <1>12
  <1>15. status' \in [Node -> {"INITIALIZING", "NORMAL"}] /\ listening' \in [Node -> BOOLEAN]
    BY <1>6, Facts
  <1> QED  BY <1>10, <1>11, <1>13, <1>14, <1>15, StepOK

LEMMA AskPeerInv ==
    ASSUME IInv, NEW c \in Node, AskPeer(c)
    PROVE  IInv' /\ RingsGrow
  <1>1. main[c].phase = "peers" /\ main[c].todo # <<>>
    BY Facts DEF AskPeer, At, Wanted, MainOK
  <1>2. PICK o, a : Works(c, o, a)
    BY <1>1, WorksOn
  <1>3. a.addr # Nil
    BY <1>2 DEF AskPeer, At, Works
  <1>4. PICK k \in Conn : k = CurrentConn(c) /\ k = <<c, a.id, a.via>> /\ k[2] = a.id
    BY <1>2, <1>3 DEF Works
  <1>5. conn[k].server \in {"registering", "added", "starting", "serving"}
    <2>1. ConnOK(k, conn[k], rings[k[2]])
      BY Facts
    <2> QED  BY <1>4, <2>1 DEF AskPeer, Accepted, ConnOK
  <1>6. PICK y : y = [conn[k] EXCEPT !.ready = TRUE]
    OBVIOUS
  <1>7. PICK x : x = [y EXCEPT !.request = TRUE]
    OBVIOUS
  <1>8. y \in ConnType /\ y.ready /\ x \in ConnType /\ x.ready /\ x.server = y.server /\ x.reply = y.reply
    BY <1>6, <1>7, Facts DEF ConnType
  <1>9. conn' = [conn EXCEPT ![k] = x]
    <2>1. conn' = [conn EXCEPT ![k].ready = TRUE, ![k].request = TRUE]
      BY <1>4 DEF AskPeer
    <2> QED  BY <1>6, <1>7, <2>1, Facts
  <1>10. /\ ReadyGrows /\ conn' \in [Conn -> ConnType] /\ conn'[k] = x
         /\ \A j \in Conn \ {k} : conn'[j] = conn[j]
    BY <1>8, <1>9, SetConn
  <1>11. UNCHANGED <<status, listening, nodes>> /\ Goto(c, "peers", "awaiting", main[c].todo, <<>>)
    BY DEF AskPeer
  <1>12. Topo' /\ RingsGrow
    <2>1. CASE rings' = rings
      BY <1>10, <1>11, <2>1, SameTopology, Facts
    <2>2. CASE rings' # rings
      <3>1. PICK e : e = Greeted(a, a.id)
        OBVIOUS
      <3>2. Kept(c, a, e) /\ e.status = a.status
        BY <1>2, <3>1, KeptFacts DEF Works
      <3>3. o \in ObjectName /\ o.id \in Ids(rings[c][o.ring]) /\ a = Object(c, o)
            /\ rings' = Change(c, o, e)
        BY <1>2, <1>4, <2>2, <3>1 DEF AskPeer, Works
      <3> QED  BY <1>10, <1>11, <3>2, <3>3, ChangeIs, Facts
    <2> QED  BY <2>1, <2>2
  <1>13. ConnOK(k, x, rings'[k[2]])
    <2>1. ConnOK(k, y, rings'[k[2]])
      BY <1>5, <1>6, <1>12, PooledOK, Facts
    <2> QED  BY <1>8, <2>1 DEF ConnOK
  <1>14. PICK m : m = [phase |-> "peers", step |-> "awaiting", todo |-> main[c].todo, reply |-> <<>>]
    OBVIOUS
  <1>15. m \in MainType /\ Goes(c, m)
    BY <1>11, <1>14, Facts DEF MainType, Goto, Goes
  <1>16. MainOK(c, m, rings'[c], conn')
    <2>1. o.ring \in AllDc /\ a \in Nodes(rings[c][o.ring]) /\ a.id = o.id /\ o = Head(main[c].todo)
      BY <1>2 DEF Works, ObjectName
    <2>2. PICK b \in Nodes(rings'[c][o.ring]) : b.id = a.id /\ b.addr = a.addr /\ b.via = a.via
      BY <1>12, <2>1 DEF RingsGrow
    <2>3. Dialled(Head(m.todo), rings'[c])
      BY <1>3, <1>14, <2>1, <2>2 DEF Dialled
    <2>4. InPool(c, Head(m.todo), rings'[c], conn')
      BY <1>4, <1>8, <1>10, <1>14, <2>1, <2>2 DEF InPool
    <2>5. MainOK(c, main[c], rings'[c], conn')
      BY <1>10, <1>12, MainStays, Facts
    <2> QED  BY <1>1, <1>14, <2>3, <2>4, <2>5 DEF MainOK
  <1>17. \A j \in Conn : conn'[j] = conn[j] \/ ConnOK(j, conn'[j], rings'[j[2]])
    BY <1>10, <1>13
  <1>18. status' \in [Node -> {"INITIALIZING", "NORMAL"}] /\ listening' \in [Node -> BOOLEAN]
    BY <1>11, Facts
  <1> QED  BY <1>10, <1>12, <1>15, <1>16, <1>17, <1>18, StepOK

LEMMA ReadReplyInv ==
    ASSUME IInv, NEW c \in Node, ReadReply(c)
    PROVE  IInv' /\ RingsGrow
  <1>1. main[c].step = "awaiting" /\ main[c].phase = "peers" /\ main[c].todo # <<>>
    BY Facts DEF ReadReply, MainOK
  <1>2. PICK o, a : Works(c, o, a)
    BY <1>1, WorksOn
  <1>3. PICK k \in Conn : k = CurrentConn(c) /\ k = <<c, a.id, a.via>> /\ conn[k].ready
    BY <1>1, <1>2 DEF Works
  <1>4. /\ conn[k].reply # Nil
        /\ Goto(c, "peers", "adding", main[c].todo, conn[k].reply)
        /\ conn' = [conn EXCEPT ![k].reply = Nil]
        /\ rings' = Change(c, o, [a EXCEPT !.status = "UP"])
        /\ UNCHANGED <<status, listening, nodes>>
    BY <1>2, <1>3 DEF ReadReply, Works
  <1>5. ConnOK(k, conn[k], rings[k[2]]) /\ conn[k] \in ConnType
    BY Facts
  <1>6. PICK x : x = [conn[k] EXCEPT !.reply = Nil]
    OBVIOUS
  <1>7. x \in ConnType /\ x.ready /\ ConnOK(k, x, rings[k[2]])
    BY <1>3, <1>5, <1>6 DEF ConnType, ConnOK
  <1>8. /\ ReadyGrows /\ conn' \in [Conn -> ConnType] /\ conn'[k] = x
        /\ \A j \in Conn \ {k} : conn'[j] = conn[j]
    BY <1>4, <1>6, <1>7, SetConn
  <1>9. Topo' /\ RingsGrow
    <2>1. PICK e : e = [a EXCEPT !.status = "UP"]
      OBVIOUS
    <2>2. Kept(c, a, e)
      BY <1>2, <2>1, KeptFacts DEF Works
    <2>3. conn'[<<c, e.id, e.via>>].ready
      BY <1>3, <1>7, <1>8, <2>2 DEF Kept
    <2>4. o \in ObjectName /\ o.id \in Ids(rings[c][o.ring]) /\ a = Object(c, o)
          /\ rings' = Change(c, o, e)
      BY <1>2, <1>4, <2>1 DEF Works
    <2> QED  BY <1>4, <1>8, <2>2, <2>3, <2>4, ChangeIs, Facts
  <1>10. ConnOK(k, x, rings'[k[2]])
    BY <1>7, <1>9, ConnStays
  <1>11. PICK m : m = [phase |-> "peers", step |-> "adding", todo |-> main[c].todo, reply |-> conn[k].reply]
    OBVIOUS
  <1>12. conn[k].reply \in Seq(PeerData) /\ conn[k].reply # <<>>
         /\ \A i \in DOMAIN conn[k].reply : PeerOK(conn[k].reply[i])
    BY <1>4, <1>5 DEF ConnType, ConnOK
  <1>13. m \in MainType /\ Goes(c, m)
    BY <1>4, <1>11, <1>12, Facts DEF MainType, Goto, Goes
  <1>14. MainOK(c, m, rings'[c], conn')
    <2>1. MainOK(c, main[c], rings'[c], conn')
      BY <1>8, <1>9, MainStays, Facts
    <2> QED  BY <1>1, <1>11, <1>12, <2>1 DEF MainOK
  <1>15. \A j \in Conn : conn'[j] = conn[j] \/ ConnOK(j, conn'[j], rings'[j[2]])
    BY <1>8, <1>10
  <1>16. status' \in [Node -> {"INITIALIZING", "NORMAL"}] /\ listening' \in [Node -> BOOLEAN]
    BY <1>4, Facts
  <1> QED  BY <1>8, <1>9, <1>13, <1>14, <1>15, <1>16, StepOK

\* The object of a node that was heard of
LEMMA HeardOK ==
    ASSUME NEW c \in Node, NEW p, PeerOK(p), ~(p.id = c /\ p.dcId = DcOf[c]),
           NEW e, e = NewRemoteNodeInfo(p, p.dcId)
    PROVE  e.id = p.id /\ e.dcId = p.dcId /\ e.status = "INITIALIZING" /\ EntryOK(c, e.dcId, e)
  <1>1. /\ p.id \in Node /\ p.dcId \in AllDc /\ p.token \in 0..(TokenSpace - 1) /\ p.addr \in Node \cup {Nil}
        /\ p.token = TokenOf[p.id] /\ p.addr \in {p.id, Nil} /\ p.dcId \in {DcOf[p.id], NoDc}
    BY DEF PeerOK, PeerData, AllDc
  <1>2. /\ e.id = p.id /\ e.dcId = p.dcId /\ e.token = p.token /\ e.addr = p.addr
        /\ e.status = "INITIALIZING" /\ e.via = p.dcId
    BY DEF NewRemoteNodeInfo
  <1>3. e \in Entry
    BY <1>1, AllDcFacts DEF NewRemoteNodeInfo, Entry, AllDc
  <1> QED  BY <1>1, <1>2, <1>3, AllDcFacts DEF EntryOK

LEMMA AddPeerInv ==
    ASSUME IInv, NEW c \in Node, AddPeer(c)
    PROVE  IInv' /\ RingsGrow
  <1>1. /\ main[c].step = "adding" /\ main[c].phase = "peers" /\ main[c].todo # <<>>
        /\ main[c].reply # <<>> /\ main[c].reply \in Seq(PeerData)
        /\ \A k \in DOMAIN main[c].reply : PeerOK(main[c].reply[k])
        /\ UNCHANGED <<status, listening, conn>>
    BY Facts DEF AddPeer, MainOK
  <1>2. PICK p : p = Head(main[c].reply)
    OBVIOUS
  <1>3. PeerOK(p)
    <2>1. p = main[c].reply[1] /\ 1 \in DOMAIN main[c].reply
      BY <1>1, <1>2
    <2> QED  BY <1>1, <2>1
  <1>4. PICK e : e = NewRemoteNodeInfo(p, p.dcId)
    OBVIOUS
  <1>5. ReadyGrows
    BY <1>1, SameConn
  <1>6. CASE CanAdd(rings[c][e.dcId], e)
    <2>1. TopologyAddNode(c, e)
      BY <1>2, <1>4, <1>6 DEF AddPeer, PeerEntry
    <2>2. e.id = p.id /\ e.dcId = p.dcId
      BY <1>4 DEF NewRemoteNodeInfo
    <2>3. ~(p.id = c /\ p.dcId = DcOf[c])
      <3>1. c \in Ids(rings[c][DcOf[c]])
        BY Facts DEF Topo, RingsOK
      <3> QED  BY <1>6, <2>2, <3>1 DEF CanAdd
    <2>4. EntryOK(c, e.dcId, e) /\ e.status = "INITIALIZING"
      BY <1>3, <1>4, <2>3, HeardOK
    <2>5. Topo' /\ RingsGrow
      BY <1>5, <1>6, <2>1, <2>4, AddedTopology, Facts
    <2>6. \E m \in MainType : Goes(c, m) /\ MainOK(c, m, rings'[c], conn')
      <3>1. CASE Len(main[c].reply) = 1
        <4>1. Skip(c)
          BY <1>2, <1>4, <1>6, <3>1 DEF AddPeer, PeerEntry
        <4> QED  BY <1>1, <1>5, <2>5, <4>1, SkipOK
      <3>2. CASE Len(main[c].reply) # 1
        <4>1. PICK t : t = Tail(main[c].reply)
          OBVIOUS
        <4>2. /\ t \in Seq(PeerData) /\ t # <<>>
              /\ \A k \in DOMAIN t : k + 1 \in DOMAIN main[c].reply /\ t[k] = main[c].reply[k + 1]
          <5>1. PICK r \in Seq(PeerData) : r = main[c].reply
            BY <1>1
          <5>2. Len(r) \in Nat /\ Len(r) > 1
            <6>1. r # <<>> /\ Len(r) # 1
              BY <1>1, <3>2, <5>1
            <6>2. Len(r) \in Nat /\ Len(r) # 0
              BY <5>1, <6>1
            <6>3. PICK n \in Nat : n = Len(r)
              BY <6>2
            <6>4. n # 0 /\ n # 1
              BY <6>1, <6>2, <6>3
            <6> QED  BY <6>3, <6>4
          <5>3. t \in Seq(PeerData) /\ Len(t) = Len(r) - 1 /\ \A k \in 1..Len(t) : t[k] = r[k + 1]
            BY <4>1, <5>1, <5>2
          <5>4. DOMAIN t = 1..Len(t) /\ DOMAIN r = 1..Len(r)
            BY <5>1, <5>3
          <5>5. t # <<>>
            BY <5>2, <5>3
          <5> QED  BY <5>1, <5>2, <5>3, <5>4, <5>5
        <4>3. PICK m : m = [phase |-> "peers", step |-> "adding", todo |-> main[c].todo, reply |-> t]
          OBVIOUS
        <4>4. Goto(c, "peers", "adding", main[c].todo, t)
          BY <1>2, <1>4, <1>6, <3>2, <4>1 DEF AddPeer, PeerEntry
        <4>5. m \in MainType /\ Goes(c, m)
          BY <4>2, <4>3, <4>4, Facts DEF MainType, Goto, Goes
        <4>6. MainOK(c, main[c], rings'[c], conn')
          BY <1>5, <2>5, MainStays, Facts
        <4>7. \A k \in DOMAIN t : PeerOK(t[k])
          BY <1>1, <4>2
        <4>8. MainOK(c, m, rings'[c], conn')
          BY <1>1, <4>2, <4>3, <4>6, <4>7 DEF MainOK
        <4> QED  BY <4>5, <4>8
      <3> QED  BY <3>1, <3>2
    <2> QED  BY <1>1, <1>5, <2>5, <2>6, StepOK, Facts
  <1>7. CASE ~CanAdd(rings[c][e.dcId], e)
    <2>1. StartFails(c) /\ UNCHANGED <<rings, nodes>>
      BY <1>2, <1>4, <1>7 DEF AddPeer, PeerEntry, topology
    <2>2. Topo' /\ RingsGrow
      BY <1>5, <2>1, SameTopology, Facts
    <2>3. \E m \in MainType : Goes(c, m) /\ MainOK(c, m, rings'[c], conn')
      BY <2>1, FailsOK
    <2> QED  BY <1>1, <1>5, <2>2, <2>3, StepOK, Facts
  <1> QED  BY <1>6, <1>7

(* The lists that AllNodes makes. *)

LEMMA PlacesOK ==
    ASSUME Topo, NEW c \in Node
    PROVE  /\ IsFiniteSet(Places(c)) /\ Places(c) # {}
           /\ \A p \in Places(c) : /\ p[1] \in AllDc /\ Placed(c, p) \in Nodes(rings[c][p[1]])
                                   /\ EntryOK(c, p[1], Placed(c, p))
  <1>1. IsFiniteSet(AllDc)
    <2>1. PICK f : f = [d \in Node |-> DcOf[d]]
      OBVIOUS
    <2>2. f \in Surjection(Node, Dc)
      BY <2>1 DEF Surjection, Dc
    <2>3. IsFiniteSet(Dc)
      BY <2>2, FS_Surjection, MembershipAssumption
    <2> QED  BY <2>3, FS_AddElement DEF AllDc
  <1>2. \A dc \in AllDc : RingOK(c, dc, rings[c][dc])
    BY DEF Topo, RingsOK
  <1>3. PICK f : f = [dc \in AllDc |-> {dc} \X DOMAIN rings[c][dc]]
    OBVIOUS
  <1>4. PICK S : S = {f[dc] : dc \in AllDc}
    OBVIOUS
  <1>5. Places(c) = UNION S
    BY <1>3, <1>4 DEF Places, AllDc
  <1>6. IsFiniteSet(S)
    <2>1. f \in Surjection(AllDc, S)
      BY <1>3, <1>4 DEF Surjection
    <2> QED  BY <1>1, <2>1, FS_Surjection
  <1>7. \A T \in S : IsFiniteSet(T)
    <2>1. ASSUME NEW dc \in AllDc
          PROVE  IsFiniteSet({dc} \X DOMAIN rings[c][dc])
      <3>1. DOMAIN rings[c][dc] = 1..Len(rings[c][dc]) /\ Len(rings[c][dc]) \in Nat
        BY <1>2, RingFacts
      <3>2. IsFiniteSet(DOMAIN rings[c][dc])
        BY <3>1, FS_Interval
      <3> QED  BY <3>2, FS_Singleton, FS_Product
    <2> QED  BY <1>3, <1>4, <2>1
  <1>8. IsFiniteSet(Places(c))
    BY <1>5, <1>6, <1>7, FS_UNION
  <1>9. ASSUME NEW p \in Places(c)
        PROVE  p[1] \in AllDc /\ p[2] \in DOMAIN rings[c][p[1]]
    BY DEF Places, AllDc
  <1>10. \A p \in Places(c) : /\ p[1] \in AllDc /\ Placed(c, p) \in Nodes(rings[c][p[1]])
                              /\ EntryOK(c, p[1], Placed(c, p))
    BY <1>2, <1>9 DEF Placed, Nodes, RingOK
  <1>11. Places(c) # {}
    <2>1. PICK k \in DOMAIN rings[c][DcOf[c]] : TRUE
      BY IdsIs DEF Topo, RingsOK
    <2>2. DcOf[c] \in AllDc
      BY AllDcFacts
    <2>3. <<DcOf[c], k>> \in {DcOf[c]} \X DOMAIN rings[c][DcOf[c]]
      BY <2>1
    <2> QED  BY <2>2, <2>3 DEF Places, AllDc
  <1> QED  BY <1>8, <1>10, <1>11

LEMMA ListingIs ==
    ASSUME NEW P, IsFiniteSet(P), NEW s \in Listings(P)
    PROVE  s \in Seq(P) /\ (P # {} => 1 \in DOMAIN s)
  <1>1. Lists(s, P)
    BY SetToSeqsIs DEF Listings
  <1>2. Cardinality(P) \in Nat /\ (P # {} => Cardinality(P) # 0)
    BY FS_CardinalityType, FS_EmptySet
  <1>3. s \in Seq(P) /\ DOMAIN s = 1..Cardinality(P)
    BY <1>1, <1>2 DEF Lists
  <1> QED  BY <1>2, <1>3

LEMMA ObjectsKnown ==
    ASSUME Topo, NEW c \in Node, NEW P \in SUBSET Places(c),
           \A p \in P : Placed(c, p).via # "local" => Placed(c, p).id # c,
           NEW os \in Objects(c, P)
    PROVE  os \in Seq(Node \cup ObjectName) /\ \A k \in DOMAIN os : Known(c, os[k], rings[c])
  <1>1. PICK Q : Q = {p \in P : Placed(c, p).via # "local"}
    OBVIOUS
  <1>2. PICK s \in Listings(Q) : os = [k \in DOMAIN s |-> [ring |-> s[k][1], id |-> Placed(c, s[k]).id]]
    BY <1>1 DEF Objects
  <1>3. IsFiniteSet(Q)
    BY <1>1, PlacesOK, FS_Subset
  <1>4. s \in Seq(Q)
    BY <1>3, ListingIs
  <1>5. \A p \in Q : Known(c, [ring |-> p[1], id |-> Placed(c, p).id], rings[c])
    <2> TAKE p \in Q
    <2>1. /\ p[1] \in AllDc /\ Placed(c, p) \in Nodes(rings[c][p[1]]) /\ EntryOK(c, p[1], Placed(c, p))
          /\ Placed(c, p).id # c
      BY <1>1, PlacesOK
    <2>2. PICK e : e = Placed(c, p)
      OBVIOUS
    <2>3. e.id \in Node /\ e.id \in Ids(rings[c][p[1]]) /\ e.id # c
      BY <2>1, <2>2, EntryFacts DEF Ids
    <2> QED  BY <2>1, <2>2, <2>3 DEF Known, ObjectName
  <1>6. DOMAIN os = DOMAIN s /\ \A k \in DOMAIN s : Known(c, os[k], rings[c])
    BY <1>2, <1>4, <1>5
  <1>7. DOMAIN os = 1..Len(s) /\ Len(s) \in Nat /\ \A k \in DOMAIN os : os[k] \in ObjectName
    BY <1>4, <1>6 DEF Known
  <1>8. os \in Seq(Node \cup ObjectName)
    BY <1>2, <1>7
  <1> QED  BY <1>6, <1>8

\* A loop of Start over other nodes begins
LEMMA LoopOK ==
    ASSUME NEW c \in Node, NEW phase, NEW todo \in Seq(Node \cup ObjectName),
           Goto(c, phase, "next", todo, <<>>),
           \/ phase = "seeds" /\ \A k \in DOMAIN todo : todo[k] \in Node \ {c}
           \/ phase \in {"locals", "peers"} /\ \A k \in DOMAIN todo : Known(c, todo[k], rings'[c])
           \/ phase = "done" /\ todo = <<>>
    PROVE  \E m \in MainType : Goes(c, m) /\ MainOK(c, m, rings'[c], conn')
  <1>1. PICK m : m = [phase |-> phase, step |-> "next", todo |-> todo, reply |-> <<>>]
    OBVIOUS
  <1>2. m \in MainType
    BY <1>1 DEF MainType
  <1>3. MainOK(c, m, rings'[c], conn')
    BY <1>1 DEF MainOK
  <1> QED  BY <1>1, <1>2, <1>3 DEF Goto, Goes

LEMMA NextPhaseInv ==
    ASSUME IInv, NEW c \in Node, NextPhase(c)
    PROVE  IInv' /\ RingsGrow
  <1>1. UNCHANGED <<listening, rings, nodes, conn>>
    BY DEF NextPhase, topology
  <1>2. ReadyGrows
    BY <1>1, SameConn
  <1>3. Topo' /\ RingsGrow
    BY <1>1, <1>2, SameTopology, Facts
  <1>4. status' \in [Node -> {"INITIALIZING", "NORMAL"}]
    BY Facts DEF NextPhase
  <1>5. \E m \in MainType : Goes(c, m) /\ MainOK(c, m, rings'[c], conn')
    <2>1. CASE Goto(c, "seeds", "next", Seeds[c], <<>>)
      <3>1. PICK todo \in Seq(Node) : todo = Seeds[c]
        BY MembershipAssumption
      <3>2. todo \in Seq(Node \cup ObjectName)
        BY <3>1
      <3>3. \A k \in DOMAIN todo : todo[k] \in Node \ {c}
        BY <3>1, MembershipAssumption
      <3> QED  BY <2>1, <3>1, <3>2, <3>3, LoopOK
    <2>2. ASSUME NEW peers \in RemoteObjects(c), Goto(c, "peers", "next", peers, <<>>)
          PROVE  \E m \in MainType : Goes(c, m) /\ MainOK(c, m, rings'[c], conn')
      <3>1. PICK P : P = {p \in Places(c) : Placed(c, p).id # c}
        OBVIOUS
      <3>2. P \in SUBSET Places(c) /\ \A p \in P : Placed(c, p).id # c
        BY <3>1
      <3>3. peers \in Objects(c, P)
        BY <3>1 DEF RemoteObjects
      <3>4. peers \in Seq(Node \cup ObjectName) /\ \A k \in DOMAIN peers : Known(c, peers[k], rings[c])
        BY <3>2, <3>3, ObjectsKnown, Facts
      <3> QED  BY <1>1, <2>2, <3>4, LoopOK
    <2>3. CASE Goto(c, "done", "next", <<>>, <<>>)
      <3>1. PICK todo : todo = <<>>
        OBVIOUS
      <3>2. todo \in Seq(Node \cup ObjectName) /\ Goto(c, "done", "next", todo, <<>>)
        BY <2>3, <3>1
      <3> QED  BY <3>1, <3>2, LoopOK
    <2> QED  BY <2>1, <2>2, <2>3 DEF NextPhase
  <1> QED  BY <1>1, <1>2, <1>3, <1>4, <1>5, StepOK, Facts

LEMMA StartLocalsInv ==
    ASSUME IInv, NEW c \in Node, StartLocals(c)
    PROVE  IInv' /\ RingsGrow
  <1>1. UNCHANGED <<status, listening, nodes, conn>>
    BY DEF StartLocals
  <1>2. ReadyGrows
    BY <1>1, SameConn
  <1>3. PICK o : o = [ring |-> DcOf[c], id |-> c]
    OBVIOUS
  <1>4. PICK a : a = Object(c, o)
    OBVIOUS
  <1>5. PICK e : e = [a EXCEPT !.started = TRUE]
    OBVIOUS
  <1>6. o \in ObjectName /\ o.id \in Ids(rings[c][o.ring]) /\ rings' = Change(c, o, e)
    <2>1. o.id = c /\ o.ring = DcOf[c] /\ o \in ObjectName
      BY <1>3, AllDcFacts DEF ObjectName
    <2>2. c \in Ids(rings[c][DcOf[c]])
      BY Facts DEF Topo, RingsOK
    <2> QED  BY <1>3, <1>4, <1>5, <2>1, <2>2 DEF StartLocals
  <1>7. EntryOK(c, o.ring, a)
    BY <1>4, <1>6, ObjectIs, Facts
  <1>8. Kept(c, a, e) /\ e.status = a.status
    BY <1>5, <1>7, KeptFacts
  <1>9. Topo' /\ RingsGrow
    BY <1>1, <1>2, <1>4, <1>6, <1>8, ChangeIs, Facts
  <1>10. \E m \in MainType : Goes(c, m) /\ MainOK(c, m, rings'[c], conn')
    <2>1. PICK P : P = {p \in Places(c) : p[1] = DcOf[c] /\ ~Placed(c, p).started}
      OBVIOUS
    <2>2. PICK os \in Objects(c, P) : Goto(c, "locals", "next", os, <<>>)
      BY <2>1 DEF StartLocals
    <2>3. ASSUME NEW p \in P, Placed(c, p).via # "local"
          PROVE  Placed(c, p).id # c
      <3>1. EntryOK(c, DcOf[c], Placed(c, p))
        BY <2>1, PlacesOK, Facts
      <3> QED  BY <2>3, <3>1 DEF EntryOK
    <2>4. P \in SUBSET Places(c)
      BY <2>1
    <2>5. os \in Seq(Node \cup ObjectName) /\ \A k \in DOMAIN os : Known(c, os[k], rings[c])
      BY <2>3, <2>4, ObjectsKnown, Facts
    <2>6. \A k \in DOMAIN os : Known(c, os[k], rings'[c])
      <3> TAKE k \in DOMAIN os
      <3>1. PICK b : b = os[k]
        OBVIOUS
      <3>2. b.ring \in AllDc /\ Known(c, b, rings[c])
        BY <2>5, <3>1 DEF Known, ObjectName
      <3>3. Known(c, b, rings'[c])
        BY <1>9, <3>2 DEF Known, Ids, RingsGrow
      <3> QED  BY <3>1, <3>3
    <2> QED  BY <2>2, <2>5, <2>6, LoopOK
  <1> QED  BY <1>1, <1>2, <1>9, <1>10, StepOK, Facts

LEMMA StopInv ==
    ASSUME IInv, NEW c \in Node, Stop(c)
    PROVE  IInv' /\ RingsGrow
  <1>1. UNCHANGED <<status, nodes, main>> /\ listening' \in [Node -> BOOLEAN]
    BY Facts DEF Stop
  <1>2. PICK lost \in SUBSET {k \in Conn : k[2] = c /\ conn[k].server = "opening"} :
           conn' = [k \in Conn |-> IF k \in lost THEN [conn[k] EXCEPT !.server = "reset"] ELSE conn[k]]
    BY DEF Stop
  <1>3. ASSUME NEW k \in lost
        PROVE  k \in Conn /\ conn'[k] \in ConnType /\ ~conn[k].ready /\ \A R : ConnOK(k, conn'[k], R)
    <2>1. k \in Conn /\ conn[k].server = "opening" /\ ConnOK(k, conn[k], rings[k[2]]) /\ conn[k] \in ConnType
      BY <1>2, Facts
    <2>2. PICK x : x = conn[k]
      OBVIOUS
    <2>3. PICK y : y = [x EXCEPT !.server = "reset"]
      OBVIOUS
    <2>4. conn'[k] = y
      BY <1>2, <2>1, <2>2, <2>3
    <2>5. /\ x.server = "opening" /\ ConnOK(k, x, rings[k[2]]) /\ x \in ConnType
      BY <2>1, <2>2
    <2>6. y \in ConnType /\ ~x.ready /\ \A R : ConnOK(k, y, R)
      BY <2>3, <2>5 DEF ConnType, ConnOK
    <2> QED  BY <2>1, <2>2, <2>4, <2>6
  <1>4. \A k \in Conn : k \notin lost => conn'[k] = conn[k]
    BY <1>2
  <1>5. conn' \in [Conn -> ConnType] /\ ReadyGrows
    <2>1. \A k \in Conn : conn'[k] \in ConnType /\ (conn[k].ready => conn'[k].ready)
      BY <1>3, <1>4, Facts
    <2> QED  BY <1>2, <2>1 DEF ReadyGrows
  <1>6. \A k \in Conn : conn'[k] = conn[k] \/ ConnOK(k, conn'[k], rings'[k[2]])
    BY <1>3, <1>4
  <1>7. PICK r : r = rings[c][DcOf[c]]
    OBVIOUS
  <1>8. PICK s : s = [k \in DOMAIN r |-> [r[k] EXCEPT !.started = FALSE]]
    OBVIOUS
  <1>9. DcOf[c] \in AllDc /\ rings \in [Node -> [AllDc -> Seq(Entry)]] /\ RingOK(c, DcOf[c], r)
    BY <1>7, AllDcFacts, Facts DEF Topo, RingsOK
  <1>10. \A k \in DOMAIN r : /\ Kept(c, r[k], s[k]) /\ s[k].status = r[k].status
    <2> TAKE k \in DOMAIN r
    <2>1. PICK a : a = r[k]
      OBVIOUS
    <2>2. EntryOK(c, DcOf[c], a)
      BY <1>9, <2>1 DEF RingOK
    <2>3. Kept(c, a, [a EXCEPT !.started = FALSE]) /\ [a EXCEPT !.started = FALSE].status = a.status
      BY <2>2, KeptFacts
    <2> QED  BY <1>8, <2>1, <2>3
  <1>11. s \in Seq(Entry) /\ DOMAIN s = DOMAIN r
    <2>1. DOMAIN r = 1..Len(r) /\ Len(r) \in Nat
      BY <1>9, RingFacts
    <2>2. \A k \in DOMAIN r : s[k] \in Entry
      BY <1>10 DEF Kept
    <2> QED  BY <1>8, <2>1, <2>2
  <1>12. rings' = [rings EXCEPT ![c][DcOf[c]] = s]
    BY <1>7, <1>8, <1>9 DEF Stop
  <1>13. /\ rings' \in [Node -> [AllDc -> Seq(Entry)]] /\ rings'[c][DcOf[c]] = s
         /\ \A d \in Node, dc \in AllDc : ~(d = c /\ dc = DcOf[c]) => rings'[d][dc] = rings[d][dc]
    BY <1>9, <1>11, <1>12
  <1>14. \A d \in Node, dc \in AllDc : \A k \in DOMAIN rings[d][dc] :
           Kept(d, rings[d][dc][k], rings[d][dc][k])
    BY Facts DEF Topo, RingsOK, RingOK, EntryOK, Kept
  <1>15. ASSUME NEW d \in Node, NEW dc \in AllDc
         PROVE  /\ DOMAIN rings'[d][dc] = DOMAIN rings[d][dc]
                /\ \A k \in DOMAIN rings[d][dc] :
                      /\ Kept(d, rings[d][dc][k], rings'[d][dc][k])
                      /\ (rings'[d][dc][k].status = "UP" /\ rings'[d][dc][k].via # "local") =>
                           \/ rings[d][dc][k].status = "UP"
                           \/ conn'[<<d, rings'[d][dc][k].id, rings'[d][dc][k].via>>].ready
    <2>1. CASE d = c /\ dc = DcOf[c]
      BY <1>7, <1>10, <1>11, <1>13, <2>1
    <2>2. CASE ~(d = c /\ dc = DcOf[c])
      BY <1>13, <1>14, <2>2
    <2> QED  BY <2>1, <2>2
  <1>16. Topo' /\ RingsGrow
    BY <1>1, <1>5, <1>13, <1>15, ChangedTopology, Facts
  <1> QED  BY <1>1, <1>5, <1>6, <1>16, StepOK, Facts
-----------------------------------------------------------------------------
(* One lemma for each action of a handler. *)

LEMMA ConnFacts ==
    ASSUME NEW k \in Conn
    PROVE  k[1] \in Node /\ k[2] \in Node /\ k[1] # k[2] /\ DcOf[k[1]] \in AllDc
  BY AllDcFacts DEF Conn

\* The handler of k goes on
LEMMA ServerType ==
    ASSUME NEW x \in ConnType, NEW server \in {"registering", "added", "starting", "serving"},
           NEW y, y = [x EXCEPT !.server = server]
    PROVE  /\ y \in ConnType /\ y.ready = x.ready /\ y.request = x.request
           /\ y.server = server /\ y.reply = x.reply
  BY DEF ConnType

LEMMA ServerOK ==
    ASSUME NEW k \in Conn, NEW x, ConnOK(k, x, rings[k[2]]),
           NEW y, y.server \in {"registering", "added", "starting", "serving"}, y.reply = x.reply,
           y.server # "registering" => k[1] \in Ids(rings'[k[2]][DcOf[k[1]]])
    PROVE  ConnOK(k, y, rings'[k[2]])
  BY DEF ConnOK

LEMMA AcceptInv ==
    ASSUME IInv, NEW k \in Conn, Accept(k)
    PROVE  IInv' /\ RingsGrow
  <1>1. conn' = [conn EXCEPT ![k].server = "registering"] /\ UNCHANGED <<status, listening, rings, nodes, main>>
    BY DEF Accept, Handler, topology
  <1>2. PICK x : x = [conn[k] EXCEPT !.server = "registering"]
    OBVIOUS
  <1>3. x \in ConnType /\ x.ready = conn[k].ready /\ x.server = "registering" /\ x.reply = conn[k].reply
    BY <1>2, ServerType, Facts
  <1>4. /\ ReadyGrows /\ conn' \in [Conn -> ConnType] /\ conn'[k] = x
        /\ \A j \in Conn \ {k} : conn'[j] = conn[j]
    BY <1>1, <1>2, <1>3, SetConn
  <1>5. Topo' /\ RingsGrow
    BY <1>1, <1>4, SameTopology, Facts
  <1>6. ConnOK(k, x, rings'[k[2]])
    BY <1>3, ServerOK, Facts
  <1>7. \A j \in Conn : conn'[j] = conn[j] \/ ConnOK(j, conn'[j], rings'[j[2]])
    BY <1>4, <1>6
  <1> QED  BY <1>1, <1>4, <1>5, <1>7, StepOK, Facts

LEMMA RegisterInv ==
    ASSUME IInv, NEW k \in Conn, Register(k)
    PROVE  IInv' /\ RingsGrow
  <1>1. k[1] \in Node /\ k[2] \in Node /\ k[1] # k[2] /\ DcOf[k[1]] \in AllDc
    BY ConnFacts
  <1>2. PICK p : p = [id |-> k[1], dcId |-> DcOf[k[1]], token |-> TokenOf[k[1]], addr |-> k[1]]
    OBVIOUS
  <1>3. PeerOK(p) /\ p.id = k[1] /\ p.dcId = DcOf[k[1]]
    BY <1>1, <1>2, MembershipAssumption DEF PeerOK, PeerData, AllDc
  <1>4. PICK e : e = NewRemoteNodeInfo(p, p.dcId)
    OBVIOUS
  <1>5. e.id = k[1] /\ e.dcId = DcOf[k[1]] /\ e.status = "INITIALIZING" /\ EntryOK(k[2], e.dcId, e)
    BY <1>1, <1>3, <1>4, HeardOK
  <1>6. /\ \/ /\ CanAdd(rings[k[2]][e.dcId], e)
              /\ TopologyAddNode(k[2], e)
              /\ Handler(k, "added")
           \/ /\ ~CanAdd(rings[k[2]][e.dcId], e)
              /\ Handler(k, "serving")
              /\ UNCHANGED topology
        /\ UNCHANGED <<status, listening, main>>
    BY <1>2, <1>3, <1>4 DEF Register
  <1>7. PICK server \in {"added", "serving"} :
           /\ Handler(k, server)
           /\ server = "added" => CanAdd(rings[k[2]][e.dcId], e) /\ TopologyAddNode(k[2], e)
           /\ server = "serving" => ~CanAdd(rings[k[2]][e.dcId], e) /\ UNCHANGED <<rings, nodes>>
    BY <1>6 DEF topology
  <1>8. PICK x : x = [conn[k] EXCEPT !.server = server]
    OBVIOUS
  <1>9. x \in ConnType /\ x.ready = conn[k].ready /\ x.server = server /\ x.reply = conn[k].reply
    BY <1>8, ServerType, Facts
  <1>10. /\ ReadyGrows /\ conn' \in [Conn -> ConnType] /\ conn'[k] = x
         /\ \A j \in Conn \ {k} : conn'[j] = conn[j]
    BY <1>7, <1>8, <1>9, SetConn DEF Handler
  <1>11. Topo' /\ RingsGrow /\ k[1] \in Ids(rings'[k[2]][DcOf[k[1]]])
    <2>1. CASE server = "added"
      BY <1>1, <1>5, <1>7, <1>10, <2>1, AddedTopology, Facts
    <2>2. CASE server = "serving"
      BY <1>5, <1>7, <1>10, <2>2, SameTopology, Facts DEF CanAdd
    <2> QED  BY <2>1, <2>2
  <1>12. ConnOK(k, x, rings'[k[2]])
    BY <1>9, <1>11, ServerOK, Facts
  <1>13. \A j \in Conn : conn'[j] = conn[j] \/ ConnOK(j, conn'[j], rings'[j[2]])
    BY <1>10, <1>12
  <1> QED  BY <1>6, <1>10, <1>11, <1>13, StepOK, Facts

\* The connection by which the node that sent the greeting is started
LEMMA BackIs ==
    ASSUME NEW k \in Conn
    PROVE  Back(k) \in Conn /\ Back(k) # k /\ Back(k)[2] = k[1]
  BY ConnFacts, AllDcFacts DEF Back, Conn

LEMMA SetTwo ==
    ASSUME IInv, NEW k \in Conn, NEW x \in ConnType, NEW b \in Conn, b # k, NEW y \in ConnType,
           conn' = [conn EXCEPT ![k] = x, ![b] = y],
           conn[k].ready => x.ready, conn[b].ready => y.ready
    PROVE  /\ ReadyGrows /\ conn' \in [Conn -> ConnType] /\ conn'[k] = x /\ conn'[b] = y
           /\ \A j \in Conn \ {k, b} : conn'[j] = conn[j]
  BY Facts DEF ReadyGrows

LEMMA StartRegisteredInv ==
    ASSUME IInv, NEW k \in Conn, StartRegistered(k)
    PROVE  IInv' /\ RingsGrow
  <1>1. conn[k].server = "added" /\ UNCHANGED <<status, listening, rings, nodes, main>>
    BY DEF StartRegistered, topology
  <1>2. k[1] \in Ids(rings'[k[2]][DcOf[k[1]]])
    BY <1>1, Facts DEF ConnOK
  <1>3. PICK server \in {"serving", "starting"} :
           \/ Handler(k, server)
           \/ /\ server = "starting" /\ ~conn[Back(k)].ready
              /\ conn' = Dial([conn EXCEPT ![k].server = server], Back(k))
    BY DEF StartRegistered, Handler
  <1>4. PICK x : x = [conn[k] EXCEPT !.server = server]
    OBVIOUS
  <1>5. x \in ConnType /\ x.ready = conn[k].ready /\ x.server = server /\ x.reply = conn[k].reply
    BY <1>4, ServerType, Facts
  <1>6. ConnOK(k, x, rings'[k[2]])
    BY <1>2, <1>5, ServerOK, Facts
  <1>7. /\ ReadyGrows /\ conn' \in [Conn -> ConnType]
        /\ \A j \in Conn : conn'[j] = conn[j] \/ ConnOK(j, conn'[j], rings'[j[2]])
    <2>1. CASE Handler(k, server)
      <3>1. conn' = [conn EXCEPT ![k] = x]
        BY <1>4, <2>1 DEF Handler
      <3> QED  BY <1>5, <1>6, <3>1, SetConn
    <2>2. CASE /\ ~conn[Back(k)].ready
               /\ conn' = Dial([conn EXCEPT ![k].server = server], Back(k))
      <3>1. PICK b \in Conn : b = Back(k) /\ b # k
        BY BackIs
      <3>2. PICK y : y = [conn[b] EXCEPT !.server = "opening"]
        OBVIOUS
      <3>3. y \in ConnType /\ ~y.ready /\ \A R : ConnOK(b, y, R)
        BY <2>2, <3>1, <3>2, DialOK, Facts
      <3>4. conn' = [conn EXCEPT ![k] = x, ![b] = y]
        BY <1>4, <2>2, <3>1, <3>2, Facts DEF Dial
      <3>5. /\ ReadyGrows /\ conn' \in [Conn -> ConnType] /\ conn'[k] = x /\ conn'[b] = y
            /\ \A j \in Conn \ {k, b} : conn'[j] = conn[j]
        <4>1. (conn[k].ready => x.ready) /\ (conn[b].ready => y.ready) /\ b # k
          BY <1>5, <2>2, <3>1
        <4> QED  BY <1>5, <3>3, <3>4, <4>1, SetTwo
      <3> QED  BY <1>6, <3>3, <3>5
    <2> QED  BY <1>3, <2>1, <2>2
  <1>8. Topo' /\ RingsGrow
    BY <1>1, <1>7, SameTopology, Facts
  <1> QED  BY <1>1, <1>7, <1>8, StepOK, Facts

LEMMA EndStartInv ==
    ASSUME IInv, NEW k \in Conn, EndStart(k)
    PROVE  IInv' /\ RingsGrow
  <1>1. conn[k].server = "starting" /\ UNCHANGED <<status, listening, nodes, main>>
    BY DEF EndStart
  <1>2. k[1] \in Node /\ k[2] \in Node /\ k[1] # k[2] /\ DcOf[k[1]] \in AllDc
    BY ConnFacts
  <1>3. PICK b \in Conn : b = Back(k) /\ b # k /\ b = <<k[2], k[1], DcOf[k[1]]>>
    BY BackIs DEF Back
  <1>4. PICK o : o = Registered(k)
    OBVIOUS
  <1>5. o \in ObjectName /\ o.id = k[1] /\ o.ring = DcOf[k[1]] /\ o.id \in Ids(rings[k[2]][o.ring])
    <2>1. o \in ObjectName /\ o.id = k[1] /\ o.ring = DcOf[k[1]]
      BY <1>2, <1>4 DEF Registered, ObjectName
    <2> QED  BY <1>1, <2>1, Facts DEF ConnOK
  <1>6. PICK a : a = Object(k[2], o)
    OBVIOUS
  <1>7. a.id = k[1] /\ EntryOK(k[2], DcOf[k[1]], a)
    BY <1>2, <1>5, <1>6, ObjectIs, Facts
  <1>8. a.via = DcOf[k[1]]
    BY <1>2, <1>7, AllDcFacts DEF EntryOK
  <1>9. PICK x : x = [conn[k] EXCEPT !.server = "serving"]
    OBVIOUS
  <1>10. x \in ConnType /\ x.ready = conn[k].ready /\ x.server = "serving" /\ x.reply = conn[k].reply
    BY <1>9, ServerType, Facts
  <1>11. \/ /\ Accepted(b)
            /\ conn' = [conn EXCEPT ![k].server = "serving", ![b].ready = TRUE]
            /\ rings' = Change(k[2], o, Started(Greeted(a, k[1])))
         \/ /\ Handler(k, "serving")
            /\ rings' = Change(k[2], o, [a EXCEPT !.status = "DOWN"])
    BY <1>3, <1>4, <1>6 DEF EndStart
  <1>12. ASSUME RingsGrow
         PROVE  ConnOK(k, x, rings'[k[2]])
    <2>1. k[1] \in Ids(rings'[k[2]][DcOf[k[1]]])
      BY <1>2, <1>5, <1>12 DEF Ids, RingsGrow
    <2> QED  BY <1>10, <2>1, ServerOK, Facts
  <1>13. /\ Topo' /\ RingsGrow /\ ReadyGrows /\ conn' \in [Conn -> ConnType]
         /\ \A j \in Conn : conn'[j] = conn[j] \/ ConnOK(j, conn'[j], rings'[j[2]])
    <2>1. CASE /\ Accepted(b)
               /\ conn' = [conn EXCEPT ![k].server = "serving", ![b].ready = TRUE]
               /\ rings' = Change(k[2], o, Started(Greeted(a, k[1])))
      <3>1. PICK y : y = [conn[b] EXCEPT !.ready = TRUE]
        OBVIOUS
      <3>2. y \in ConnType /\ y.ready
        BY <3>1, Facts DEF ConnType
      <3>3. conn' = [conn EXCEPT ![k] = x, ![b] = y]
        BY <1>3, <1>9, <2>1, <3>1, Facts
      <3>4. /\ ReadyGrows /\ conn' \in [Conn -> ConnType] /\ conn'[k] = x /\ conn'[b] = y
            /\ \A j \in Conn \ {k, b} : conn'[j] = conn[j]
        <4>1. (conn[k].ready => x.ready) /\ (conn[b].ready => y.ready) /\ b # k
          BY <1>3, <1>10, <3>2
        <4> QED  BY <1>10, <3>2, <3>3, <4>1, SetTwo
      <3>5. PICK e : e = Started(Greeted(a, a.id))
        OBVIOUS
      <3>6. Kept(k[2], a, e)
        BY <1>2, <1>7, <3>5, KeptFacts
      <3>7. conn'[<<k[2], e.id, e.via>>].ready
        BY <1>3, <1>7, <1>8, <3>2, <3>4, <3>6 DEF Kept
      <3>8. rings' = Change(k[2], o, e)
        BY <1>7, <2>1, <3>5
      <3>9. Topo' /\ RingsGrow
        BY <1>1, <1>2, <1>5, <1>6, <3>4, <3>6, <3>7, <3>8, ChangeIs, Facts
      <3>10. ConnOK(b, y, rings'[b[2]])
        BY <2>1, <3>1, <3>9, PooledOK, Facts DEF Accepted
      <3> QED  BY <1>12, <3>4, <3>9, <3>10
    <2>2. CASE /\ Handler(k, "serving")
               /\ rings' = Change(k[2], o, [a EXCEPT !.status = "DOWN"])
      <3>1. /\ ReadyGrows /\ conn' \in [Conn -> ConnType] /\ conn'[k] = x
            /\ \A j \in Conn \ {k} : conn'[j] = conn[j]
        BY <1>9, <1>10, <2>2, SetConn DEF Handler
      <3>2. PICK e : e = [a EXCEPT !.status = "DOWN"]
        OBVIOUS
      <3>3. Kept(k[2], a, e) /\ e.status = "DOWN"
        BY <1>7, <3>2, KeptFacts
      <3>4. Topo' /\ RingsGrow
        BY <1>1, <1>2, <1>5, <1>6, <2>2, <3>1, <3>2, <3>3, ChangeIs, Facts
      <3> QED  BY <1>12, <3>1, <3>4
    <2> QED  BY <1>11, <2>1, <2>2
  <1> QED  BY <1>1, <1>13, StepOK, Facts

\* What executeRequest answers is what its topology has
LEMMA PeersTrue ==
    ASSUME Topo, NEW c \in Node, NEW peers \in PeersOf(AllNodes(c))
    PROVE  peers \in Seq(PeerData) /\ peers # <<>> /\ \A k \in DOMAIN peers : PeerOK(peers[k])
  <1>1. PICK s \in AllNodes(c) :
           peers = [k \in DOMAIN s |-> [id |-> s[k].id, dcId |-> s[k].dcId,
                                        token |-> s[k].token, addr |-> s[k].addr]]
    BY DEF PeersOf
  <1>2. PICK l \in Listings(Places(c)) : s = [k \in DOMAIN l |-> Placed(c, l[k])]
    BY DEF AllNodes
  <1>3. l \in Seq(Places(c)) /\ 1 \in DOMAIN l
    BY PlacesOK, ListingIs
  <1>4. DOMAIN peers = 1..Len(l) /\ Len(l) \in Nat /\ 1 \in 1..Len(l) /\ DOMAIN s = 1..Len(l)
    BY <1>1, <1>2, <1>3
  <1>5. ASSUME NEW k \in 1..Len(l)
        PROVE  PeerOK(peers[k]) /\ peers[k] \in PeerData
    <2>1. PICK p \in Places(c) : p = l[k]
      BY <1>3
    <2>2. PICK e : e = Placed(c, p)
      OBVIOUS
    <2>3. EntryOK(c, p[1], e)
      BY <2>2, PlacesOK
    <2>4. peers[k] = [id |-> e.id, dcId |-> e.dcId, token |-> e.token, addr |-> e.addr]
      BY <1>1, <1>2, <1>4, <2>1, <2>2
    <2> QED  BY <2>3, <2>4 DEF EntryOK, Entry, PeerOK, PeerData
  <1>6. peers \in Seq(PeerData)
    BY <1>1, <1>4, <1>5
  <1>7. peers # <<>>
    BY <1>4, <1>6
  <1> QED  BY <1>4, <1>5, <1>6, <1>7

LEMMA ServeInv ==
    ASSUME IInv, NEW k \in Conn, Serve(k)
    PROVE  IInv' /\ RingsGrow
  <1>1. UNCHANGED <<status, listening, rings, nodes, main>>
    BY DEF Serve, topology
  <1>2. PICK peers \in PeersOf(AllNodes(k[2])) : conn' = [conn EXCEPT ![k].request = FALSE, ![k].reply = peers]
    BY DEF Serve
  <1>3. peers \in Seq(PeerData) /\ peers # <<>> /\ \A i \in DOMAIN peers : PeerOK(peers[i])
    BY PeersTrue, ConnFacts, Facts
  <1>4. PICK y : y = [conn[k] EXCEPT !.request = FALSE]
    OBVIOUS
  <1>5. PICK x : x = [y EXCEPT !.reply = peers]
    OBVIOUS
  <1>6. y \in ConnType /\ y.ready = conn[k].ready /\ y.server = conn[k].server
    BY <1>4, Facts DEF ConnType
  <1>7. x \in ConnType /\ x.ready = conn[k].ready /\ x.server = conn[k].server /\ x.reply = peers
    BY <1>3, <1>5, <1>6 DEF ConnType
  <1>8. conn' = [conn EXCEPT ![k] = x]
    BY <1>2, <1>4, <1>5, Facts
  <1>9. /\ ReadyGrows /\ conn' \in [Conn -> ConnType] /\ conn'[k] = x
        /\ \A j \in Conn \ {k} : conn'[j] = conn[j]
    BY <1>7, <1>8, SetConn
  <1>10. Topo' /\ RingsGrow
    BY <1>1, <1>9, SameTopology, Facts
  <1>11. ConnOK(k, x, rings'[k[2]])
    <2>1. ConnOK(k, conn[k], rings[k[2]])
      BY Facts
    <2> QED  BY <1>1, <1>3, <1>7, <2>1 DEF ConnOK
  <1>12. \A j \in Conn : conn'[j] = conn[j] \/ ConnOK(j, conn'[j], rings'[j[2]])
    BY <1>9, <1>11
  <1> QED  BY <1>1, <1>9, <1>10, <1>12, StepOK, Facts
-----------------------------------------------------------------------------
LEMMA InitInv ==
    ASSUME Init
    PROVE  IInv
  <1>1. \A c \in Node, dc \in AllDc :
           rings[c][dc] = IF dc = DcOf[c] THEN <<NewLocalNode(c)>> ELSE <<>>
    BY DEF Init, AllDc
  <1>2. ASSUME NEW c \in Node
        PROVE  EntryOK(c, DcOf[c], NewLocalNode(c)) /\ NewLocalNode(c).id = c /\ NewLocalNode(c).via = "local"
    <2>1. NewLocalNode(c) \in Entry
      BY <1>2, AllDcFacts, MembershipAssumption DEF NewLocalNode, Entry, AllDc
    <2> QED  BY <2>1 DEF NewLocalNode, EntryOK
  <1>3. ASSUME NEW c \in Node, NEW dc \in AllDc
        PROVE  /\ RingOK(c, dc, rings[c][dc])
               /\ \A e \in Nodes(rings[c][dc]) : e.via = "local"
               /\ \A d : d \in Ids(rings[c][dc]) <=> (dc = DcOf[c] /\ d = c)
    <2>1. CASE dc = DcOf[c]
      <3>1. PICK e : e = NewLocalNode(c)
        OBVIOUS
      <3>2. PICK r : r = <<e>>
        OBVIOUS
      <3>3. rings[c][dc] = r /\ EntryOK(c, dc, e) /\ e.id = c /\ e.via = "local" /\ e \in Entry
        BY <1>1, <1>2, <2>1, <3>1, <3>2 DEF EntryOK
      <3>4. r \in Seq(Entry) /\ DOMAIN r = {1} /\ r[1] = e
        BY <3>2, <3>3
      <3>5. RingOK(c, dc, r) /\ \A x \in Nodes(r) : x.via = "local"
        BY <3>3, <3>4 DEF RingOK, Sorted, Nodes
      <3>6. \A d : d \in Ids(r) <=> d = c
        <4> TAKE d
        <4>1. d \in Ids(r) <=> \E k \in DOMAIN r : r[k].id = d
          BY IdsIs
        <4> QED  BY <3>3, <3>4, <4>1
      <3> QED  BY <2>1, <3>3, <3>5, <3>6
    <2>2. CASE dc # DcOf[c]
      <3>1. rings[c][dc] = <<>>
        BY <1>1, <2>2
      <3>2. RingOK(c, dc, <<>>) /\ Nodes(<<>>) = {} /\ Ids(<<>>) = {}
        BY DEF RingOK, Sorted, Nodes, Ids
      <3> QED  BY <2>2, <3>1, <3>2
    <2> QED  BY <2>1, <2>2
  <1>4. RingsOK
    <2>1. rings \in [Node -> [AllDc -> Seq(Entry)]]
      <3>1. \A c \in Node, dc \in AllDc : rings[c][dc] \in Seq(Entry)
        BY <1>3 DEF RingOK
      <3> QED  BY <3>1 DEF Init, AllDc
    <2>2. \A c \in Node : c \in Ids(rings[c][DcOf[c]])
      BY <1>3, AllDcFacts
    <2> QED  BY <1>3, <2>1, <2>2 DEF RingsOK
  <1>5. FiledOK
    <2>1. nodes \in [Node -> [Node -> AllDc \cup {Nil}]]
      BY AllDcFacts DEF Init
    <2>2. ASSUME NEW c \in Node, NEW d \in Node
          PROVE  IF nodes[c][d] = Nil THEN \A dc \in AllDc : d \notin Ids(rings[c][dc])
                 ELSE d \in Ids(rings[c][nodes[c][d]])
      <3>1. nodes[c][d] = IF d = c THEN DcOf[c] ELSE Nil
        BY DEF Init
      <3>2. DcOf[c] # Nil /\ DcOf[c] \in AllDc
        BY AllDcFacts
      <3>3. CASE d = c
        <4>1. nodes[c][d] = DcOf[c] /\ d \in Ids(rings[c][DcOf[c]])
          BY <1>3, <3>1, <3>2, <3>3
        <4> QED  BY <3>2, <4>1
      <3>4. CASE d # c
        BY <1>3, <3>1, <3>4
      <3> QED  BY <3>3, <3>4
    <2> QED  BY <2>1, <2>2 DEF FiledOK
  <1>6. Shape /\ \A c \in Node : MainOK(c, main[c], rings[c], conn)
    <2>1. PICK m : m = [phase |-> "new", step |-> "next", todo |-> <<>>, reply |-> <<>>]
      OBVIOUS
    <2>2. m \in MainType /\ \A c \in Node : main[c] = m
      BY <2>1 DEF Init, MainType
    <2>3. \A c \in Node : MainOK(c, m, rings[c], conn)
      BY <2>1 DEF MainOK
    <2>4. Shape
      <3>1. main \in [Node -> MainType]
        BY <2>1, <2>2 DEF Init
      <3>2. conn \in [Conn -> ConnType]
        BY DEF Init, ConnType
      <3> QED  BY <3>1, <3>2 DEF Init, Shape
    <2> QED  BY <2>2, <2>3, <2>4
  <1>7. \A k \in Conn : ConnOK(k, conn[k], rings[k[2]])
    <2>1. \A k \in Conn : conn[k].server = "none" /\ ~conn[k].ready /\ conn[k].reply = Nil
      BY DEF Init
    <2> QED  BY <2>1 DEF ConnOK
  <1>8. UpReady
    BY <1>3 DEF UpReady
  <1> QED  BY <1>4, <1>5, <1>6, <1>7, <1>8 DEF IInv

LEMMA NextInv ==
    ASSUME IInv, [Next]_vars
    PROVE  IInv' /\ RingsGrow
  <1>1. CASE UNCHANGED vars
    <2>1. UNCHANGED <<status, listening, rings, nodes, main, conn>>
      BY <1>1 DEF vars, topology
    <2>2. ReadyGrows
      BY <2>1, SameConn
    <2>3. Topo' /\ RingsGrow
      BY <2>1, <2>2, SameTopology, Facts
    <2> QED  BY <2>1, <2>2, <2>3, StepOK, Facts
  <1>2. ASSUME NEW c \in Node, MainStep(c)
        PROVE  IInv' /\ RingsGrow
    BY <1>2, StartInv, StartLocalsInv, PassSeedInv, ConnectInv, ConnectFailsInv, StartedLocalInv,
       AddSeedInv, AskPeerInv, ReadReplyInv, AddPeerInv, NextPhaseInv DEF MainStep
  <1>3. ASSUME NEW c \in Node, Stop(c)
        PROVE  IInv' /\ RingsGrow
    BY <1>3, StopInv
  <1>4. ASSUME NEW k \in Conn, HandlerStep(k)
        PROVE  IInv' /\ RingsGrow
    BY <1>4, AcceptInv, RegisterInv, StartRegisteredInv, EndStartInv, ServeInv DEF HandlerStep
  <1> QED  BY <1>1, <1>2, <1>3, <1>4 DEF Next

(***************************************************************************)
(* The invariant of Start and of the handlers of greetings, whatever nodes *)
(* are started, stopped and reached in whatever order (Cluster.Start,      *)
(* handleConnection, addNode).                                             *)
(***************************************************************************)
THEOREM Invariance == Spec => []IInv
  BY InitInv, NextInv, PTL DEF Spec

\* Topologies, goroutines and connections have their types
THEOREM TypeCorrect == Spec => []TypeOK
  <1>1. ASSUME IInv
        PROVE  TypeOK
    <2>1. \A c \in Node, dc \in AllDc : Nodes(rings[c][dc]) \subseteq Entry
      BY <1>1, RingFacts, Facts DEF EntryOK
    <2>2. nodes \in [Node -> [Node -> Dc \cup {NoDc, Nil}]]
      BY <1>1, Facts DEF Topo, FiledOK, AllDc
    <2>3. ASSUME NEW c \in Node
          PROVE  /\ main[c].phase \in {"new", "locals", "seeds", "peers", "done", "failed"}
                 /\ main[c].step \in {"next", "greeting", "awaiting", "adding"}
                 /\ \A k \in DOMAIN main[c].reply : main[c].reply[k] \in PeerData
      BY <1>1, Facts DEF MainType
    <2>4. \A k \in Conn : conn[k].server \in {"none", "opening", "registering", "added",
                                              "starting", "serving", "reset"}
      BY <1>1, Facts DEF ConnType
    <2> QED  BY <1>1, <2>1, <2>2, <2>3, <2>4, Facts DEF TypeOK, AllDc
  <1> QED  BY <1>1, Invariance, PTL

(***************************************************************************)
(* Each ring is in the order of the tokens and has a node once, and        *)
(* GetNode finds exactly the nodes of the rings, though main and any       *)
(* number of handlers add to the topology (Topology.AddNode, refreshRing). *)
(***************************************************************************)
THEOREM TopologiesSound == Spec => []TopologySound
  <1>1. ASSUME IInv
        PROVE  TopologySound
    <2>1. ASSUME NEW c \in Node, NEW dc \in AllDc, NEW j \in DOMAIN rings[c][dc],
                 NEW k \in DOMAIN rings[c][dc], j < k
          PROVE  /\ rings[c][dc][j].token < rings[c][dc][k].token
                 /\ rings[c][dc][j].id # rings[c][dc][k].id
      <3>1. PICK r : r = rings[c][dc] /\ RingOK(c, dc, r)
        BY <1>1, Facts
      <3>2. DOMAIN r = 1..Len(r) /\ r[j].token < r[k].token /\ (r[j].id = r[k].id => j = k)
        BY <2>1, <3>1, RingFacts DEF RingOK, Sorted
      <3>3. j \in Int /\ j # k
        BY <2>1, <3>1, <3>2
      <3> QED  BY <3>1, <3>2, <3>3
    <2>2. ASSUME NEW c \in Node, NEW d \in Node
          PROVE  IF nodes[c][d] = Nil THEN \A dc \in AllDc : d \notin Ids(rings[c][dc])
                 ELSE d \in Ids(rings[c][nodes[c][d]])
      BY <1>1, Facts DEF Topo, FiledOK
    <2> QED  BY <2>1, <2>2 DEF TopologySound, AllDc
  <1> QED  BY <1>1, Invariance, PTL

(***************************************************************************)
(* What nodes believe of each other is true, however often it was repeated *)
(* (getConnection, handleConnection, getPeerData, discoverPeers).          *)
(***************************************************************************)
THEOREM InformationTrue == Spec => []InfoTrue
  <1>1. ASSUME IInv
        PROVE  InfoTrue
    <2> SUFFICES ASSUME NEW c \in Node, NEW dc \in AllDc, NEW e \in Nodes(rings[c][dc])
                 PROVE  /\ e.token = TokenOf[e.id]
                        /\ e.addr \in {e.id, Nil}
                        /\ {e.dcId, dc} \subseteq {DcOf[e.id], NoDc}
      BY DEF InfoTrue, AllDc
    <2>1. EntryOK(c, dc, e)
      BY <1>1, RingFacts, Facts
    <2> QED  BY <2>1 DEF EntryOK
  <1> QED  BY <1>1, Invariance, PTL

(***************************************************************************)
(* A node that another has up was greeted by it, and has registered it     *)
(* (handleConnection, addNode): nobody is known on one side only.          *)
(***************************************************************************)
THEOREM KnownMutually == Spec => []Mutual
  <1>1. ASSUME IInv
        PROVE  Mutual
    <2> SUFFICES ASSUME \A k \in Conn : conn[k].server \in {"none", "serving", "reset"},
                        NEW c \in Node, NEW dc \in AllDc, NEW e \in Nodes(rings[c][dc]),
                        e.via # "local", e.status = "UP"
                 PROVE  c \in Ids(rings[e.id][DcOf[c]])
      BY DEF Mutual, AllDc
    <2>1. EntryOK(c, dc, e)
      BY <1>1, RingFacts, Facts
    <2>2. PICK k \in Conn : k = <<c, e.id, e.via>>
      BY <2>1, InConn DEF EntryOK
    <2>3. conn[k].ready
      BY <1>1, <2>2, Facts DEF Topo, UpReady
    <2>4. ConnOK(k, conn[k], rings[k[2]]) /\ k[1] = c /\ k[2] = e.id
      BY <1>1, <2>2, Facts
    <2>5. conn[k].server = "serving"
      BY <2>3, <2>4 DEF ConnOK
    <2> QED  BY <2>4, <2>5 DEF ConnOK
  <1> QED  BY <1>1, Invariance, PTL
-----------------------------------------------------------------------------
(* The replicas of a token. *)

\* Where a node is in its ring depends on the nodes that are in it only
LEMMA RankIs ==
    ASSUME NEW c, NEW dc, NEW r, RingOK(c, dc, r), NEW k \in DOMAIN r
    PROVE  k = Cardinality({x \in Ids(r) : TokenOf[x] <= TokenOf[r[k].id]})
  <1>1. DOMAIN r = 1..Len(r) /\ Len(r) \in Nat /\ k \in Nat
    BY RingFacts
  <1>2. \A j \in DOMAIN r : r[j].token = TokenOf[r[j].id] /\ r[j].token \in Nat
    BY EntryFacts DEF RingOK
  <1>3. \A j \in DOMAIN r : r[j].token <= r[k].token <=> j <= k
    BY <1>1, <1>2 DEF RingOK, Sorted
  <1>4. PICK T : T = {x \in Ids(r) : TokenOf[x] <= TokenOf[r[k].id]}
    OBVIOUS
  <1>5. PICK S : S = 1..k
    OBVIOUS
  <1>6. IsFiniteSet(S) /\ Cardinality(S) = k
    BY <1>1, <1>5, FS_Interval
  <1>7. PICK f : f = [j \in S |-> r[j].id]
    OBVIOUS
  <1>8. \A j \in S : j \in DOMAIN r /\ f[j] = r[j].id /\ f[j] \in T
    <2> TAKE j \in S
    <2>1. j \in DOMAIN r /\ j <= k /\ f[j] = r[j].id
      BY <1>1, <1>5, <1>7
    <2>2. r[j].id \in Ids(r)
      BY <2>1, IdsIs
    <2> QED  BY <1>2, <1>3, <1>4, <2>1, <2>2
  <1>9. \A x \in T : \E j \in S : f[j] = x
    <2> TAKE x \in T
    <2>1. x \in Ids(r) /\ TokenOf[x] <= TokenOf[r[k].id]
      BY <1>4
    <2>2. PICK j \in DOMAIN r : r[j].id = x
      BY <2>1, IdsIs
    <2>3. j \in S
      BY <1>1, <1>2, <1>3, <1>5, <2>1, <2>2
    <2> QED  BY <1>7, <2>2, <2>3
  <1>10. f \in Surjection(S, T)
    BY <1>7, <1>8, <1>9 DEF Surjection
  <1>11. f \in Injection(S, T)
    <2>1. \A i, j \in S : f[i] = f[j] => i = j
      BY <1>8, RingFacts
    <2> QED  BY <1>7, <1>8, <2>1 DEF Injection, IsInjective
  <1>12. Cardinality(T) = Cardinality(S)
    BY <1>6, <1>10, <1>11, FS_Surjection
  <1> QED  BY <1>4, <1>6, <1>12

LEMMA SameOrderOfIds ==
    ASSUME NEW c, NEW d, NEW dc, NEW r, NEW s, RingOK(c, dc, r), RingOK(d, dc, s), Ids(r) = Ids(s)
    PROVE  Len(r) = Len(s) /\ \A k \in DOMAIN r : k \in DOMAIN s /\ r[k].id = s[k].id
  <1>1. ASSUME NEW a, NEW b, NEW u, NEW v, RingOK(a, dc, u), RingOK(b, dc, v), Ids(u) = Ids(v),
               NEW k \in DOMAIN u
        PROVE  k \in DOMAIN v /\ u[k].id = v[k].id
    <2>1. PICK l \in DOMAIN v : v[l].id = u[k].id
      <3>1. u[k].id \in Ids(u)
        BY <1>1, IdsIs
      <3>2. u[k].id \in Ids(v)
        BY <1>1, <3>1
      <3> QED  BY <3>2, IdsIs
    <2>2. k = Cardinality({x \in Ids(u) : TokenOf[x] <= TokenOf[u[k].id]})
      BY <1>1, RankIs
    <2>3. l = Cardinality({x \in Ids(v) : TokenOf[x] <= TokenOf[v[l].id]})
      BY <1>1, RankIs
    <2>4. k = l
      BY <1>1, <2>1, <2>2, <2>3
    <2> QED  BY <2>1, <2>4
  <1>2. \A k \in DOMAIN r : k \in DOMAIN s /\ r[k].id = s[k].id
    BY <1>1
  <1>3. \A k \in DOMAIN s : k \in DOMAIN r
    BY <1>1
  <1>4. DOMAIN r = 1..Len(r) /\ DOMAIN s = 1..Len(s) /\ Len(r) \in Nat /\ Len(s) \in Nat
    BY RingFacts
  <1>5. Len(r) = Len(s)
    <2>1. PICK m \in Nat, n \in Nat : m = Len(r) /\ n = Len(s)
      BY <1>4
    <2>2. \A k \in 1..m : k \in 1..n
      BY <1>2, <1>4, <2>1
    <2>3. \A k \in 1..n : k \in 1..m
      BY <1>3, <1>4, <2>1
    <2>4. m <= n
      BY <2>2
    <2>5. n <= m
      BY <2>3
    <2> QED  BY <2>1, <2>4, <2>5
  <1> QED  BY <1>2, <1>5

\* sort.Search finds the border between the tokens below t and the others
LEMMA SearchIs ==
    ASSUME NEW c, NEW dc, NEW r, RingOK(c, dc, r), NEW t \in Nat, NEW q, q = Search(r, t)
    PROVE  q \in 0..Len(r) /\ \A k \in DOMAIN r : k <= q <=> r[k].token < t
  <1>1. PICK n \in Nat : n = Len(r) /\ DOMAIN r = 1..n
    BY RingFacts
  <1>2. \A k \in 1..n : r[k].token \in Nat
    BY <1>1, EntryFacts DEF RingOK
  <1>3. PICK U : U = {k \in 1..n : ~(r[k].token < t)}
    OBVIOUS
  <1>4. \E u \in 1..(n + 1) : \A k \in 1..n : k < u <=> r[k].token < t
    <2>1. CASE U = {}
      <3>1. \A k \in 1..n : r[k].token < t /\ k < n + 1
        BY <1>3, <2>1
      <3> QED  BY <3>1
    <2>2. CASE U # {}
      <3>1. U \subseteq Nat
        BY <1>3
      <3>2. PICK u \in U : \A v \in U : u <= v
        BY <2>2, <3>1, SmallestExists
      <3>3. u \in 1..n /\ ~(r[u].token < t)
        BY <1>3, <3>2
      <3>4. ASSUME NEW k \in 1..n
            PROVE  k < u <=> r[k].token < t
        <4>1. CASE k < u
          BY <1>3, <3>2, <3>3, <4>1
        <4>2. CASE k = u
          BY <3>3, <4>2
        <4>3. CASE k > u
          <5>1. r[u].token < r[k].token
            BY <1>1, <3>3, <4>3 DEF RingOK, Sorted
          <5> QED  BY <1>2, <3>3, <4>3, <5>1
        <4> QED  BY <3>3, <4>1, <4>2, <4>3
      <3> QED  BY <3>3, <3>4
    <2> QED  BY <2>1, <2>2
  <1>5. PICK u \in 1..(n + 1) : \A k \in 1..n : k < u <=> r[k].token < t
    BY <1>4
  <1>6. {k \in DOMAIN r : r[k].token < t} = 1..(u - 1)
    BY <1>1, <1>5
  <1>7. q = u - 1
    <2>1. PICK b \in Int : b = u - 1 /\ b >= 0
      OBVIOUS
    <2>2. Cardinality(1..b) = b
      BY <2>1, FS_Interval
    <2> QED  BY <1>6, <2>1, <2>2 DEF Search
  <1> QED  BY <1>1, <1>5, <1>7

\* The place of the i-th node after the border q of a ring of n
Turn(n, q, i) == ((q + i - 1) % n) + 1

LEMMA TurnIs ==
    ASSUME NEW n \in Nat, NEW q \in 0..n, NEW i \in 1..n
    PROVE  Turn(n, q, i) \in 1..n /\ Turn(n, q, i) = IF q + i <= n THEN q + i ELSE q + i - n
  <1>1. n # 0 /\ n \in Nat \ {0}
    OBVIOUS
  <1>2. ((q + i - 1) % n) + 1 = IF q + i <= n THEN q + i ELSE q + i - n
    BY <1>1
  <1> QED  BY <1>2 DEF Turn

\* g are the m replicas of t in the ring r of n, with the border q
Replicas(r, t, factor, g, n, q, m) ==
    /\ n \in Nat /\ n = Len(r) /\ DOMAIN r = 1..n /\ q \in 0..n /\ q = Search(r, t)
    /\ m \in Nat /\ m = IF n < factor THEN n ELSE factor
    /\ g = [i \in 1..m |-> r[Turn(n, q, i)]]
    /\ g \in Seq(Entry) /\ Len(g) = m /\ DOMAIN g = 1..m
    /\ \A i \in 1..m : i \in 1..n

LEMMA ReplicasAre ==
    ASSUME NEW c, NEW dc, NEW r, RingOK(c, dc, r), NEW t \in Nat, NEW factor \in Nat,
           NEW g, g = GetNodesForToken(r, t, factor)
    PROVE  \E n, q, m : Replicas(r, t, factor, g, n, q, m)
  <1>1. DOMAIN r = 1..Len(r) /\ Len(r) \in Nat /\ r \in Seq(Entry)
    BY RingFacts DEF RingOK
  <1>2. PICK n \in Nat : n = Len(r)
    BY <1>1
  <1>3. PICK m \in Nat : m = (IF n < factor THEN n ELSE factor) /\ m <= n
    OBVIOUS
  <1>4. PICK q \in 0..n : q = Search(r, t)
    BY <1>2, SearchIs
  <1>5. g = [i \in 1..m |-> r[Turn(n, q, i)]]
    BY <1>2, <1>3, <1>4 DEF GetNodesForToken, Turn
  <1>6. \A i \in 1..m : Turn(n, q, i) \in 1..n
    <2> TAKE i \in 1..m
    <2>1. i \in 1..n
      BY <1>3
    <2> QED  BY <2>1, TurnIs
  <1>7. \A i \in 1..m : r[Turn(n, q, i)] \in Entry
    BY <1>1, <1>2, <1>6
  <1>8. g \in Seq(Entry) /\ Len(g) = m /\ DOMAIN g = 1..m
    BY <1>3, <1>5, <1>7
  <1>9. \A i \in 1..m : i \in 1..n
    BY <1>3
  <1> QED  BY <1>1, <1>2, <1>3, <1>4, <1>5, <1>8, <1>9 DEF Replicas

(***************************************************************************)
(* Nodes that know the same members route every token alike, for any       *)
(* number of nodes and any replication factor (GetNodesForToken): a ring   *)
(* is the one sequence of its nodes that is in the order of the tokens.    *)
(***************************************************************************)
THEOREM RoutesAreTheSame == Spec => []RoutesAgree
  <1>1. ASSUME IInv
        PROVE  RoutesAgree
    <2> SUFFICES ASSUME NEW c \in Node, NEW d \in Node, NEW dc \in Dc,
                        Ids(rings[c][dc]) = Ids(rings[d][dc]), NEW t \in KeyToken
                 PROVE  IdsOf(GetNodesForToken(rings[c][dc], t, replicationFactor))
                      = IdsOf(GetNodesForToken(rings[d][dc], t, replicationFactor))
      BY DEF RoutesAgree
    <2>1. PICK r : r = rings[c][dc] /\ RingOK(c, dc, r)
      BY <1>1, Facts DEF AllDc
    <2>2. PICK s : s = rings[d][dc] /\ RingOK(d, dc, s)
      BY <1>1, Facts DEF AllDc
    <2>3. Len(r) = Len(s) /\ \A k \in DOMAIN r : k \in DOMAIN s /\ r[k].id = s[k].id
      BY <2>1, <2>2, SameOrderOfIds
    <2>4. t \in Nat /\ replicationFactor \in Nat
      BY MembershipAssumption DEF KeyToken
    <2>5. PICK g, h : /\ g = GetNodesForToken(r, t, replicationFactor)
                      /\ h = GetNodesForToken(s, t, replicationFactor)
      OBVIOUS
    <2>6. PICK n, q, m : Replicas(r, t, replicationFactor, g, n, q, m)
      BY <2>1, <2>4, <2>5, ReplicasAre
    <2>7. PICK n2, q2, m2 : Replicas(s, t, replicationFactor, h, n2, q2, m2)
      BY <2>2, <2>4, <2>5, ReplicasAre
    <2>8. n = n2 /\ m = m2 /\ DOMAIN r = 1..n /\ DOMAIN s = 1..n
      BY <2>3, <2>6, <2>7 DEF Replicas
    <2>9. q = q2
      <3>1. \A k \in DOMAIN r : r[k].token = TokenOf[r[k].id]
        BY <2>1, EntryFacts DEF RingOK
      <3>2. \A k \in DOMAIN s : s[k].token = TokenOf[s[k].id]
        BY <2>2, EntryFacts DEF RingOK
      <3>3. DOMAIN r = DOMAIN s /\ \A k \in DOMAIN r : r[k].token = s[k].token
        BY <2>3, <2>8, <3>1, <3>2
      <3>4. {k \in DOMAIN r : r[k].token < t} = {k \in DOMAIN s : s[k].token < t}
        BY <3>3
      <3> QED  BY <2>6, <2>7, <3>4 DEF Search, Replicas
    <2>10. \A i \in 1..m : g[i].id = h[i].id
      <3> TAKE i \in 1..m
      <3>1. n \in Nat /\ q \in 0..n /\ i \in 1..n
        BY <2>6 DEF Replicas
      <3>2. PICK x \in 1..n : x = Turn(n, q, i)
        BY <3>1, TurnIs
      <3>3. g[i] = r[x] /\ h[i] = s[x]
        BY <2>6, <2>7, <2>8, <2>9, <3>2 DEF Replicas
      <3> QED  BY <2>3, <2>8, <3>2, <3>3
    <2>11. DOMAIN g = 1..m /\ DOMAIN h = 1..m
      BY <2>6, <2>7, <2>8 DEF Replicas
    <2>12. IdsOf(g) = IdsOf(h)
      BY <2>10, <2>11 DEF IdsOf
    <2> QED  BY <2>1, <2>2, <2>5, <2>12
  <1> QED  BY <1>1, Invariance, PTL

\* How far up the circle of tokens the node x is from t
Distance(x, t) == (TokenOf[x] - t) % TokenSpace

LEMMA DistanceIs ==
    ASSUME NEW x \in Node, NEW t \in KeyToken
    PROVE  /\ Distance(x, t) \in Nat /\ TokenOf[x] \in 0..(TokenSpace - 1) /\ TokenSpace \in Nat \ {0}
           /\ Distance(x, t) = IF TokenOf[x] < t THEN TokenOf[x] - t + TokenSpace ELSE TokenOf[x] - t
  <1>1. TokenSpace \in Int /\ TokenOf[x] \in 0..(TokenSpace - 1)
    BY MembershipAssumption
  <1>2. PICK n : n = TokenSpace
    OBVIOUS
  <1>3. n \in Nat \ {0} /\ TokenOf[x] \in 0..(n - 1) /\ t \in 0..(n - 1)
    BY <1>1, <1>2 DEF KeyToken
  <1>4. PICK v \in 0..(n - 1) : v = TokenOf[x]
    BY <1>3
  <1>5. (v - t) % n = IF v < t THEN v - t + n ELSE v - t
    <2>1. CASE v < t
      <3>1. PICK a \in 0..(n - 1) : a = v - t + n
        BY <1>3, <2>1
      <3>2. v - t = a - n
        BY <1>3, <3>1
      <3>3. (a - n) % n = a
        BY <1>3
      <3> QED  BY <2>1, <3>1, <3>2, <3>3
    <2>2. CASE ~(v < t)
      <3>1. PICK a \in 0..(n - 1) : a = v - t
        BY <1>3, <2>2
      <3>2. a % n = a
        BY <1>3
      <3> QED  BY <2>2, <3>1, <3>2
    <2> QED  BY <2>1, <2>2
  <1> QED  BY <1>2, <1>3, <1>4, <1>5 DEF Distance

\* The walk up the circle goes away from the token, and meets every node
LEMMA WalkGoesUp ==
    ASSUME NEW c, NEW dc, NEW r, RingOK(c, dc, r), NEW t \in KeyToken,
           NEW n \in Nat, n = Len(r), NEW q \in 0..n, q = Search(r, t),
           NEW i \in 1..n, NEW j \in 1..n, i < j
    PROVE  Distance(r[Turn(n, q, i)].id, t) < Distance(r[Turn(n, q, j)].id, t)
  <1>1. DOMAIN r = 1..n /\ t \in Nat
    BY RingFacts, MembershipAssumption DEF KeyToken
  <1>2. \A k \in DOMAIN r : k <= q <=> r[k].token < t
    BY <1>1, SearchIs
  <1>3. PICK x \in 1..n : x = Turn(n, q, i) /\ x = IF q + i <= n THEN q + i ELSE q + i - n
    BY TurnIs
  <1>4. PICK y \in 1..n : y = Turn(n, q, j) /\ y = IF q + j <= n THEN q + j ELSE q + j - n
    BY TurnIs
  <1>5. \A k \in 1..n : r[k].id \in Node /\ r[k].token = TokenOf[r[k].id]
    BY <1>1, EntryFacts DEF RingOK
  <1>6. PICK T \in Nat : T = TokenSpace
    BY MembershipAssumption
  <1>7. PICK u \in 0..(T - 1) : /\ u = r[x].token /\ u = TokenOf[r[x].id]
                                /\ Distance(r[x].id, t) = IF u < t THEN u - t + T ELSE u - t
    BY <1>5, <1>6, DistanceIs
  <1>8. PICK v \in 0..(T - 1) : /\ v = r[y].token /\ v = TokenOf[r[y].id]
                                /\ Distance(r[y].id, t) = IF v < t THEN v - t + T ELSE v - t
    BY <1>5, <1>6, DistanceIs
  <1>9. (x <= q <=> u < t) /\ (y <= q <=> v < t)
    BY <1>1, <1>2, <1>7, <1>8
  <1>10. x < y => u < v
    BY <1>1, <1>7, <1>8 DEF RingOK, Sorted
  <1>11. (x <= q <=> q + i > n) /\ (y <= q <=> q + j > n)
    BY <1>3, <1>4
  <1>12. (IF u < t THEN u - t + T ELSE u - t) < (IF v < t THEN v - t + T ELSE v - t)
    <2>1. CASE q + j <= n
      <3>1. x < y /\ ~(x <= q) /\ ~(y <= q)
        BY <1>3, <1>4, <2>1
      <3>2. u < v /\ ~(u < t) /\ ~(v < t)
        BY <1>9, <1>10, <3>1
      <3> QED  BY <1>1, <3>2
    <2>2. CASE q + i > n
      <3>1. x < y /\ x <= q /\ y <= q
        BY <1>3, <1>4, <2>2
      <3>2. u < v /\ u < t /\ v < t
        BY <1>9, <1>10, <3>1
      <3> QED  BY <1>1, <3>2
    <2>3. CASE q + i <= n /\ q + j > n
      <3>1. ~(u < t) /\ v < t
        BY <1>3, <1>4, <1>9, <1>11, <2>3
      <3> QED  BY <1>1, <3>1
    <2> QED  BY <2>1, <2>2, <2>3
  <1> QED  BY <1>3, <1>4, <1>7, <1>8, <1>12

LEMMA WalkMeetsAll ==
    ASSUME NEW n \in Nat, NEW q \in 0..n, NEW x \in 1..n
    PROVE  \E i \in 1..n : Turn(n, q, i) = x
  <1>1. PICK i \in 1..n : i = IF x > q THEN x - q ELSE x + n - q
    <2>1. CASE x > q
      <3>1. x - q \in 1..n
        BY <2>1
      <3> QED  BY <2>1, <3>1
    <2>2. CASE ~(x > q)
      <3>1. x + n - q \in 1..n
        BY <2>2
      <3> QED  BY <2>2, <3>1
    <2> QED  BY <2>1, <2>2
  <1>2. Turn(n, q, i) = IF q + i <= n THEN q + i ELSE q + i - n
    BY TurnIs
  <1>3. Turn(n, q, i) = x
    BY <1>1, <1>2
  <1> QED  BY <1>3

\* The replicas are the nearest nodes, each once, in the order of their distance
LEMMA ReplicasFacts ==
    ASSUME NEW c, NEW dc, NEW r, RingOK(c, dc, r), NEW t \in KeyToken, NEW factor \in Nat,
           NEW g, g = GetNodesForToken(r, t, factor), NEW n, NEW q, NEW m,
           Replicas(r, t, factor, g, n, q, m)
    PROVE  /\ Nodes(g) \subseteq Nodes(r) /\ (m = n => Nodes(g) = Nodes(r))
           /\ \A e \in Nodes(g), f \in Nodes(r) \ Nodes(g) : Distance(e.id, t) < Distance(f.id, t)
           /\ \A i, j \in DOMAIN g : i < j => Distance(g[i].id, t) < Distance(g[j].id, t)
           /\ \A i, j \in DOMAIN g : i # j => g[i].id # g[j].id
  <1>1. /\ n \in Nat /\ n = Len(r) /\ q \in 0..n /\ q = Search(r, t) /\ m \in Nat /\ DOMAIN r = 1..n
        /\ DOMAIN g = 1..m /\ \A i \in 1..m : i \in 1..n /\ g[i] = r[Turn(n, q, i)]
    BY DEF Replicas
  <1>2. \A i \in 1..n : r[Turn(n, q, i)] \in Nodes(r)
    BY <1>1, TurnIs DEF Nodes
  <1>3. Nodes(g) \subseteq Nodes(r)
    BY <1>1, <1>2 DEF Nodes
  <1>4. \A i, j \in 1..n : i < j => Distance(r[Turn(n, q, i)].id, t) < Distance(r[Turn(n, q, j)].id, t)
    BY <1>1, WalkGoesUp
  <1>5. \A i, j \in DOMAIN g : i < j => Distance(g[i].id, t) < Distance(g[j].id, t)
    BY <1>1, <1>4
  <1>6. ASSUME NEW f \in Nodes(r) \ Nodes(g)
        PROVE  \E j \in 1..n : j > m /\ f = r[Turn(n, q, j)]
    <2>1. PICK x \in 1..n : f = r[x]
      BY <1>1 DEF Nodes
    <2>2. PICK j \in 1..n : Turn(n, q, j) = x
      BY <1>1, WalkMeetsAll
    <2>3. j \notin 1..m
      BY <1>1, <1>6, <2>1, <2>2 DEF Nodes
    <2>4. j > m
      BY <1>1, <2>3
    <2> QED  BY <2>1, <2>2, <2>4
  <1>7. m = n => Nodes(g) = Nodes(r)
    <2> SUFFICES ASSUME m = n, NEW f \in Nodes(r) \ Nodes(g)
                 PROVE  FALSE
      BY <1>3
    <2>1. PICK j \in 1..n : j > m
      BY <1>6
    <2> QED  BY <1>1, <2>1
  <1>8. ASSUME NEW e \in Nodes(g), NEW f \in Nodes(r) \ Nodes(g)
        PROVE  Distance(e.id, t) < Distance(f.id, t)
    <2>1. PICK i \in 1..m : e = g[i]
      BY <1>1 DEF Nodes
    <2>2. PICK j \in 1..n : j > m /\ f = r[Turn(n, q, j)]
      BY <1>6
    <2>3. i \in 1..n /\ i < j /\ e = r[Turn(n, q, i)]
      BY <1>1, <2>1, <2>2
    <2> QED  BY <1>4, <2>2, <2>3
  <1>9. \A i, j \in DOMAIN g : i # j => g[i].id # g[j].id
    <2> TAKE i, j \in DOMAIN g
    <2>1. \A k \in 1..m : Distance(g[k].id, t) \in Nat
      <3> TAKE k \in 1..m
      <3>1. PICK x \in DOMAIN r : g[k] = r[x]
        BY <1>1, TurnIs
      <3>2. g[k].id \in Node
        BY <3>1, EntryFacts DEF RingOK
      <3> QED  BY <3>2, DistanceIs
    <2>2. i \in Nat /\ j \in Nat /\ Distance(g[i].id, t) \in Nat /\ Distance(g[j].id, t) \in Nat
      BY <1>1, <2>1
    <2>3. CASE i < j
      BY <1>5, <2>2, <2>3
    <2>4. CASE j < i
      BY <1>5, <2>2, <2>4
    <2> QED  BY <2>2, <2>3, <2>4
  <1> QED  BY <1>3, <1>5, <1>7, <1>8, <1>9

LEMMA IntervalSize ==
    ASSUME NEW m \in Nat
    PROVE  IsFiniteSet(1..m) /\ Cardinality(1..m) = m
  BY FS_Interval

LEMMA CountOnce ==
    ASSUME NEW m \in Nat, NEW f, f = [i \in 1..m |-> f[i]], \A i, j \in 1..m : i # j => f[i] # f[j],
           NEW T, T = {f[i] : i \in 1..m}
    PROVE  IsFiniteSet(T) /\ Cardinality(T) = m
  <1>1. PICK S : S = 1..m
    OBVIOUS
  <1>2. IsFiniteSet(S) /\ Cardinality(S) = m
    BY <1>1, IntervalSize
  <1>3. f \in Surjection(S, T)
    BY <1>1 DEF Surjection
  <1>4. f \in Injection(S, T)
    BY <1>1 DEF Injection, IsInjective
  <1> QED  BY <1>2, <1>3, <1>4, FS_Surjection

(***************************************************************************)
(* The replicas of a token are the nodes nearest to it up the circle, each *)
(* once, as many as the factor or the ring allows, for any ring that Start *)
(* and the handlers build (GetNodesForToken, sort.Search).                 *)
(***************************************************************************)
THEOREM ReplicasAreNearest == Spec => []ReplicasNearest
  <1>1. ASSUME IInv, NEW c \in Node, NEW dc \in Dc, NEW t \in KeyToken,
               NEW r, r = rings[c][dc], NEW g, g = GetNodesForToken(r, t, replicationFactor)
        PROVE  /\ Cardinality(Nodes(g)) = Len(g)
               /\ Len(g) = replicationFactor \/ Nodes(g) = Nodes(r)
               /\ \A e \in Nodes(g), f \in Nodes(r) \ Nodes(g) :
                     (e.token - t) % TokenSpace < (f.token - t) % TokenSpace
               /\ \A j, k \in DOMAIN g :
                     j < k => (g[j].token - t) % TokenSpace < (g[k].token - t) % TokenSpace
    <2>1. RingOK(c, dc, r)
      BY <1>1, Facts DEF AllDc
    <2>2. t \in Nat /\ replicationFactor \in Nat
      BY MembershipAssumption DEF KeyToken
    <2>3. PICK n, q, m : Replicas(r, t, replicationFactor, g, n, q, m)
      BY <1>1, <2>1, <2>2, ReplicasAre
    <2>4. /\ Nodes(g) \subseteq Nodes(r) /\ (m = n => Nodes(g) = Nodes(r))
          /\ \A e \in Nodes(g), f \in Nodes(r) \ Nodes(g) : Distance(e.id, t) < Distance(f.id, t)
          /\ \A i, j \in DOMAIN g : i < j => Distance(g[i].id, t) < Distance(g[j].id, t)
          /\ \A i, j \in DOMAIN g : i # j => g[i].id # g[j].id
      BY <1>1, <2>1, <2>2, <2>3, ReplicasFacts
    <2>5. /\ m \in Nat /\ DOMAIN g = 1..m /\ Len(g) = m /\ (m = n \/ m = replicationFactor)
          /\ g \in Seq(Entry)
      BY <2>3 DEF Replicas
    <2>6. \A e \in Nodes(r) : e.token = TokenOf[e.id]
      BY <2>1, RingFacts, EntryFacts
    <2>7. Cardinality(Nodes(g)) = m
      <3>1. Nodes(g) = {g[i] : i \in 1..m} /\ g = [i \in 1..m |-> g[i]]
        BY <2>5 DEF Nodes
      <3>2. \A i, j \in 1..m : i # j => g[i] # g[j]
        BY <2>4, <2>5
      <3> QED  BY <2>5, <3>1, <3>2, CountOnce
    <2>8. \A e \in Nodes(g), f \in Nodes(r) \ Nodes(g) :
             (e.token - t) % TokenSpace < (f.token - t) % TokenSpace
      BY <2>4, <2>6 DEF Distance
    <2>9. \A j, k \in DOMAIN g :
             j < k => (g[j].token - t) % TokenSpace < (g[k].token - t) % TokenSpace
      <3>1. \A k \in DOMAIN g : g[k].token = TokenOf[g[k].id]
        BY <2>4, <2>6 DEF Nodes
      <3> QED  BY <2>4, <3>1 DEF Distance
    <2> QED  BY <2>4, <2>5, <2>7, <2>8, <2>9
  <1>2. ASSUME IInv
        PROVE  ReplicasNearest
    BY <1>1, <1>2 DEF ReplicasNearest
  <1> QED  BY <1>2, Invariance, PTL

\* R are the nodes of N nearest to t, as many as factor or as there are
Nearest(N, R, t, factor) ==
    /\ IsFiniteSet(N) /\ R \subseteq N
    /\ Cardinality(R) = IF Cardinality(N) < factor THEN Cardinality(N) ELSE factor
    /\ \A x \in R, y \in N \ R : Distance(x, t) < Distance(y, t)

LEMMA ReplicasNearestIds ==
    ASSUME NEW c, NEW dc, NEW r, RingOK(c, dc, r), NEW t \in KeyToken, NEW factor \in Nat
    PROVE  Nearest(Ids(r), Ids(GetNodesForToken(r, t, factor)), t, factor)
  <1>1. PICK g : g = GetNodesForToken(r, t, factor)
    OBVIOUS
  <1>2. t \in Nat
    BY MembershipAssumption DEF KeyToken
  <1>3. PICK n, q, m : Replicas(r, t, factor, g, n, q, m)
    BY <1>1, <1>2, ReplicasAre
  <1>4. /\ Nodes(g) \subseteq Nodes(r)
        /\ \A e \in Nodes(g), f \in Nodes(r) \ Nodes(g) : Distance(e.id, t) < Distance(f.id, t)
        /\ \A i, j \in DOMAIN g : i # j => g[i].id # g[j].id
    BY <1>1, <1>3, ReplicasFacts
  <1>5. /\ m \in Nat /\ DOMAIN g = 1..m /\ n \in Nat /\ DOMAIN r = 1..n
        /\ m = IF n < factor THEN n ELSE factor
    BY <1>3 DEF Replicas
  <1>6. IsFiniteSet(Ids(g)) /\ Cardinality(Ids(g)) = m
    <2>1. PICK f : f = [i \in 1..m |-> g[i].id]
      OBVIOUS
    <2>2. f = [i \in 1..m |-> f[i]] /\ \A i, j \in 1..m : i # j => f[i] # f[j]
      BY <1>4, <1>5, <2>1
    <2>3. Ids(g) = {f[i] : i \in 1..m}
      BY <1>5, <2>1 DEF Ids, Nodes
    <2>4. m \in Nat
      BY <1>5
    <2> QED  BY <2>2, <2>3, <2>4, CountOnce
  <1>7. IsFiniteSet(Ids(r)) /\ Cardinality(Ids(r)) = n
    <2>1. PICK f : f = [i \in 1..n |-> r[i].id]
      OBVIOUS
    <2>2. f = [i \in 1..n |-> f[i]] /\ \A i, j \in 1..n : i # j => f[i] # f[j]
      BY <1>5, <2>1, RingFacts
    <2>3. Ids(r) = {f[i] : i \in 1..n}
      BY <1>5, <2>1 DEF Ids, Nodes
    <2> QED  BY <1>5, <2>2, <2>3, CountOnce
  <1>8. Ids(g) \subseteq Ids(r)
    BY <1>4 DEF Ids
  <1>9. ASSUME NEW x \in Ids(g), NEW y \in Ids(r) \ Ids(g)
        PROVE  Distance(x, t) < Distance(y, t)
    <2>1. PICK e \in Nodes(g) : e.id = x
      BY DEF Ids
    <2>2. PICK f \in Nodes(r) : f.id = y
      BY DEF Ids
    <2>3. f \notin Nodes(g)
      BY <1>9, <2>2 DEF Ids
    <2> QED  BY <1>4, <2>1, <2>2, <2>3
  <1> QED  BY <1>1, <1>5, <1>6, <1>7, <1>8, <1>9 DEF Nearest

\* Who joins takes replicas over and moves none between the others
MovesLittle(N, R, M, Q) ==
    Q \subseteq R \cup (M \ N) /\ Cardinality(R \ Q) <= Cardinality(M \ N)

LEMMA NearestStable ==
    ASSUME NEW t \in KeyToken, NEW factor \in Nat, NEW N, NEW R, NEW M, NEW Q, N \subseteq M, M \subseteq Node,
           Nearest(N, R, t, factor), Nearest(M, Q, t, factor)
    PROVE  MovesLittle(N, R, M, Q)
  <1>1. /\ IsFiniteSet(N) /\ IsFiniteSet(M) /\ IsFiniteSet(R) /\ IsFiniteSet(Q) /\ IsFiniteSet(M \ N)
        /\ R \subseteq N /\ Q \subseteq M
    BY FS_Subset DEF Nearest
  <1>2. \A x \in M : Distance(x, t) \in Nat
    BY DistanceIs
  <1>3. /\ Cardinality(N) \in Nat /\ Cardinality(M) \in Nat /\ Cardinality(R) \in Nat /\ Cardinality(Q) \in Nat
        /\ Cardinality(N) <= Cardinality(M)
    BY <1>1, FS_CardinalityType, FS_Subset
  <1>4. Cardinality(R) <= factor /\ Cardinality(Q) <= factor /\ Cardinality(R) <= Cardinality(Q)
        /\ (Cardinality(R) = factor \/ Cardinality(R) = Cardinality(N))
    BY <1>3 DEF Nearest
  <1>5. Q \subseteq R \cup (M \ N)
    <2> SUFFICES ASSUME NEW x \in Q, x \in N, x \notin R
                 PROVE  FALSE
      BY <1>1
    <2>1. R # N
      OBVIOUS
    <2>2. Cardinality(R) = factor
      BY <1>1, <1>4, <2>1, FS_Subset
    <2>3. \A y \in R : y \in Q
      <3> SUFFICES ASSUME NEW y \in R, y \notin Q
                   PROVE  FALSE
        OBVIOUS
      <3>1. Distance(y, t) < Distance(x, t)
        BY DEF Nearest
      <3>2. Distance(x, t) < Distance(y, t)
        BY <1>1 DEF Nearest
      <3>3. Distance(x, t) \in Nat /\ Distance(y, t) \in Nat
        BY <1>1, <1>2
      <3> QED  BY <3>1, <3>2, <3>3
    <2>4. R \subseteq Q /\ R # Q
      BY <2>3
    <2>5. Cardinality(R) # Cardinality(Q)
      BY <1>1, <2>4, FS_Subset
    <2> QED  BY <1>3, <1>4, <2>2, <2>5
  <1>6. Cardinality(R \ Q) <= Cardinality(M \ N)
    <2>1. PICK A : A = R \cap Q
      OBVIOUS
    <2>2. PICK B : B = R \ Q
      OBVIOUS
    <2>3. PICK C : C = Q \cap (M \ N)
      OBVIOUS
    <2>4. IsFiniteSet(A) /\ IsFiniteSet(B) /\ IsFiniteSet(C)
      BY <1>1, <2>1, <2>2, <2>3, FS_Subset
    <2>5. Cardinality(A) \in Nat /\ Cardinality(B) \in Nat /\ Cardinality(C) \in Nat
      BY <2>4, FS_CardinalityType
    <2>6. Cardinality(R) = Cardinality(A) + Cardinality(B)
      <3>1. R = A \cup B /\ A \cap B = {}
        BY <2>1, <2>2
      <3>2. Cardinality(A \cup B) = Cardinality(A) + Cardinality(B) - Cardinality(A \cap B)
        BY <2>4, FS_Union
      <3>3. Cardinality(A \cap B) = 0
        BY <3>1, FS_EmptySet
      <3> QED  BY <2>5, <3>1, <3>2, <3>3
    <2>7. Cardinality(Q) = Cardinality(A) + Cardinality(C)
      <3>1. Q = A \cup C /\ A \cap C = {}
        BY <1>1, <1>5, <2>1, <2>3
      <3>2. Cardinality(A \cup C) = Cardinality(A) + Cardinality(C) - Cardinality(A \cap C)
        BY <2>4, FS_Union
      <3>3. Cardinality(A \cap C) = 0
        BY <3>1, FS_EmptySet
      <3> QED  BY <2>5, <3>1, <3>2, <3>3
    <2>8. Cardinality(C) <= Cardinality(M \ N)
      BY <1>1, <2>3, FS_Subset
    <2>9. Cardinality(B) <= Cardinality(C)
      BY <1>4, <2>5, <2>6, <2>7
    <2>10. Cardinality(M \ N) \in Nat
      BY <1>1, FS_CardinalityType
    <2> QED  BY <2>2, <2>5, <2>8, <2>9, <2>10
  <1> QED  BY <1>5, <1>6 DEF MovesLittle

(***************************************************************************)
(* A node that joins takes replicas over and moves none between the        *)
(* others, whatever the replication factor (AddNode, GetNodesForToken): no *)
(* step takes a node out of a ring, and what is nearest among more nodes   *)
(* is nearest among fewer.                                                 *)
(***************************************************************************)
THEOREM ReplicasMoveLittle == Spec => ReplicasStable
  <1>1. ASSUME IInv, IInv', RingsGrow
        PROVE  \A c \in Node, dc \in Dc : rings'[c][dc] # rings[c][dc] =>
                 LET new == Ids(rings'[c][dc]) \ Ids(rings[c][dc])
                 IN  \A t \in KeyToken, factor \in 1..replicationFactor :
                        LET before == Ids(GetNodesForToken(rings[c][dc], t, factor))
                            after == Ids(GetNodesForToken(rings'[c][dc], t, factor))
                        IN  after \subseteq before \cup new /\ Cardinality(before \ after) <= Cardinality(new)
    <2>1. ASSUME NEW c \in Node, NEW dc \in Dc, NEW t \in KeyToken, NEW factor \in 1..replicationFactor
          PROVE  /\ Ids(GetNodesForToken(rings'[c][dc], t, factor)) \subseteq
                       Ids(GetNodesForToken(rings[c][dc], t, factor))
                         \cup (Ids(rings'[c][dc]) \ Ids(rings[c][dc]))
                 /\ Cardinality(Ids(GetNodesForToken(rings[c][dc], t, factor))
                                  \ Ids(GetNodesForToken(rings'[c][dc], t, factor)))
                      <= Cardinality(Ids(rings'[c][dc]) \ Ids(rings[c][dc]))
      <3>1. dc \in AllDc /\ factor \in Nat
        BY MembershipAssumption DEF AllDc
      <3>2. PICK r : r = rings[c][dc]
        OBVIOUS
      <3>3. PICK s : s = rings'[c][dc]
        OBVIOUS
      <3>4. RingOK(c, dc, r) /\ RingOK(c, dc, s)
        BY <1>1, <3>1, <3>2, <3>3 DEF IInv, RingsOK
      <3>5. Ids(r) \subseteq Ids(s)
        <4>1. \A a \in Nodes(r) : \E b \in Nodes(s) : b.id = a.id
          BY <1>1, <3>1, <3>2, <3>3 DEF RingsGrow
        <4> QED  BY <4>1 DEF Ids
      <3>6. PICK before : before = Ids(GetNodesForToken(r, t, factor))
        OBVIOUS
      <3>7. PICK after : after = Ids(GetNodesForToken(s, t, factor))
        OBVIOUS
      <3>8. Nearest(Ids(r), before, t, factor) /\ Nearest(Ids(s), after, t, factor)
        BY <3>1, <3>4, <3>6, <3>7, ReplicasNearestIds
      <3>9. Ids(s) \subseteq Node
        BY <3>4, RingFacts
      <3>10. /\ after \subseteq before \cup (Ids(s) \ Ids(r))
             /\ Cardinality(before \ after) <= Cardinality(Ids(s) \ Ids(r))
        <4>1. PICK N, M : N = Ids(r) /\ M = Ids(s)
          OBVIOUS
        <4>2. /\ factor \in Nat /\ N \subseteq M /\ M \subseteq Node
              /\ Nearest(N, before, t, factor) /\ Nearest(M, after, t, factor)
          BY <3>1, <3>5, <3>8, <3>9, <4>1
        <4>3. after \subseteq before \cup (M \ N) /\ Cardinality(before \ after) <= Cardinality(M \ N)
          <5>1. MovesLittle(N, before, M, after)
            BY <4>2, NearestStable
          <5> QED  BY <5>1 DEF MovesLittle
        <4> QED  BY <4>1, <4>3
      <3> QED  BY <3>2, <3>3, <3>6, <3>7, <3>10
    <2> QED  BY <2>1, Zenon
  <1>2. IInv /\ IInv' /\ [Next]_vars =>
           [\A c \in Node, dc \in Dc : rings'[c][dc] # rings[c][dc] =>
                 LET new == Ids(rings'[c][dc]) \ Ids(rings[c][dc])
                 IN  \A t \in KeyToken, factor \in 1..replicationFactor :
                        LET before == Ids(GetNodesForToken(rings[c][dc], t, factor))
                            after == Ids(GetNodesForToken(rings'[c][dc], t, factor))
                        IN  after \subseteq before \cup new /\ Cardinality(before \ after) <= Cardinality(new)]_rings
    BY <1>1, NextInv
  <1> QED  BY <1>2, Invariance, PTL DEF Spec, ReplicasStable
=============================================================================
