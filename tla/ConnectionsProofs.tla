------------------------- MODULE ConnectionsProofs -------------------------
(***************************************************************************)
(* For any number of goroutines and connections and any size of the pool,  *)
(* whatever connections break and whether or not the peer panics: the pool *)
(* is sound, requests and answers alternate on every connection, and a     *)
(* goroutine gets the answer to its own message.                           *)
(***************************************************************************)
EXTENDS Connections, SequenceTheorems, TLAPS

Accepted == [type |-> "ConnectionAccepted"]
AnswerTo(t) == [type |-> "Response", by |-> t, n |-> sends[t]]
Requests(t) == {RequestOf(t, type) : type \in {"Request", "Unexpected", "Unreachable"}}

\* Nothing is under way on connection x
Quiet(x) == x.up = <<>> /\ x.down = <<>>

\* One message of ms is under way to a server in state reading, or its answer a is on
\* the way back, or the peer has closed the connection and nothing will come
Exchanging(x, reading, ms, a) ==
    \/ x.server = reading /\ (\E m \in ms : x.up = <<m>>) /\ x.down = <<>>
    \/ x.server \in {"serving", "closed"} /\ x.up = <<>> /\ x.down = <<a>>
    \/ x.server = "closed" /\ Quiet(x)

\* The connection of goroutine t, at each place of SendMessage and Start
GoroutineOK(t) ==
    LET x == conn[holds[t]]
    IN  \/ pc[t] \in {"idle", "get", "lock"} /\ holds[t] = Nil
        \/ /\ holds[t] \in Conn
           /\ x.client = "open"
           /\ \/ pc[t] = "greet" /\ ~x.handshake /\ Quiet(x) /\ x.server \in {"opening", "closed"}
              \/ pc[t] = "greeted" /\ ~x.handshake /\ Exchanging(x, "opening", {Greeting}, Accepted)
              \/ pc[t] = "ready" /\ x.handshake /\ Quiet(x)
              \/ pc[t] = "await" /\ x.handshake /\ Exchanging(x, "serving", Requests(t), AnswerTo(t))

\* Messages are under way only on a connection some goroutine works with
ConnOK(c) ==
    /\ conn[c].client = "unused" => conn[c].server = "none" /\ ~conn[c].handshake
    /\ conn[c].handshake => conn[c].server \in {"serving", "closed"}
    /\ Quiet(conn[c]) \/ \E t \in Thread : holds[t] = c

\* A goroutine that has begun has counted its message
Counted == \A t \in Thread : pc[t] # "idle" => sends[t] > 0

IInv ==
    /\ TypeOK
    /\ PoolSound
    /\ OwnAnswer
    /\ Counted
    /\ \A t \in Thread : GoroutineOK(t)
    /\ \A c \in Conn : ConnOK(c)
-----------------------------------------------------------------------------
\* ReadMessage on a stream of one message leaves it empty
LEMMA ReadOne ==
    ASSUME NEW S, NEW m \in S
    PROVE  /\ AfterRead(<<m>>) = {<<>>}
           /\ Head(<<m>>) = m
           /\ <<m>> # <<>>
           /\ Append(<<>>, m) = <<m>>
           /\ <<m>> \in Seq(S)
  <1>1. <<m>> \in Seq(S) /\ Len(<<m>>) = 1 /\ Head(<<m>>) = m /\ Append(<<>>, m) = <<m>>
    OBVIOUS
  <1>2. SubSeq(<<m>>, 2, 1) = <<>>
    OBVIOUS
  <1>3. 2..(1 + 1) = {2}
    OBVIOUS
  <1>4. AfterRead(<<m>>) = {SubSeq(<<m>>, k, 1) : k \in {2}}
    BY <1>1, <1>3 DEF AfterRead
  <1> QED  BY <1>1, <1>2, <1>4

\* The messages of a goroutine that has counted its call
LEMMA MessageTypes ==
    ASSUME NEW t \in Thread, sends[t] \in 1..MaxSends
    PROVE  /\ Greeting \in Message
           /\ Accepted \in Message
           /\ AnswerTo(t) \in Message
           /\ Requests(t) \subseteq Message
           /\ \A m \in Requests(t) : [m EXCEPT !.type = "Response"] = AnswerTo(t)
  BY DEF Greeting, Accepted, AnswerTo, Requests, RequestOf, Message

-----------------------------------------------------------------------------
\* A goroutine whose connection is left alone is as it was
LEMMA GoroutineFrame ==
    ASSUME NEW t \in Thread, GoroutineOK(t),
           pc'[t] = pc[t], holds'[t] = holds[t], sends'[t] = sends[t],
           holds[t] \in Conn => conn'[holds[t]] = conn[holds[t]]
    PROVE  GoroutineOK(t)'
  BY DEF GoroutineOK, Exchanging, Quiet, Requests, RequestOf, AnswerTo, Greeting, Accepted

\* and so is a connection that nobody lets go
LEMMA ConnFrame ==
    ASSUME NEW c \in Conn, ConnOK(c), conn'[c] = conn[c],
           \A t \in Thread : holds[t] = c => holds'[t] = c
    PROVE  ConnOK(c)'
  BY DEF ConnOK, Quiet
-----------------------------------------------------------------------------
(***************************************************************************)
(* The server's side                                                       *)
(***************************************************************************)

\* What the peer may do to a connection, whoever works with it
ServerMoves(x, y) ==
    /\ y \in ConnType
    /\ y.client = x.client /\ y.handshake = x.handshake
    /\ x.server = "none" => y.server = "none"
    /\ x.server \in {"serving", "closed"} => y.server \in {"serving", "closed"}
    /\ Quiet(x) => Quiet(y) /\ y.server \in {x.server, "closed"}
    /\ Exchanging(x, "opening", {Greeting}, Accepted) =>
         Exchanging(y, "opening", {Greeting}, Accepted)
    /\ \A t \in Thread : sends[t] \in 1..MaxSends =>
         (Exchanging(x, "serving", Requests(t), AnswerTo(t)) =>
            Exchanging(y, "serving", Requests(t), AnswerTo(t)))

LEMMA MovesStutter ==
    ASSUME NEW x \in ConnType
    PROVE  ServerMoves(x, x)
  BY DEF ServerMoves

\* A connection that is lost to both ends
LEMMA MovesClosed ==
    ASSUME NEW x \in ConnType, NEW y \in ConnType,
           x.server # "none", y.server = "closed", y.up = <<>>, y.down \in {x.down, <<>>},
           y.client = x.client, y.handshake = x.handshake
    PROVE  ServerMoves(x, y)
  BY DEF ServerMoves, Exchanging, Quiet

\* handleConnection takes the greeting and accepts it
LEMMA MovesOpen ==
    ASSUME NEW x \in ConnType, NEW y \in ConnType,
           x.server = "opening", x.up = <<Greeting>>, x.down = <<>>,
           y.server = "serving", y.up = <<>>, y.down = <<Accepted>>,
           y.client = x.client, y.handshake = x.handshake
    PROVE  ServerMoves(x, y)
  BY DEF ServerMoves, Exchanging, Quiet

\* executeRequest answers a request
LEMMA MovesServe ==
    ASSUME NEW x \in ConnType, NEW y \in ConnType, NEW u \in Thread,
           NEW m \in Requests(u), sends[u] \in 1..MaxSends,
           x.server = "serving", x.up = <<m>>, x.down = <<>>,
           y.server = "serving", y.up = <<>>, y.down = <<[m EXCEPT !.type = "Response"]>>,
           y.client = x.client, y.handshake = x.handshake
    PROVE  ServerMoves(x, y)
  <1>1. ~Exchanging(x, "opening", {Greeting}, Accepted) /\ ~Quiet(x)
    BY DEF Exchanging, Quiet
  <1>2. ASSUME NEW t \in Thread, sends[t] \in 1..MaxSends,
               Exchanging(x, "serving", Requests(t), AnswerTo(t))
        PROVE  Exchanging(y, "serving", Requests(t), AnswerTo(t))
    <2>1. PICK n \in Requests(t) : x.up = <<n>>
      BY <1>2 DEF Exchanging
    <2>2. n = m
      BY <2>1
    <2>3. [m EXCEPT !.type = "Response"] = AnswerTo(t)
      BY <1>2, <2>2, MessageTypes
    <2> QED  BY <2>3 DEF Exchanging
  <1> QED  BY <1>1, <1>2 DEF ServerMoves

\* A step of the peer keeps the invariant
LEMMA ServerSide ==
    ASSUME IInv, conn' \in [Conn -> ConnType],
           \A c \in Conn : ServerMoves(conn[c], conn'[c]),
           peerUp' \in BOOLEAN,
           UNCHANGED <<pooled, pc, holds, calls, answer, status, panicked>>
    PROVE  IInv'
  <1>1. UNCHANGED <<pool, size, pc, job, sends, holds, answer, status, panicked>>
    BY DEF pooled, calls
  <1>2. TypeOK'
    BY <1>1 DEF IInv, TypeOK
  <1>3. PoolSound'
    <2>1. InPool' = InPool /\ InPool \subseteq Conn
      BY <1>1 DEF InPool, IInv, TypeOK
    <2>2. \A c \in InPool : conn'[c].client = conn[c].client /\ conn'[c].handshake = conn[c].handshake
      BY <2>1 DEF ServerMoves
    <2> QED  BY <1>1, <2>1, <2>2 DEF IInv, PoolSound
  <1>4. OwnAnswer' /\ Counted'
    BY <1>1 DEF IInv, OwnAnswer, Counted
  <1>5. ASSUME NEW t \in Thread
        PROVE  GoroutineOK(t)'
    <2> DEFINE x == conn[holds[t]]
               y == conn'[holds[t]]
    <2>1. GoroutineOK(t) /\ sends[t] \in 0..MaxSends /\ MaxSends \in Nat /\ Counted
      BY ConnectionAssumption DEF IInv, TypeOK
    <2>2. AnswerTo(t)' = AnswerTo(t) /\ Requests(t)' = Requests(t)
      BY <1>1 DEF AnswerTo, Requests, RequestOf
    <2>3. CASE holds[t] = Nil
      BY <1>1, <2>1, <2>3, ConnectionAssumption DEF GoroutineOK
    <2>4. CASE holds[t] \in Conn /\ holds[t] # Nil
      <3>1. ServerMoves(x, y) /\ x.client = "open" /\ pc[t] \in {"greet", "greeted", "ready", "await"}
        BY <2>1, <2>4 DEF GoroutineOK
      <3>2. sends[t] \in 1..MaxSends
        BY <2>1, <3>1 DEF Counted
      <3>3. Exchanging(x, "serving", Requests(t), AnswerTo(t)) =>
              Exchanging(y, "serving", Requests(t), AnswerTo(t))
        BY <3>1, <3>2 DEF ServerMoves
      <3>4. /\ y.client = x.client /\ y.handshake = x.handshake
            /\ Quiet(x) => Quiet(y) /\ y.server \in {x.server, "closed"}
            /\ Exchanging(x, "opening", {Greeting}, Accepted) =>
                 Exchanging(y, "opening", {Greeting}, Accepted)
        BY <3>1 DEF ServerMoves
      <3> QED  BY <1>1, <2>1, <2>2, <2>4, <3>1, <3>3, <3>4, ConnectionAssumption DEF GoroutineOK, Greeting, Accepted
    <2> QED  BY <2>1, <2>3, <2>4 DEF GoroutineOK
  <1>6. ASSUME NEW c \in Conn
        PROVE  ConnOK(c)'
    BY <1>1 DEF IInv, ConnOK, ServerMoves, Quiet
  <1> QED  BY <1>2, <1>3, <1>4, <1>5, <1>6 DEF IInv

LEMMA ServedConn ==
    ASSUME IInv, NEW c \in Conn, NEW u \in Seq(Message), NEW d \in Seq(Message),
           NEW s \in {"none", "opening", "serving", "closed"}, Served(c, u, d, s)
    PROVE  /\ conn' \in [Conn -> ConnType]
           /\ conn'[c].up = u
           /\ conn'[c].down = IF conn[c].client = "closed" THEN <<>> ELSE d
           /\ conn'[c].server = s
           /\ conn'[c].client = conn[c].client /\ conn'[c].handshake = conn[c].handshake
           /\ \A e \in Conn \ {c} : conn'[e] = conn[e]
           /\ ServerMoves(conn[c], conn'[c]) => IInv'
  <1>1. conn \in [Conn -> ConnType] /\ peerUp \in BOOLEAN
    BY DEF IInv, TypeOK
  <1> DEFINE e == IF conn[c].client = "closed" THEN <<>> ELSE d
             y == [conn[c] EXCEPT !.up = u, !.down = e, !.server = s]
  <1>2. e \in Seq(Message) /\ conn[c] \in ConnType
    BY <1>1
  <1>3. y \in ConnType /\ y.up = u /\ y.down = e /\ y.server = s
        /\ y.client = conn[c].client /\ y.handshake = conn[c].handshake
    <2> HIDE DEF e
    <2> QED  BY <1>2 DEF ConnType
  <1>4. conn' = [conn EXCEPT ![c] = y]
    BY <1>1, <1>2 DEF Served
  <1> HIDE DEF y
  <1>5. conn' \in [Conn -> ConnType] /\ conn'[c] = y /\ \A b \in Conn \ {c} : conn'[b] = conn[b]
    BY <1>1, <1>3, <1>4
  <1>6. ServerMoves(conn[c], conn'[c]) => \A b \in Conn : ServerMoves(conn[b], conn'[b])
    BY <1>1, <1>5, MovesStutter
  <1>7. ServerMoves(conn[c], conn'[c]) => IInv'
    <2> SUFFICES ASSUME ServerMoves(conn[c], conn'[c])
                 PROVE  IInv'
      OBVIOUS
    <2>1. UNCHANGED <<pooled, pc, holds, calls, answer, status, peerUp, panicked>>
      BY DEF Served
    <2>2. peerUp' \in BOOLEAN
      BY <1>1, <2>1
    <2> QED  BY <1>5, <1>6, <2>1, <2>2, ServerSide
  <1> QED  BY <1>3, <1>5, <1>7

\* On a connection with something to read the peer finds one message, and someone
\* waits for the answer
LEMMA PeerReads ==
    ASSUME IInv, NEW c \in Conn, conn[c].up # <<>>
    PROVE  /\ conn[c].client = "open"
           /\ conn[c].down = <<>>
           /\ conn[c].server \in {"opening", "serving"}
           /\ conn[c].server = "opening" => conn[c].up = <<Greeting>>
           /\ conn[c].server = "serving" =>
                \E t \in Thread : /\ sends[t] \in 1..MaxSends
                                  /\ \E m \in Requests(t) : conn[c].up = <<m>>
  <1>1. PICK t \in Thread : holds[t] = c
    BY DEF IInv, ConnOK, Quiet
  <1>2. GoroutineOK(t) /\ c # Nil /\ ~Quiet(conn[c])
    BY ConnectionAssumption DEF IInv, Quiet
  <1>3. sends[t] \in 0..MaxSends /\ MaxSends \in Nat /\ (pc[t] # "idle" => sends[t] > 0)
    BY ConnectionAssumption DEF IInv, TypeOK, Counted
  <1>4. conn[c].client = "open" /\ pc[t] \in {"greeted", "await"}
    BY <1>1, <1>2 DEF GoroutineOK
  <1>5. CASE pc[t] = "greeted"
    BY <1>1, <1>2, <1>4, <1>5 DEF GoroutineOK, Exchanging, Quiet
  <1>6. CASE pc[t] = "await"
    BY <1>1, <1>2, <1>3, <1>4, <1>6 DEF GoroutineOK, Exchanging, Quiet
  <1> QED  BY <1>4, <1>5, <1>6

LEMMA OpenInv ==
    ASSUME IInv, NEW c \in Conn, Open(c)
    PROVE  IInv'
  <1>1. /\ conn[c].client = "open" /\ conn[c].down = <<>>
        /\ conn[c].server = "opening" /\ conn[c].up = <<Greeting>>
        /\ conn[c] \in ConnType
    BY PeerReads DEF Open, IInv, TypeOK
  <1>2. Greeting \in Message /\ Accepted \in Message
    BY DEF Greeting, Accepted, Message
  <1>3. /\ AfterRead(conn[c].up) = {<<>>} /\ Head(conn[c].up) = Greeting
        /\ Append(conn[c].down, Accepted) = <<Accepted>>
        /\ <<Accepted>> \in Seq(Message) /\ <<>> \in Seq(Message)
    BY <1>1, <1>2, ReadOne
  <1>4. Served(c, <<>>, <<Accepted>>, "serving")
    BY <1>3 DEF Open, Accepted
  <1>5. /\ conn' \in [Conn -> ConnType]
        /\ conn'[c].up = <<>>
        /\ conn'[c].down = <<Accepted>>
        /\ conn'[c].server = "serving"
        /\ conn'[c].client = conn[c].client /\ conn'[c].handshake = conn[c].handshake
        /\ ServerMoves(conn[c], conn'[c]) => IInv'
    BY <1>1, <1>3, <1>4, ServedConn
  <1> QED  BY <1>1, <1>5, MovesOpen

\* The peer's end of c closes
LEMMA CloseInv ==
    ASSUME IInv, NEW c \in Conn, conn[c].server # "none",
           NEW d \in {conn[c].down, <<>>}, Served(c, <<>>, d, "closed")
    PROVE  IInv'
  <1>a. conn[c] \in ConnType
    BY DEF IInv, TypeOK
  <1>b. conn[c].down \in Seq(Message) /\ <<>> \in Seq(Message)
    BY <1>a DEF ConnType
  <1>1. conn[c] \in ConnType /\ d \in Seq(Message) /\ <<>> \in Seq(Message)
    BY <1>a, <1>b
  <1>2. /\ conn' \in [Conn -> ConnType]
        /\ conn'[c].up = <<>>
        /\ conn'[c].down = IF conn[c].client = "closed" THEN <<>> ELSE d
        /\ conn'[c].server = "closed"
        /\ conn'[c].client = conn[c].client /\ conn'[c].handshake = conn[c].handshake
        /\ ServerMoves(conn[c], conn'[c]) => IInv'
    BY <1>1, ServedConn
  <1>3. conn'[c].down \in {conn[c].down, <<>>}
    BY <1>2
  <1> QED  BY <1>1, <1>2, <1>3, MovesClosed

LEMMA ServeInv ==
    ASSUME IInv, NEW c \in Conn, Serve(c)
    PROVE  IInv'
  <1>1. /\ conn[c].client = "open" /\ conn[c].down = <<>> /\ conn[c].server = "serving"
        /\ conn[c] \in ConnType /\ conn \in [Conn -> ConnType]
    BY PeerReads DEF Serve, IInv, TypeOK
  <1>a. PICK t \in Thread : sends[t] \in 1..MaxSends /\ \E m \in Requests(t) : conn[c].up = <<m>>
    BY <1>1, PeerReads DEF Serve
  <1>2. PICK m \in Requests(t) : conn[c].up = <<m>>
    BY <1>a
  <1> DEFINE a == [m EXCEPT !.type = "Response"]
  <1>3. m \in Message /\ a \in Message
    BY <1>a, <1>2, MessageTypes
  <1> HIDE DEF a
  <1>4. /\ AfterRead(conn[c].up) = {<<>>} /\ Head(conn[c].up) = m
        /\ Append(conn[c].down, a) = <<a>>
        /\ <<a>> \in Seq(Message) /\ <<>> \in Seq(Message)
    BY <1>1, <1>2, <1>3, ReadOne
  <1>5. CASE Served(c, <<>>, <<a>>, "serving")
    <2>1. /\ conn' \in [Conn -> ConnType]
          /\ conn'[c].up = <<>> /\ conn'[c].down = <<a>> /\ conn'[c].server = "serving"
          /\ conn'[c].client = conn[c].client /\ conn'[c].handshake = conn[c].handshake
          /\ ServerMoves(conn[c], conn'[c]) => IInv'
      BY <1>1, <1>4, <1>5, ServedConn
    <2> QED  BY <1>1, <1>a, <1>2, <2>1, MovesServe DEF a
  <1>6. CASE Served(c, <<>>, conn[c].down, "closed")
    BY <1>1, <1>6, CloseInv
  <1>7. CASE /\ peerUp' = FALSE
             /\ conn' = [d \in Conn |-> IF conn[d].server = "none" THEN conn[d]
                           ELSE [conn[d] EXCEPT !.server = "closed", !.up = <<>>]]
             /\ UNCHANGED <<pooled, pc, holds, calls, answer, status, panicked>>
    <2>1. ASSUME NEW d \in Conn
          PROVE  conn'[d] \in ConnType /\ ServerMoves(conn[d], conn'[d])
      <3>1. conn[d] \in ConnType /\ <<>> \in Seq(Message)
        BY <1>1
      <3>2. CASE conn[d].server = "none"
        BY <1>7, <3>1, <3>2, MovesStutter
      <3>3. CASE conn[d].server # "none"
        <4>1. conn'[d] = [conn[d] EXCEPT !.server = "closed", !.up = <<>>]
          BY <1>7, <3>3
        <4>2. /\ conn'[d] \in ConnType
              /\ conn'[d].server = "closed" /\ conn'[d].up = <<>> /\ conn'[d].down = conn[d].down
              /\ conn'[d].client = conn[d].client /\ conn'[d].handshake = conn[d].handshake
          BY <3>1, <4>1 DEF ConnType
        <4> QED  BY <3>1, <3>3, <4>2, MovesClosed
      <3> QED  BY <3>2, <3>3
    <2>2. conn' \in [Conn -> ConnType] /\ peerUp' \in BOOLEAN
      BY <1>7, <2>1
    <2> QED  BY <1>7, <2>1, <2>2, ServerSide
  <1> QED  BY <1>4, <1>5, <1>6, <1>7 DEF Serve, a

LEMMA HangupInv ==
    ASSUME IInv, NEW c \in Conn, Hangup(c) \/ Break(c)
    PROVE  IInv'
  <1>1. conn[c].server # "none" /\ Served(c, <<>>, <<>>, "closed")
    BY DEF Hangup, Break
  <1> QED  BY <1>1, CloseInv
-----------------------------------------------------------------------------
(***************************************************************************)
(* The goroutines                                                          *)
(***************************************************************************)

\* A step of goroutine t that touches no connection but d leaves the others alone
LEMMA ClientSide ==
    ASSUME IInv, NEW t \in Thread, NEW d \in Conn \cup {Nil},
           TypeOK', PoolSound', OwnAnswer', GoroutineOK(t)', d \in Conn => ConnOK(d)',
           pc'[t] # "idle" => sends'[t] > 0,
           holds[t] \in {Nil, d},
           \A c \in Conn \ {d} : conn'[c] = conn[c],
           \A u \in Thread \ {t} : /\ pc'[u] = pc[u] /\ holds'[u] = holds[u] /\ sends'[u] = sends[u]
                                   /\ holds[u] = d => d = Nil
    PROVE  IInv'
  <1>1. ASSUME NEW u \in Thread
        PROVE  GoroutineOK(u)'
    <2>1. CASE u # t
      <3>1. GoroutineOK(u) /\ (holds[u] \in Conn => conn'[holds[u]] = conn[holds[u]])
        BY <2>1, ConnectionAssumption DEF IInv
      <3> QED  BY <2>1, <3>1, GoroutineFrame
    <2> QED  BY <2>1
  <1>2. ASSUME NEW c \in Conn
        PROVE  ConnOK(c)'
    <2>1. CASE c # d
      <3>1. ConnOK(c) /\ conn'[c] = conn[c] /\ \A u \in Thread : holds[u] = c => holds'[u] = c
        BY <2>1, ConnectionAssumption DEF IInv
      <3> QED  BY <3>1, ConnFrame
    <2> QED  BY <2>1
  <1>3. Counted'
    BY DEF IInv, Counted
  <1> QED  BY <1>1, <1>2, <1>3 DEF IInv

\* While the pool is left alone it stays sound, if t has hold of no connection in it
\* or in other hands
LEMMA PoolFrame ==
    ASSUME IInv, NEW t \in Thread, UNCHANGED pooled,
           \A c \in InPool : conn'[c] = conn[c],
           \A u \in Thread \ {t} : holds'[u] = holds[u],
           holds'[t] \notin InPool,
           holds'[t] # Nil => \A u \in Thread \ {t} : holds[u] # holds'[t]
    PROVE  PoolSound'
  <1>1. InPool' = InPool /\ pool' = pool /\ size' = size
    BY DEF InPool, pooled
  <1> QED  BY <1>1 DEF IInv, PoolSound

\* Nil is not in the pool
LEMMA NilNotPooled ==
    ASSUME IInv
    PROVE  InPool \subseteq Conn /\ Nil \notin InPool
  BY ConnectionAssumption DEF IInv, TypeOK, InPool

LEMMA CallInv ==
    ASSUME IInv, NEW t \in Thread, NEW method \in {"Start", "SendMessage"}, Call(t, method)
    PROVE  IInv'
  <1>1. holds[t] = Nil
    BY DEF Call, IInv, GoroutineOK
  <1>2. TypeOK'
    BY ConnectionAssumption DEF Call, Goto, IInv, TypeOK, pooled
  <1>3. PoolSound'
    BY <1>1, NilNotPooled, PoolFrame DEF Call
  <1>4. OwnAnswer' /\ GoroutineOK(t)' /\ sends'[t] > 0
    BY <1>1 DEF Call, Goto, IInv, TypeOK, OwnAnswer, GoroutineOK
  <1>5. \A u \in Thread \ {t} : pc'[u] = pc[u] /\ holds'[u] = holds[u] /\ sends'[u] = sends[u]
    BY DEF Call, Goto, IInv, TypeOK
  <1> QED  BY <1>1, <1>2, <1>3, <1>4, <1>5, ConnectionAssumption, ClientSide DEF Call

\* A goroutine that fails before it has a connection, or on one that the peer closed
LEMMA FailInv ==
    ASSUME IInv, NEW t \in Thread, NEW f, Fail(t, f),
           \/ holds[t] = Nil /\ f = conn
           \/ holds[t] \in Conn /\ conn[holds[t]].server = "closed" /\ f = Close(holds[t])
    PROVE  IInv'
  <1>d. PICK d \in Conn \cup {Nil} : d = holds[t]
    BY DEF IInv, TypeOK
  <1>1. d \notin InPool /\ conn \in [Conn -> ConnType]
    BY <1>d DEF IInv, TypeOK, PoolSound
  <1>2. /\ pc' = [pc EXCEPT ![t] = "idle"] /\ holds' = [holds EXCEPT ![t] = Nil]
        /\ answer' = [answer EXCEPT ![t] = Nil] /\ conn' = f
        /\ UNCHANGED <<pool, size, job, sends, peerUp, panicked>>
    BY DEF Fail, Goto, pooled, calls
  <1>3. /\ conn' \in [Conn -> ConnType]
        /\ \A c \in Conn \ {d} : conn'[c] = conn[c]
        /\ d \in Conn => ConnOK(d)'
    <2>1. CASE d = Nil
      BY <1>d, <1>1, <1>2, <2>1, ConnectionAssumption
    <2>2. CASE d \in Conn /\ d # Nil
      <3> DEFINE x == conn[d]
                 y == [x EXCEPT !.client = "closed", !.down = <<>>]
      <3>1. x \in ConnType /\ x.server = "closed" /\ x.up = <<>> /\ <<>> \in Seq(Message)
        <4>1. GoroutineOK(t) /\ x.server = "closed"
          BY <1>d, <2>2, ConnectionAssumption DEF IInv
        <4> QED  BY <1>d, <1>1, <2>2, <4>1 DEF GoroutineOK, Exchanging, Quiet
      <3>2. y \in ConnType /\ y.client = "closed" /\ y.up = <<>> /\ y.down = <<>> /\ y.server = "closed"
        BY <3>1 DEF ConnType
      <3>3. conn' = [conn EXCEPT ![d] = y]
        BY <1>d, <1>1, <1>2, <2>2, ConnectionAssumption DEF Close
      <3> HIDE DEF x, y
      <3>4. conn' \in [Conn -> ConnType] /\ conn'[d] = y /\ \A c \in Conn \ {d} : conn'[c] = conn[c]
        BY <1>1, <2>2, <3>2, <3>3
      <3>5. ConnOK(d)'
        BY <3>2, <3>4 DEF ConnOK, Quiet
      <3> QED  BY <3>4, <3>5
    <2> QED  BY <1>1, <2>1, <2>2
  <1>4. TypeOK'
    BY <1>2, <1>3 DEF Fail, IInv, TypeOK
  <1>5. PoolSound'
    <2>1. \A c \in InPool : conn'[c] = conn[c]
      BY <1>1, <1>3, NilNotPooled
    <2>2. holds'[t] = Nil /\ \A u \in Thread \ {t} : holds'[u] = holds[u]
      BY <1>2 DEF IInv, TypeOK
    <2> QED  BY <1>2, <2>1, <2>2, NilNotPooled, PoolFrame DEF pooled
  <1>6. OwnAnswer' /\ GoroutineOK(t)' /\ pc'[t] = "idle"
    BY <1>2 DEF IInv, TypeOK, OwnAnswer, GoroutineOK
  <1>7. \A u \in Thread \ {t} : /\ pc'[u] = pc[u] /\ holds'[u] = holds[u] /\ sends'[u] = sends[u]
                                /\ holds[u] = d => d = Nil
    BY <1>d, <1>2 DEF IInv, TypeOK, PoolSound
  <1> QED  BY <1>d, <1>3, <1>4, <1>5, <1>6, <1>7, ClientSide

\* A goroutine that moves on without its connection or the pool changing
LEMMA MoveInv ==
    ASSUME IInv, NEW t \in Thread, NEW p \in {"get", "lock"}, pc[t] \in {"get", "lock"},
           Goto(t, p), panicked' \in BOOLEAN,
           UNCHANGED <<pooled, conn, holds, calls, answer, status, peerUp>>
    PROVE  IInv'
  <1>1. holds[t] = Nil
    BY DEF IInv, GoroutineOK
  <1>2. TypeOK'
    BY DEF Goto, IInv, TypeOK, pooled, calls
  <1>3. PoolSound'
    <2>1. holds' = holds /\ conn' = conn /\ UNCHANGED pooled
      BY DEF pooled
    <2> QED  BY <1>1, <2>1, NilNotPooled, PoolFrame
  <1>4. OwnAnswer' /\ GoroutineOK(t)' /\ sends'[t] > 0
    BY <1>1 DEF Goto, IInv, TypeOK, OwnAnswer, GoroutineOK, Counted, calls
  <1>5. \A u \in Thread \ {t} : pc'[u] = pc[u] /\ holds'[u] = holds[u] /\ sends'[u] = sends[u]
    BY DEF Goto, IInv, TypeOK, calls
  <1> QED  BY <1>1, <1>2, <1>3, <1>4, <1>5, ConnectionAssumption, ClientSide

LEMMA SeePooledInv ==
    ASSUME IInv, NEW t \in Thread, SeePooled(t)
    PROVE  IInv'
  <1>1. panicked' \in BOOLEAN
    BY DEF SeePooled, IInv, TypeOK
  <1> QED  BY <1>1, MoveInv DEF SeePooled

LEMMA TakeNilInv ==
    ASSUME IInv, NEW t \in Thread, TakeNil(t)
    PROVE  IInv'
  <1>1. Goto(t, "lock")
    BY DEF TakeNil, Goto, IInv, TypeOK
  <1> QED  BY <1>1, MoveInv DEF TakeNil

LEMMA ConnectInv ==
    ASSUME IInv, NEW t \in Thread, Connect(t)
    PROVE  IInv'
  <1>1. holds[t] = Nil /\ pc[t] = "get" /\ sends[t] > 0
    BY DEF Connect, IInv, GoroutineOK, Counted
  <1>2. CASE Fail(t, conn)
    BY <1>1, <1>2, FailInv
  <1>3. ASSUME NEW d \in Conn,
               /\ conn[d].client = "unused"
               /\ conn' = [conn EXCEPT ![d].client = "open", ![d].server = "opening"]
               /\ holds' = [holds EXCEPT ![t] = d]
               /\ Goto(t, "greet")
               /\ UNCHANGED <<pooled, calls, answer, status, peerUp, panicked>>
        PROVE  IInv'
    <2>1. /\ conn \in [Conn -> ConnType] /\ d # Nil /\ conn[d] \in ConnType
          /\ pc' = [pc EXCEPT ![t] = "greet"]
          /\ UNCHANGED <<pool, size, job, sends, answer, status, peerUp, panicked>>
      BY <1>3, ConnectionAssumption DEF IInv, TypeOK, Goto, pooled, calls
    <2>2. \A u \in Thread : holds[u] # d
      BY <1>3, <2>1 DEF IInv, GoroutineOK
    <2>3. Quiet(conn[d]) /\ ~conn[d].handshake
      BY <1>3, <2>2 DEF IInv, ConnOK
    <2> DEFINE y == [conn[d] EXCEPT !.client = "open", !.server = "opening"]
    <2>4. y \in ConnType /\ y.client = "open" /\ y.server = "opening" /\ Quiet(y) /\ ~y.handshake
      BY <2>1, <2>3 DEF ConnType, Quiet
    <2>5. conn' = [conn EXCEPT ![d] = y]
      BY <1>3, <2>1
    <2> HIDE DEF y
    <2>6. conn' \in [Conn -> ConnType] /\ conn'[d] = y /\ \A c \in Conn \ {d} : conn'[c] = conn[c]
      BY <2>1, <2>4, <2>5
    <2>7. pc'[t] = "greet" /\ holds'[t] = d
      BY <1>3, <2>1 DEF IInv, TypeOK
    <2>8. \A u \in Thread \ {t} : pc'[u] = pc[u] /\ holds'[u] = holds[u] /\ sends'[u] = sends[u]
      BY <1>3, <2>1 DEF IInv, TypeOK
    <2>9. TypeOK'
      BY <1>3, <2>1, <2>6 DEF IInv, TypeOK
    <2>10. d \notin InPool
      BY <1>3 DEF IInv, PoolSound
    <2>11. PoolSound'
      <3>1. \A c \in InPool : conn'[c] = conn[c]
        BY <2>6, <2>10, NilNotPooled
      <3> QED  BY <2>1, <2>2, <2>7, <2>8, <2>10, <3>1, PoolFrame DEF pooled
    <2>12. OwnAnswer' /\ sends'[t] > 0
      BY <1>1, <2>1 DEF IInv, OwnAnswer
    <2>13. GoroutineOK(t)' /\ ConnOK(d)'
      BY <2>4, <2>6, <2>7 DEF GoroutineOK, ConnOK, Quiet
    <2> QED  BY <1>1, <2>2, <2>6, <2>8, <2>9, <2>11, <2>12, <2>13, ClientSide
  <1> QED  BY <1>2, <1>3 DEF Connect

LEMMA TakeInv ==
    ASSUME IInv, NEW t \in Thread, Take(t)
    PROVE  IInv'
  <1>1. PICK d \in Conn : d = Head(pool)
    BY DEF IInv, TypeOK, Take
  <1>2. /\ pool \in Seq(Conn) /\ pool # <<>> /\ size = Len(pool) /\ size \in 0..maxConn
        /\ holds[t] = Nil /\ d # Nil /\ sends[t] > 0
    BY ConnectionAssumption DEF Take, IInv, TypeOK, PoolSound, GoroutineOK, Counted
  <1>3. /\ d = pool[1] /\ d \in InPool /\ size \in 1..maxConn
        /\ Len(pool) \in Nat \ {0}
        /\ Tail(pool) \in Seq(Conn) /\ Len(Tail(pool)) = Len(pool) - 1
        /\ \A k \in 1..(Len(pool) - 1) : Tail(pool)[k] = pool[k + 1]
    BY <1>1, <1>2, ConnectionAssumption DEF InPool
  <1>4. conn[d].handshake /\ conn[d].client = "open" /\ \A u \in Thread : holds[u] # d
    BY <1>3 DEF IInv, PoolSound
  <1>5. /\ holds' = [holds EXCEPT ![t] = d] /\ pool' = Tail(pool) /\ size' = size - 1
        /\ pc' = [pc EXCEPT ![t] = "ready"]
        /\ UNCHANGED <<conn, job, sends, answer, status, peerUp, panicked>>
    BY <1>1, <1>4 DEF Take, Goto, calls
  <1>6. /\ pc'[t] = "ready" /\ holds'[t] = d
        /\ \A u \in Thread \ {t} : pc'[u] = pc[u] /\ holds'[u] = holds[u] /\ sends'[u] = sends[u]
    BY <1>5 DEF IInv, TypeOK
  <1>7. TypeOK'
    BY <1>3, <1>5, ConnectionAssumption DEF IInv, TypeOK
  <1>8. DOMAIN pool = 1..Len(pool) /\ DOMAIN pool' = 1..(Len(pool) - 1)
    BY <1>2, <1>3, <1>5
  <1>9. PoolSound'
    <2>1. \A k \in DOMAIN pool' : k + 1 \in DOMAIN pool /\ pool'[k] = pool[k + 1] /\ k + 1 # 1 /\ 1 \in DOMAIN pool
      BY <1>3, <1>5, <1>8
    <2>2. \A k, l \in DOMAIN pool : pool[k] = pool[l] => k = l
      BY DEF IInv, PoolSound
    <2>3. InPool' \subseteq InPool /\ d \notin InPool'
      BY <1>3, <2>1, <2>2 DEF InPool
    <2>4. \A k, l \in DOMAIN pool' : pool'[k] = pool'[l] => k = l
      <3> SUFFICES ASSUME NEW k \in DOMAIN pool', NEW l \in DOMAIN pool', pool'[k] = pool'[l]
                   PROVE  k = l
        OBVIOUS
      <3>1. k + 1 = l + 1
        BY <2>1, <2>2
      <3> QED  BY <1>8, <3>1
    <2>5. size' = Len(pool') /\ size' <= maxConn
      BY <1>2, <1>3, <1>5, ConnectionAssumption
    <2>6. \A u \in Thread : holds'[u] \notin InPool'
      BY <1>6, <2>3 DEF IInv, PoolSound
    <2>7. \A u, v \in Thread : (u # v /\ holds'[u] # Nil) => holds'[u] # holds'[v]
      BY <1>4, <1>6 DEF IInv, PoolSound
    <2> QED  BY <1>5, <2>3, <2>4, <2>5, <2>6, <2>7 DEF IInv, PoolSound
  <1>10. Quiet(conn[d])
    BY <1>4 DEF IInv, ConnOK
  <1>11. OwnAnswer' /\ sends'[t] > 0
    BY <1>2, <1>5 DEF IInv, OwnAnswer
  <1>12. GoroutineOK(t)'
    BY <1>4, <1>5, <1>6, <1>10 DEF GoroutineOK, Quiet
  <1> QED  BY <1>2, <1>5, <1>6, <1>7, <1>9, <1>11, <1>12, ConnectionAssumption, ClientSide

\* A goroutine that goes on with the connection it has, which becomes y
LEMMA HoldInv ==
    ASSUME IInv, NEW t \in Thread, NEW d \in Conn, holds[t] = d, pc[t] # "idle",
           NEW y \in ConnType, y.client = "open", conn' = [conn EXCEPT ![d] = y],
           y.handshake => y.server \in {"serving", "closed"},
           NEW p \in {"greeted", "ready", "await"}, Goto(t, p),
           UNCHANGED <<pooled, holds, calls, answer, status, peerUp, panicked>>,
           GoroutineOK(t)'
    PROVE  IInv'
  <1>1. /\ conn \in [Conn -> ConnType] /\ d # Nil /\ sends[t] > 0
        /\ pc' = [pc EXCEPT ![t] = p]
        /\ UNCHANGED <<pool, size, holds, job, sends, answer, status, peerUp, panicked>>
    BY ConnectionAssumption DEF IInv, TypeOK, Goto, pooled, calls, Counted
  <1>2. conn' \in [Conn -> ConnType] /\ conn'[d] = y /\ \A c \in Conn \ {d} : conn'[c] = conn[c]
    BY <1>1
  <1>3. TypeOK'
    BY <1>1, <1>2 DEF IInv, TypeOK
  <1>4. d \notin InPool /\ \A u \in Thread \ {t} : holds[u] # d
    BY <1>1 DEF IInv, PoolSound
  <1>5. PoolSound'
    <2>1. \A c \in InPool : conn'[c] = conn[c]
      BY <1>2, <1>4, NilNotPooled
    <2> QED  BY <1>1, <1>4, <2>1, PoolFrame DEF pooled
  <1>6. OwnAnswer' /\ sends'[t] > 0
    BY <1>1 DEF IInv, OwnAnswer
  <1>7. ConnOK(d)'
    BY <1>1, <1>2 DEF ConnOK
  <1>8. \A u \in Thread \ {t} : pc'[u] = pc[u] /\ holds'[u] = holds[u] /\ sends'[u] = sends[u]
    BY <1>1 DEF IInv, TypeOK
  <1> QED  BY <1>2, <1>3, <1>4, <1>5, <1>6, <1>7, <1>8, ClientSide

\* What is known of the connection of a goroutine that has one
LEMMA Holding ==
    ASSUME IInv, NEW t \in Thread, pc[t] \in {"greet", "greeted", "ready", "await"}
    PROVE  /\ holds[t] \in Conn
           /\ conn[holds[t]] \in ConnType
           /\ conn[holds[t]].client = "open"
           /\ pc[t] = "greet" => /\ ~conn[holds[t]].handshake /\ Quiet(conn[holds[t]])
                                 /\ conn[holds[t]].server \in {"opening", "closed"}
           /\ pc[t] = "greeted" => /\ ~conn[holds[t]].handshake
                                   /\ Exchanging(conn[holds[t]], "opening", {Greeting}, Accepted)
           /\ pc[t] = "ready" => conn[holds[t]].handshake /\ Quiet(conn[holds[t]])
           /\ pc[t] = "await" => /\ conn[holds[t]].handshake
                                 /\ Exchanging(conn[holds[t]], "serving", Requests(t), AnswerTo(t))
           /\ conn[holds[t]].handshake => conn[holds[t]].server \in {"serving", "closed"}
           /\ sends[t] \in 1..MaxSends
  <1>1. GoroutineOK(t) /\ pc[t] \notin {"idle", "get", "lock"}
    BY DEF IInv
  <1>2. holds[t] \in Conn
    BY <1>1 DEF GoroutineOK
  <1>3. conn[holds[t]] \in ConnType /\ ConnOK(holds[t])
    BY <1>2 DEF IInv, TypeOK
  <1>4. sends[t] \in 1..MaxSends
    <2>1. sends[t] \in 0..MaxSends /\ sends[t] > 0
      BY DEF IInv, TypeOK, Counted
    <2> QED  BY <2>1, ConnectionAssumption
  <1> QED  BY <1>1, <1>2, <1>3, <1>4 DEF GoroutineOK, ConnOK

\* WriteMessage, if what it wrote starts the exchange the goroutine then waits for
LEMMA WriteInv ==
    ASSUME IInv, NEW t \in Thread, NEW m \in Message, NEW p \in {"greeted", "await"},
           Write(t, m, p),
           \/ pc[t] = "greet" /\ p = "greeted" /\ m = Greeting
           \/ pc[t] = "ready" /\ p = "await" /\ m \in Requests(t)
    PROVE  IInv'
  <1>1. PICK d \in Conn : d = holds[t]
    BY Holding
  <1>2. /\ conn[d] \in ConnType /\ conn[d].client = "open" /\ Quiet(conn[d])
        /\ conn[d].handshake => conn[d].server \in {"serving", "closed"}
        /\ pc[t] = "greet" => ~conn[d].handshake /\ conn[d].server \in {"opening", "closed"}
        /\ pc[t] = "ready" => conn[d].handshake
        /\ conn \in [Conn -> ConnType]
    BY <1>1, Holding DEF IInv, TypeOK
  <1>3. CASE conn[d].server = "closed" /\ Fail(t, Close(d))
    BY <1>1, <1>3, FailInv
  <1>4. CASE /\ conn' = IF conn[d].server = "closed" THEN conn
                        ELSE [conn EXCEPT ![d].up = Append(@, m)]
             /\ Goto(t, p)
             /\ UNCHANGED <<pooled, holds, calls, answer, status, peerUp, panicked>>
    <2> DEFINE y == IF conn[d].server = "closed" THEN conn[d]
                    ELSE [conn[d] EXCEPT !.up = <<m>>]
    <2>1. Append(conn[d].up, m) = <<m>> /\ <<m>> \in Seq(Message)
      BY <1>2 DEF Quiet
    <2>2. conn' = [conn EXCEPT ![d] = y]
      BY <1>2, <1>4, <2>1
    <2>3. /\ y \in ConnType /\ y.client = "open" /\ y.handshake = conn[d].handshake
          /\ y.server = conn[d].server /\ y.down = <<>>
          /\ \/ y.server = "closed" /\ y.up = <<>>
             \/ y.server # "closed" /\ y.up = <<m>>
      BY <1>2, <2>1 DEF ConnType, Quiet
    <2> HIDE DEF y
    <2>4. conn'[d] = y /\ pc'[t] = p /\ holds'[t] = d /\ sends' = sends
      BY <1>1, <1>2, <1>4, <2>2 DEF Goto, calls, IInv, TypeOK
    <2>5. AnswerTo(t)' = AnswerTo(t) /\ Requests(t)' = Requests(t)
      BY <2>4 DEF AnswerTo, Requests, RequestOf
    <2>8. GoroutineOK(t)'
      <3>1. CASE pc[t] = "greet" /\ p = "greeted" /\ m = Greeting
        <4>1. Exchanging(y, "opening", {Greeting}, Accepted) /\ ~y.handshake
          BY <1>2, <2>3, <3>1 DEF Exchanging, Quiet
        <4> QED  BY <2>3, <2>4, <3>1, <4>1 DEF GoroutineOK, Greeting, Accepted
      <3>2. CASE pc[t] = "ready" /\ p = "await" /\ m \in Requests(t)
        <4>1. Exchanging(y, "serving", Requests(t), AnswerTo(t)) /\ y.handshake
          BY <1>2, <2>3, <3>2 DEF Exchanging, Quiet
        <4> QED  BY <2>3, <2>4, <2>5, <3>2, <4>1 DEF GoroutineOK
      <3> QED  BY <3>1, <3>2
    <2>9. y.handshake => y.server \in {"serving", "closed"}
      BY <1>2, <2>3
    <2> QED  BY <1>1, <1>4, <2>2, <2>3, <2>8, <2>9, HoldInv
  <1> QED  BY <1>1, <1>3, <1>4 DEF Write

LEMMA GreetInv ==
    ASSUME IInv, NEW t \in Thread, Greet(t)
    PROVE  IInv'
  <1>1. Greeting \in Message
    BY DEF Greeting, Message
  <1> QED  BY <1>1, WriteInv DEF Greet

LEMMA WriteRequestInv ==
    ASSUME IInv, NEW t \in Thread, WriteRequest(t)
    PROVE  IInv'
  <1>1. PICK type \in {"Request", "Unexpected", "Unreachable"} : Write(t, RequestOf(t, type), "await")
    BY DEF WriteRequest
  <1>2. pc[t] = "ready" /\ sends[t] \in 1..MaxSends
    BY Holding DEF WriteRequest
  <1>3. PICK m \in Requests(t) : m = RequestOf(t, type)
    BY DEF Requests
  <1>4. m \in Message /\ Write(t, m, "await")
    BY <1>1, <1>2, <1>3, MessageTypes
  <1> QED  BY <1>2, <1>4, WriteInv

LEMMA ReadFailsInv ==
    ASSUME IInv, NEW t \in Thread, ReadFails(t)
    PROVE  IInv'
  <1>1. holds[t] \in Conn /\ conn[holds[t]].server = "closed" /\ Fail(t, Close(holds[t]))
    BY Holding DEF ReadFails
  <1> QED  BY <1>1, FailInv

\* What a goroutine that waits for its answer can read
LEMMA AnswerRead ==
    ASSUME NEW x \in ConnType, NEW reading, NEW ms, NEW a \in Message, x.down # <<>>,
           Exchanging(x, reading, ms, a)
    PROVE  /\ AfterRead(x.down) = {<<>>}
           /\ Head(x.down) = a
           /\ x.up = <<>>
           /\ x.server \in {"serving", "closed"}
  BY ReadOne DEF Exchanging, Quiet

LEMMA ReadGreetingInv ==
    ASSUME IInv, NEW t \in Thread, ReadGreeting(t)
    PROVE  IInv'
  <1>1. PICK d \in Conn : d = holds[t]
    BY Holding DEF ReadGreeting
  <1>2. /\ conn[d] \in ConnType /\ conn[d].client = "open" /\ ~conn[d].handshake
        /\ conn \in [Conn -> ConnType] /\ pc[t] = "greeted" /\ conn[d].down # <<>>
        /\ Exchanging(conn[d], "opening", {Greeting}, Accepted)
    BY <1>1, Holding DEF ReadGreeting, IInv, TypeOK
  <1>3. Accepted \in Message /\ Accepted.type = "ConnectionAccepted"
    BY DEF Accepted, Message
  <1>4. /\ AfterRead(conn[d].down) = {<<>>} /\ Head(conn[d].down) = Accepted
        /\ conn[d].up = <<>> /\ conn[d].server \in {"serving", "closed"}
    BY <1>2, <1>3, AnswerRead
  <1>5. /\ conn' = [conn EXCEPT ![d].down = <<>>, ![d].handshake = TRUE]
        /\ Goto(t, "ready")
        /\ UNCHANGED <<pooled, holds, calls, answer, status, peerUp, panicked>>
    BY <1>1, <1>3, <1>4 DEF ReadGreeting
  <1> DEFINE y == [conn[d] EXCEPT !.down = <<>>, !.handshake = TRUE]
  <1>6. /\ y \in ConnType /\ y.client = "open" /\ y.handshake /\ Quiet(y)
        /\ y.server \in {"serving", "closed"}
    BY <1>2, <1>4 DEF ConnType, Quiet
  <1>7. conn' = [conn EXCEPT ![d] = y]
    BY <1>2, <1>5
  <1> HIDE DEF y
  <1>8. conn'[d] = y /\ pc'[t] = "ready" /\ holds'[t] = d
    BY <1>1, <1>2, <1>5, <1>7 DEF Goto, IInv, TypeOK
  <1>9. GoroutineOK(t)'
    BY <1>6, <1>8 DEF GoroutineOK, Quiet
  <1>10. holds[t] = d /\ pc[t] # "idle"
    BY <1>1, <1>2
  <1> QED  BY <1>5, <1>6, <1>7, <1>9, <1>10, HoldInv

\* A goroutine that is done pools its connection, on which nothing is under way
LEMMA PutInv ==
    ASSUME IInv, NEW t \in Thread, NEW d \in Conn, holds[t] = d,
           NEW y \in ConnType, y.client = "open", y.handshake, Quiet(y),
           y.server \in {"serving", "closed"},
           Put(d, [conn EXCEPT ![d] = y]),
           Goto(t, "idle"), holds' = [holds EXCEPT ![t] = Nil],
           status' = "UP", UNCHANGED <<calls, peerUp, panicked>>,
           answer' \in [Thread -> Message \cup {Nil}], OwnAnswer'
    PROVE  IInv'
  <1>1. /\ conn \in [Conn -> ConnType] /\ pool \in Seq(Conn) /\ d # Nil
        /\ size = Len(pool) /\ size \in 0..maxConn /\ maxConn \in Nat
        /\ pc' = [pc EXCEPT ![t] = "idle"]
        /\ UNCHANGED <<job, sends, peerUp, panicked>>
    BY ConnectionAssumption DEF IInv, TypeOK, PoolSound, Goto, calls
  <1>2. /\ holds'[t] = Nil /\ pc'[t] = "idle"
        /\ \A u \in Thread \ {t} : pc'[u] = pc[u] /\ holds'[u] = holds[u] /\ sends'[u] = sends[u]
    BY <1>1 DEF IInv, TypeOK
  <1>3. d \notin InPool /\ \A u \in Thread \ {t} : holds[u] # d
    BY <1>1 DEF IInv, PoolSound
  <1>4. GoroutineOK(t)'
    BY <1>2 DEF GoroutineOK
  <1>5. CASE /\ size < maxConn /\ pool' = Append(pool, d) /\ size' = size + 1
             /\ conn' = [conn EXCEPT ![d] = y]
    <2>1. conn' \in [Conn -> ConnType] /\ conn'[d] = y /\ \A c \in Conn \ {d} : conn'[c] = conn[c]
      BY <1>1, <1>5
    <2>2. TypeOK'
      BY <1>1, <1>5, <2>1 DEF IInv, TypeOK
    <2>3. /\ DOMAIN pool = 1..Len(pool) /\ DOMAIN pool' = 1..(Len(pool) + 1)
          /\ Len(pool) \in Nat /\ Len(pool') = Len(pool) + 1
          /\ pool'[Len(pool) + 1] = d /\ \A k \in DOMAIN pool : pool'[k] = pool[k]
      BY <1>1, <1>5
    <2>4. InPool' = InPool \cup {d}
      <3>1. \A k \in DOMAIN pool' : k = Len(pool) + 1 \/ k \in DOMAIN pool
        BY <2>3
      <3>2. DOMAIN pool \subseteq DOMAIN pool' /\ Len(pool) + 1 \in DOMAIN pool'
        BY <2>3
      <3> QED  BY <2>3, <3>1, <3>2 DEF InPool
    <2>5. \A k, l \in DOMAIN pool' : pool'[k] = pool'[l] => k = l
      <3>1. \A k \in DOMAIN pool : pool[k] # d
        BY <1>3 DEF InPool
      <3>2. \A k, l \in DOMAIN pool : pool[k] = pool[l] => k = l
        BY DEF IInv, PoolSound
      <3>3. \A k \in DOMAIN pool' : k = Len(pool) + 1 \/ k \in DOMAIN pool
        BY <2>3
      <3> QED  BY <2>3, <3>1, <3>2, <3>3
    <2>6. \A c \in InPool' : conn'[c].client = "open" /\ conn'[c].handshake
      BY <1>3, <2>1, <2>4, NilNotPooled DEF IInv, PoolSound
    <2>7. \A u \in Thread : holds'[u] \notin InPool'
      BY <1>1, <1>2, <1>3, <2>4, NilNotPooled DEF IInv, PoolSound
    <2>8. \A u, v \in Thread : (u # v /\ holds'[u] # Nil) => holds'[u] # holds'[v]
      BY <1>2 DEF IInv, PoolSound
    <2>9. size' = Len(pool') /\ size' <= maxConn
      BY <1>1, <1>5, <2>3
    <2>10. PoolSound'
      BY <2>5, <2>6, <2>7, <2>8, <2>9 DEF PoolSound
    <2>11. ConnOK(d)'
      BY <2>1 DEF ConnOK, Quiet
    <2> QED  BY <1>2, <1>3, <1>4, <2>1, <2>2, <2>10, <2>11, ClientSide
  <1>6. CASE /\ size >= maxConn
             /\ conn' = [[conn EXCEPT ![d] = y] EXCEPT ![d].client = "closed", ![d].down = <<>>]
             /\ UNCHANGED <<pool, size>>
    <2> DEFINE z == [y EXCEPT !.client = "closed", !.down = <<>>]
    <2>1. z \in ConnType /\ z.client = "closed" /\ Quiet(z) /\ z.server \in {"serving", "closed"}
      BY DEF ConnType, Quiet
    <2>2. conn' = [conn EXCEPT ![d] = z]
      BY <1>1, <1>6
    <2> HIDE DEF z
    <2>3. conn' \in [Conn -> ConnType] /\ conn'[d] = z /\ \A c \in Conn \ {d} : conn'[c] = conn[c]
      BY <1>1, <2>1, <2>2
    <2>4. TypeOK'
      BY <1>1, <1>6, <2>3 DEF IInv, TypeOK
    <2>5. PoolSound'
      <3>1. \A c \in InPool : conn'[c] = conn[c]
        BY <1>3, <2>3, NilNotPooled
      <3> QED  BY <1>2, <1>6, <3>1, NilNotPooled, PoolFrame DEF pooled
    <2>6. ConnOK(d)'
      BY <2>1, <2>3 DEF ConnOK, Quiet
    <2> QED  BY <1>2, <1>3, <1>4, <2>3, <2>4, <2>5, <2>6, ClientSide
  <1> QED  BY <1>5, <1>6 DEF Put

LEMMA FinishStartInv ==
    ASSUME IInv, NEW t \in Thread, FinishStart(t)
    PROVE  IInv'
  <1>1. PICK d \in Conn : d = holds[t]
    BY Holding DEF FinishStart
  <1>2. /\ conn[d] \in ConnType /\ conn[d].client = "open" /\ conn[d].handshake /\ Quiet(conn[d])
        /\ conn[d].server \in {"serving", "closed"}
        /\ [conn EXCEPT ![d] = conn[d]] = conn
    BY <1>1, Holding DEF FinishStart, IInv, TypeOK
  <1>3. /\ Put(d, [conn EXCEPT ![d] = conn[d]])
        /\ Goto(t, "idle") /\ holds' = [holds EXCEPT ![t] = Nil]
        /\ status' = "UP" /\ UNCHANGED <<calls, peerUp, panicked>>
    BY <1>1, <1>2 DEF FinishStart
  <1>4. answer' \in [Thread -> Message \cup {Nil}] /\ OwnAnswer'
    BY DEF FinishStart, IInv, TypeOK, OwnAnswer, calls
  <1> QED  BY <1>1, <1>2, <1>3, <1>4, PutInv

LEMMA ReadAnswerInv ==
    ASSUME IInv, NEW t \in Thread, ReadAnswer(t)
    PROVE  IInv'
  <1>1. PICK d \in Conn : d = holds[t]
    BY Holding DEF ReadAnswer
  <1>2. /\ conn[d] \in ConnType /\ conn[d].client = "open" /\ conn[d].handshake
        /\ conn \in [Conn -> ConnType] /\ conn[d].down # <<>>
        /\ Exchanging(conn[d], "serving", Requests(t), AnswerTo(t))
        /\ sends[t] \in 1..MaxSends
    BY <1>1, Holding DEF ReadAnswer, IInv, TypeOK
  <1>3. AnswerTo(t) \in Message
    BY <1>2, MessageTypes
  <1>4. /\ AfterRead(conn[d].down) = {<<>>} /\ Head(conn[d].down) = AnswerTo(t)
        /\ conn[d].up = <<>> /\ conn[d].server \in {"serving", "closed"}
    BY <1>2, <1>3, AnswerRead
  <1> DEFINE y == [conn[d] EXCEPT !.down = <<>>]
  <1>5. /\ y \in ConnType /\ y.client = "open" /\ y.handshake /\ Quiet(y)
        /\ y.server \in {"serving", "closed"}
    BY <1>2, <1>4 DEF ConnType, Quiet
  <1>6. [conn EXCEPT ![d].down = <<>>] = [conn EXCEPT ![d] = y]
    BY <1>2
  <1> HIDE DEF y
  <1>7. /\ Put(d, [conn EXCEPT ![d] = y])
        /\ Goto(t, "idle") /\ holds' = [holds EXCEPT ![t] = Nil]
        /\ status' = "UP" /\ UNCHANGED <<calls, peerUp, panicked>>
        /\ answer' = [answer EXCEPT ![t] = AnswerTo(t)]
    BY <1>1, <1>4, <1>6 DEF ReadAnswer
  <1>8. answer' \in [Thread -> Message \cup {Nil}] /\ OwnAnswer'
    BY <1>3, <1>7 DEF IInv, TypeOK, OwnAnswer, calls, AnswerTo
  <1> QED  BY <1>1, <1>5, <1>7, <1>8, PutInv
-----------------------------------------------------------------------------
LEMMA InitInv == Init => IInv
  <1> SUFFICES ASSUME Init
               PROVE  IInv
    OBVIOUS
  <1>1. TypeOK
    <2>1. [client |-> "unused", handshake |-> FALSE, up |-> <<>>, down |-> <<>>,
           server |-> "none"] \in ConnType
      BY DEF ConnType
    <2>2. conn \in [Conn -> ConnType]
      BY <2>1 DEF Init
    <2>3. size \in 0..maxConn /\ sends \in [Thread -> 0..MaxSends] /\ pool \in Seq(Conn)
      BY ConnectionAssumption DEF Init
    <2>4. answer \in [Thread -> Message \cup {Nil}] /\ holds \in [Thread -> Conn \cup {Nil}]
      BY DEF Init
    <2> QED  BY <2>2, <2>3, <2>4 DEF Init, TypeOK
  <1>2. InPool = {}
    BY DEF Init, InPool
  <1>3. PoolSound
    BY <1>2, ConnectionAssumption DEF Init, PoolSound
  <1>4. OwnAnswer /\ Counted
    BY DEF Init, OwnAnswer, Counted
  <1>5. ASSUME NEW t \in Thread PROVE GoroutineOK(t)
    BY DEF Init, GoroutineOK
  <1>6. ASSUME NEW c \in Conn PROVE ConnOK(c)
    BY DEF Init, ConnOK, Quiet
  <1> QED  BY <1>1, <1>3, <1>4, <1>5, <1>6 DEF IInv

LEMMA NextInv == IInv /\ [Next]_vars => IInv'
  <1> SUFFICES ASSUME IInv, [Next]_vars
               PROVE  IInv'
    OBVIOUS
  <1>1. CASE UNCHANGED vars
    <2>1. UNCHANGED <<pool, size, conn, pc, job, sends, holds, answer, status, peerUp, panicked>>
      BY <1>1 DEF vars, pooled, calls
    <2>2. TypeOK' /\ PoolSound' /\ OwnAnswer' /\ Counted'
      BY <2>1 DEF IInv, TypeOK, PoolSound, InPool, OwnAnswer, Counted
    <2>3. ASSUME NEW t \in Thread PROVE GoroutineOK(t)'
      BY <2>1, GoroutineFrame DEF IInv
    <2>4. ASSUME NEW c \in Conn PROVE ConnOK(c)'
      BY <2>1, ConnFrame DEF IInv
    <2> QED  BY <2>2, <2>3, <2>4 DEF IInv
  <1>2. ASSUME NEW t \in Thread, Step(t)
        PROVE  IInv'
    BY <1>2, CallInv, ConnectInv, SeePooledInv, TakeInv, TakeNilInv, GreetInv, ReadGreetingInv,
       FinishStartInv, WriteRequestInv, ReadAnswerInv, ReadFailsInv DEF Step
  <1>3. ASSUME NEW c \in Conn, ServerStep(c) \/ Break(c)
        PROVE  IInv'
    BY <1>3, OpenInv, ServeInv, HangupInv DEF ServerStep
  <1> QED  BY <1>1, <1>2, <1>3 DEF Next

\* The inductive invariant: which state each goroutine's connection is in, and that
\* messages are under way only on the connections goroutines work with
THEOREM Invariance == Spec => []IInv
  BY InitInv, NextInv, PTL DEF Spec

\* The connections, goroutines, counters and messages have their types
THEOREM TypeCorrect == Spec => []TypeOK
  <1>1. IInv => TypeOK
    BY DEF IInv
  <1> QED  BY Invariance, <1>1, PTL

\* ConnectionPool.Get and Put and SendMessage keep the pool sound: it counts its
\* connections, keeps to maxConn, holds only open and greeted ones, and none that a
\* goroutine is working with
THEOREM PoolStaysSound == Spec => []PoolSound
  <1>1. IInv => PoolSound
    BY DEF IInv
  <1> QED  BY Invariance, <1>1, PTL

\* SendMessage returns the answer to the message it sent: whatever exchange failed
\* before on whatever connection, no goroutine reads another's answer
THEOREM AnswersAreOwn == Spec => []OwnAnswer
  <1>1. IInv => OwnAnswer
    BY DEF IInv
  <1> QED  BY Invariance, <1>1, PTL

\* ReadMessage's throw-away buffer never holds a second message: one message at most
\* is unread on a connection, and none on a pooled one
THEOREM ExchangesAlternate == Spec => []LockStep
  <1>1. ASSUME IInv, NEW c \in Conn
        PROVE  /\ Len(conn[c].up) + Len(conn[c].down) <= 1
               /\ c \in InPool => conn[c].up = <<>> /\ conn[c].down = <<>>
    <2>1. CASE Quiet(conn[c])
      BY <2>1 DEF Quiet
    <2>2. CASE ~Quiet(conn[c])
      <3>1. PICK t \in Thread : holds[t] = c
        BY <1>1, <2>2 DEF IInv, ConnOK
      <3>2. c \notin InPool
        BY <1>1, <3>1 DEF IInv, PoolSound
      <3>3. GoroutineOK(t) /\ c # Nil
        BY <1>1, ConnectionAssumption DEF IInv
      <3>4. \/ (\E m : conn[c].up = <<m>>) /\ conn[c].down = <<>>
            \/ conn[c].up = <<>> /\ (\E m : conn[c].down = <<m>>)
        BY <2>2, <3>1, <3>3 DEF GoroutineOK, Exchanging
      <3>5. \/ Len(conn[c].up) = 1 /\ Len(conn[c].down) = 0
            \/ Len(conn[c].up) = 0 /\ Len(conn[c].down) = 1
        <4>1. CASE (\E m : conn[c].up = <<m>>) /\ conn[c].down = <<>>
          <5>1. PICK m : conn[c].up = <<m>>
            BY <4>1
          <5>2. Len(<<m>>) = 1
            OBVIOUS
          <5> QED  BY <4>1, <5>1, <5>2
        <4>2. CASE conn[c].up = <<>> /\ (\E m : conn[c].down = <<m>>)
          <5>1. PICK m : conn[c].down = <<m>>
            BY <4>2
          <5>2. Len(<<m>>) = 1
            OBVIOUS
          <5> QED  BY <4>2, <5>1, <5>2
        <4> QED  BY <3>4, <4>1, <4>2
      <3>6. \A a, b : (a = 1 /\ b = 0) \/ (a = 0 /\ b = 1) => a + b <= 1
        OBVIOUS
      <3>7. Len(conn[c].up) + Len(conn[c].down) <= 1
        BY <3>5, <3>6
      <3> QED  BY <3>2, <3>7
    <2> QED  BY <2>1, <2>2
  <1>2. IInv => LockStep
    BY <1>1 DEF LockStep
  <1> QED  BY Invariance, <1>2, PTL
=============================================================================
