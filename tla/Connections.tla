---------------------------- MODULE Connections ----------------------------
(***************************************************************************)
(* A RemoteNode and the connections to its peer: goroutines that call      *)
(* SendMessage take a connection from the pool or open one, greet the peer *)
(* on it, exchange one request and one answer, and put it back.  The peer  *)
(* runs handleConnection for each connection.  A connection is one byte    *)
(* stream in each direction; ReadMessage puts a buffered reader of its own *)
(* on it at every call, and what that reads beyond the message is lost.    *)
(***************************************************************************)
EXTENDS Integers, Sequences, FiniteSets

CONSTANTS
    Thread,    \* goroutines that send messages to the peer
    Conn,      \* the connections there may ever be (a bound)
    maxConn,   \* of the pool
    MaxSends,  \* bound: messages a goroutine sends
    Fragile,   \* connections that may break at any time
    Nil

ASSUME ConnectionAssumption ==
    /\ IsFiniteSet(Thread) /\ IsFiniteSet(Conn) /\ Fragile \subseteq Conn
    /\ maxConn \in Nat /\ MaxSends \in Nat
    /\ Nil \notin Conn

VARIABLES
    pool,      \* the linked list of the pool
    size,      \* and its counter
    conn,      \* connection -> its two ends
    pc,        \* goroutine -> where it is in SendMessage or Start
    job,       \* goroutine -> which of the two it runs
    holds,     \* goroutine -> the connection it works with
    sends,     \* goroutine -> how many messages it has begun to send
    answer,    \* goroutine -> the answer of its last exchange, or Nil
    status,    \* of the RemoteNode
    peerUp,    \* the peer's process has not panicked
    panicked   \* this process has

pooled == <<pool, size>>
calls  == <<job, sends>>
vars == <<pooled, conn, pc, calls, holds, answer, status, peerUp, panicked>>

\* Requests the peer answers (peer discovery, streaming), those executeRequest does
\* not know (all of consensus) and those it has no code for (reads, writes, stream
\* data), answers, and the greeting.  A request has the goroutine and a number as id
Message == [type : {"Request", "Unexpected", "Unreachable", "Response"}, by : Thread, n : 1..MaxSends]
              \cup [type : {"ConnectionRequest", "ConnectionAccepted", "ConnectionRefused"}]

\* client: the state of Connection.isClosed and its socket; server: that of
\* handleConnection
ConnType == [client    : {"unused", "open", "closed"},
             handshake : BOOLEAN,
             up        : Seq(Message),
             down      : Seq(Message),
             server    : {"none", "opening", "serving", "closed"}]

TypeOK ==
    /\ pool \in Seq(Conn)
    /\ size \in 0..maxConn
    /\ conn \in [Conn -> ConnType]
    /\ pc \in [Thread -> {"idle", "get", "lock", "greet", "greeted", "ready", "await"}]
    /\ job \in [Thread -> {"Start", "SendMessage"}]
    /\ holds \in [Thread -> Conn \cup {Nil}]
    /\ sends \in [Thread -> 0..MaxSends]
    /\ answer \in [Thread -> Message \cup {Nil}]
    /\ status \in {"INITIALIZING", "UP", "DOWN"}
    /\ peerUp \in BOOLEAN
    /\ panicked \in BOOLEAN

Init ==
    /\ pool = <<>>
    /\ size = 0
    /\ conn = [c \in Conn |-> [client |-> "unused", handshake |-> FALSE,
                               up |-> <<>>, down |-> <<>>, server |-> "none"]]
    /\ pc = [t \in Thread |-> "idle"]
    /\ job = [t \in Thread |-> "Start"]
    /\ holds = [t \in Thread |-> Nil]
    /\ sends = [t \in Thread |-> 0]
    /\ answer = [t \in Thread |-> Nil]
    /\ status = "INITIALIZING"
    /\ peerUp = TRUE
    /\ panicked = FALSE
-----------------------------------------------------------------------------
\* What ReadMessage may leave in the stream s: it takes the first message, and its
\* buffer any number of those that have arrived behind it
AfterRead(s) == {SubSeq(s, k, Len(s)) : k \in 2..(Len(s) + 1)}

Greeting == [type |-> "ConnectionRequest"]
RequestOf(t, type) == [type |-> type, by |-> t, n |-> sends[t]]

\* Goroutine t goes on to p
Goto(t, p) == pc' = [pc EXCEPT ![t] = p]

\* SendMessage or Start returns an error; f is what becomes of the connection
Fail(t, f) ==
    /\ status' = IF pc[t] = "get" /\ job[t] = "Start" THEN status ELSE "DOWN"
    /\ conn' = f
    /\ Goto(t, "idle")
    /\ holds' = [holds EXCEPT ![t] = Nil]
    /\ answer' = [answer EXCEPT ![t] = Nil]
    /\ UNCHANGED <<pooled, calls, peerUp, panicked>>

\* The client closes c; what the server has not read may still reach it
Close(c) == [conn EXCEPT ![c].client = "closed", ![c].down = <<>>]
-----------------------------------------------------------------------------
\* A goroutine calls SendMessage or Start, which call getConnection
Call(t, method) ==
    /\ pc[t] = "idle"
    /\ sends[t] < MaxSends
    /\ sends' = [sends EXCEPT ![t] = @ + 1]
    /\ job' = [job EXCEPT ![t] = method]
    /\ answer' = [answer EXCEPT ![t] = Nil]
    /\ Goto(t, "get")
    /\ UNCHANGED <<pooled, conn, holds, status, peerUp, panicked>>

\* Get sees, without the lock, that the pool is empty: it opens a connection, or
\* cannot within the millisecond it allows
Connect(t) ==
    /\ pc[t] = "get"
    /\ pool = <<>>
    /\ \/ \E c \in Conn :
             /\ peerUp
             /\ conn[c].client = "unused"
             /\ conn' = [conn EXCEPT ![c].client = "open", ![c].server = "opening"]
             /\ holds' = [holds EXCEPT ![t] = c]
             /\ Goto(t, "greet")
             /\ UNCHANGED <<pooled, calls, answer, status, peerUp, panicked>>
       \/ Fail(t, conn)

\* or that it is not
SeePooled(t) ==
    /\ pc[t] = "get"
    /\ pool # <<>>
    /\ Goto(t, "lock")
    /\ UNCHANGED <<pooled, conn, holds, calls, answer, status, peerUp, panicked>>

\* Mutant: the connection stays in the pool
TakeKeeps(t) ==
    /\ pc[t] = "lock"
    /\ pool # <<>>
    /\ holds' = [holds EXCEPT ![t] = Head(pool)]
    /\ Goto(t, "ready")
    /\ UNCHANGED <<pooled, conn, calls, answer, status, peerUp, panicked>>

\* With the lock, Get takes the first connection
Take(t) ==
    LET c == Head(pool)
    IN  /\ pc[t] = "lock"
        /\ pool # <<>>
        /\ holds' = [holds EXCEPT ![t] = c]
        /\ pool' = Tail(pool)
        /\ size' = size - 1
        /\ Goto(t, IF conn[c].handshake THEN "ready" ELSE "greet")
        /\ UNCHANGED <<conn, calls, answer, status, peerUp, panicked>>

\* though another goroutine may have taken the last one since: cp.pool is nil
TakeNil(t) ==
    /\ pc[t] = "lock"
    /\ pool = <<>>
    /\ panicked' = TRUE
    /\ UNCHANGED <<pooled, conn, pc, holds, calls, answer, status, peerUp>>

\* WriteMessage of m.  To a peer that is gone it fails, or the bytes are lost
Write(t, m, next) ==
    LET c == holds[t]
    IN  \/ /\ conn' = IF conn[c].server = "closed" THEN conn
                      ELSE [conn EXCEPT ![c].up = Append(@, m)]
           /\ Goto(t, next)
           /\ UNCHANGED <<pooled, holds, calls, answer, status, peerUp, panicked>>
        \/ /\ conn[c].server = "closed"
           /\ Fail(t, Close(c))

\* getConnection on a new connection
Greet(t) == pc[t] = "greet" /\ Write(t, Greeting, "greeted")

\* Nothing to read and the other end closed: ReadMessage returns an error
ReadFails(t) ==
    LET c == holds[t]
    IN  /\ pc[t] \in {"greeted", "await"}
        /\ conn[c].down = <<>>
        /\ conn[c].server = "closed"
        /\ Fail(t, Close(c))

\* The answer to the greeting; a refusal leaves the connection as it is.  The
\* node's id, datacenter and token are taken from the first acceptance
ReadGreeting(t) ==
    LET c == holds[t]
        accepted == Head(conn[c].down).type = "ConnectionAccepted"
    IN  /\ pc[t] = "greeted"
        /\ conn[c].down # <<>>
        /\ \E rest \in AfterRead(conn[c].down) :
              IF accepted
              THEN /\ conn' = [conn EXCEPT ![c].down = rest, ![c].handshake = TRUE]
                   /\ Goto(t, "ready")
                   /\ UNCHANGED <<pooled, holds, calls, answer, status, peerUp, panicked>>
              ELSE Fail(t, [conn EXCEPT ![c].down = rest])

\* Mutant: the connection goes back to the pool before the answer is read
WriteRequestEarly(t) ==
    LET c == holds[t]
    IN  /\ pc[t] = "ready"
        /\ job[t] = "SendMessage"
        /\ conn' = [conn EXCEPT ![c].up = Append(@, RequestOf(t, "Request"))]
        /\ Goto(t, "await")
        /\ pool' = Append(pool, c)
        /\ size' = size + 1
        /\ UNCHANGED <<holds, calls, answer, status, peerUp, panicked>>

WriteRequest(t) ==
    /\ pc[t] = "ready"
    /\ job[t] = "SendMessage"
    /\ \E type \in {"Request", "Unexpected", "Unreachable"} : Write(t, RequestOf(t, type), "await")

\* Mutant: the connection is not counted
PutUncounted(c, f) ==
    /\ pool' = Append(pool, c)
    /\ conn' = f
    /\ UNCHANGED size

\* Put of a connection c that is not closed, f being the connections by then: a
\* full pool closes it
Put(c, f) ==
    \/ /\ size < maxConn
       /\ pool' = Append(pool, c)
       /\ size' = size + 1
       /\ conn' = f
    \/ /\ size >= maxConn
       /\ conn' = [f EXCEPT ![c].client = "closed", ![c].down = <<>>]
       /\ UNCHANGED <<pool, size>>

\* Start has its connection, pools it and marks the node
FinishStart(t) ==
    /\ pc[t] = "ready"
    /\ job[t] = "Start"
    /\ Put(holds[t], conn)
    /\ status' = "UP"
    /\ Goto(t, "idle")
    /\ holds' = [holds EXCEPT ![t] = Nil]
    /\ UNCHANGED <<calls, answer, peerUp, panicked>>

\* SendMessage has its answer
ReadAnswer(t) ==
    LET c == holds[t]
    IN  /\ pc[t] = "await"
        /\ conn[c].down # <<>>
        /\ \E rest \in AfterRead(conn[c].down) : Put(c, [conn EXCEPT ![c].down = rest])
        /\ answer' = [answer EXCEPT ![t] = Head(conn[c].down)]
        /\ status' = "UP"
        /\ Goto(t, "idle")
        /\ holds' = [holds EXCEPT ![t] = Nil]
        /\ UNCHANGED <<calls, peerUp, panicked>>
-----------------------------------------------------------------------------
\* What the server does on c leaves the RemoteNode alone
Served(c, up, down, server) ==
    /\ conn' = [conn EXCEPT ![c].up = up,
                            ![c].down = IF conn[c].client = "closed" THEN <<>> ELSE down,
                            ![c].server = server]
    /\ UNCHANGED <<pooled, pc, holds, calls, answer, status, peerUp, panicked>>

\* handleConnection reads its opening message, and refuses anything but a greeting
Open(c) ==
    /\ conn[c].server = "opening"
    /\ conn[c].up # <<>>
    /\ \E rest \in AfterRead(conn[c].up) :
          IF Head(conn[c].up) = Greeting
          THEN Served(c, rest, Append(conn[c].down, [type |-> "ConnectionAccepted"]), "serving")
          ELSE Served(c, rest, Append(conn[c].down, [type |-> "ConnectionRefused"]), "closed")

\* Mutant: a request that is not expected is passed over in silence
ServeSilently(c) ==
    /\ conn[c].server = "serving"
    /\ conn[c].up # <<>>
    /\ LET m == Head(conn[c].up)
       IN  Served(c, Tail(conn[c].up),
                  IF m.type = "Request" THEN Append(conn[c].down, [m EXCEPT !.type = "Response"])
                  ELSE conn[c].down, "serving")

\* One turn of its loop: executeRequest answers, or fails and the connection is
\* closed, or panics and takes the peer with it
Serve(c) ==
    /\ conn[c].server = "serving"
    /\ conn[c].up # <<>>
    /\ LET m == Head(conn[c].up)
       IN  \/ /\ m.type = "Request"
              /\ \E rest \in AfterRead(conn[c].up) :
                    Served(c, rest, Append(conn[c].down, [m EXCEPT !.type = "Response"]), "serving")
           \/ /\ m.type \notin {"Request", "Unreachable"}
              /\ Served(c, <<>>, conn[c].down, "closed")
           \/ /\ m.type = "Unreachable"
              /\ peerUp' = FALSE
              /\ conn' = [d \in Conn |-> IF conn[d].server = "none" THEN conn[d]
                           ELSE [conn[d] EXCEPT !.server = "closed", !.up = <<>>]]
              /\ UNCHANGED <<pooled, pc, holds, calls, answer, status, panicked>>

\* The client has closed the connection: the server's read fails
Hangup(c) ==
    /\ conn[c].server \in {"opening", "serving"}
    /\ conn[c].client = "closed"
    /\ conn[c].up = <<>>
    /\ Served(c, <<>>, <<>>, "closed")

\* The connection breaks: both ends will find it closed, what was on its way is lost
Break(c) ==
    /\ c \in Fragile
    /\ conn[c].client = "open"
    /\ conn[c].server \in {"opening", "serving"}
    /\ Served(c, <<>>, <<>>, "closed")
-----------------------------------------------------------------------------
Step(t) ==
    \/ \E method \in {"Start", "SendMessage"} : Call(t, method)
    \/ Connect(t)      \/ SeePooled(t)    \/ Take(t)       \/ TakeNil(t)
    \/ Greet(t)        \/ ReadGreeting(t) \/ FinishStart(t) \/ WriteRequest(t)
    \/ ReadAnswer(t)   \/ ReadFails(t)

ServerStep(c) == Open(c) \/ Serve(c) \/ Hangup(c)

Next ==
    /\ ~panicked
    /\ \/ \E t \in Thread : Step(t)
       \/ \E c \in Conn : ServerStep(c) \/ Break(c)

Spec == Init /\ [][Next]_vars

(***************************************************************************)
(* Goroutines run on, at the client and at the peer, whose Accept loop has *)
(* taken every connection that was opened.                                 *)
(***************************************************************************)
FairSpec ==
    /\ Spec
    /\ \A t \in Thread : WF_vars(~panicked /\ Step(t))
    /\ \A c \in Conn : WF_vars(~panicked /\ ServerStep(c))
-----------------------------------------------------------------------------
InPool == {pool[k] : k \in DOMAIN pool}

(***************************************************************************)
(* SendMessage returns the answer to its own message and not one that was  *)
(* left on a connection by an earlier exchange, or was meant for another   *)
(* goroutine (SendMessage, handleConnection).                              *)
(***************************************************************************)
OwnAnswer ==
    \A t \in Thread : answer[t] # Nil =>
        answer[t] = [type |-> "Response", by |-> t, n |-> sends[t]]

(***************************************************************************)
(* Requests and answers alternate on every connection, so that the buffer  *)
(* ReadMessage throws away after each message never holds another one: no  *)
(* more than one message is unread, in both directions together, and none  *)
(* on a connection that is in the pool (ReadMessage, SendMessage).         *)
(***************************************************************************)
LockStep ==
    \A c \in Conn :
        /\ Len(conn[c].up) + Len(conn[c].down) <= 1
        /\ c \in InPool => conn[c].up = <<>> /\ conn[c].down = <<>>

(***************************************************************************)
(* The pool is sound whatever exchanges failed or ended in between: it     *)
(* counts its connections and keeps to its limit, has only open ones on    *)
(* which the peer has been greeted and none that a failed exchange left    *)
(* half way, and a connection is in the hands of one goroutine or once in  *)
(* the pool, never both (Get, Put, getConnection, SendMessage).            *)
(***************************************************************************)
PoolSound ==
    /\ size = Len(pool)
    /\ size <= maxConn
    /\ \A c \in InPool : conn[c].client = "open" /\ conn[c].handshake
    /\ \A k, l \in DOMAIN pool : pool[k] = pool[l] => k = l
    /\ \A t \in Thread : holds[t] \notin InPool
    /\ \A t, u \in Thread : (t # u /\ holds[t] # Nil) => holds[t] # holds[u]

(***************************************************************************)
(* A message that is sent is answered or fails: no goroutine waits for     *)
(* ever on a peer that dropped its request, refused it or hung up          *)
(* (SendMessage has no timeout).                                           *)
(***************************************************************************)
SendEnds == \A t \in Thread : pc[t] = "await" ~> (pc[t] # "await" \/ panicked)
=============================================================================
