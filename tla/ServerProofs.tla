---------------------------- MODULE ServerProofs ----------------------------
(***************************************************************************)
(* Proofs about Server, for any number of connections and streams and any  *)
(* capacity of the channel between the WebSocket upgrades and the accept   *)
(* loop.                                                                   *)
(***************************************************************************)
EXTENDS Server, TLAPS

USE NoneAssumption, CapAssumption, TransportsAssumption

\* What the state is before the first connection and after the end.
LEMMA NothingFacts ==
  /\ Nothing.accept = <<>> /\ Nothing.accept \in Seq(Conn)
  /\ Nothing.conn = [c \in Conn |-> "none"]
  /\ Nothing.sess = [c \in Conn |-> "closed"]
  /\ Nothing.loop = [c \in Conn |-> "none"]
  /\ Nothing.pc = [x \in Stream |-> "free"]
  /\ Nothing.of = [x \in Stream |-> None]
BY DEF Nothing

LEMMA TypeInit == Init => TypeOK
<1> SUFFICES ASSUME Init PROVE TypeOK
  OBVIOUS
<1>1. http = TRUE \/ http = FALSE
  <2>1. CASE transport = "ws"
    BY <2>1 DEF Init
  <2>2. CASE transport # "ws"
    BY <2>2 DEF Init
  <2> QED
    BY <2>1, <2>2
<1>2. http \in BOOLEAN /\ closer \in BOOLEAN
  BY <1>1 DEF Init
<1> QED
  BY <1>2, NothingFacts DEF Init, TypeOK

LEMMA TypeNext == TypeOK /\ [Next]_vars => TypeOK'
<1> SUFFICES ASSUME TypeOK, [Next]_vars PROVE TypeOK'
  OBVIOUS
<1> USE DEF TypeOK, Advance, Goto, lsnVars, streamVars
<1>1. CASE AcceptConn
  <2>1. /\ Head(accept) \in Conn
        /\ Tail(accept) \in Seq(Conn)
    BY <1>1 DEF AcceptConn
  <2> QED
    BY <1>1, <2>1 DEF AcceptConn
<1>2. CASE AcceptClosed
  <2>1. /\ accept' \in Seq(Conn)
        /\ conn' = [c \in Conn |-> "none"]
        /\ sess' = [c \in Conn |-> "closed"]
        /\ loop' = [c \in Conn |-> "none"]
        /\ pc' = [x \in Stream |-> "free"]
        /\ of' = [x \in Stream |-> None]
    BY <1>2, NothingFacts DEF AcceptClosed
  <2>2. /\ transport' = transport /\ main' = "done"
        /\ closer' \in BOOLEAN /\ http' \in BOOLEAN
    BY <1>2 DEF AcceptClosed
  <2> QED
    BY <2>1, <2>2
<1>3. CASE Close \/ ServeEnds
  BY <1>3 DEF Close, ServeEnds
<1>4. ASSUME NEW c \in Conn, Connect(c) \/ HandOver(c) PROVE TypeOK'
  <2>1. Append(accept, c) \in Seq(Conn)
    OBVIOUS
  <2> QED
    BY <1>4, <2>1 DEF Connect, HandOver
<1>5. ASSUME NEW c \in Conn, Request(c) \/ Upgrade(c) \/ HandOverClosed(c) PROVE TypeOK'
  BY <1>5 DEF Request, Upgrade, UpgradeFails, UpgradeSucceeds, HandOverClosed
<1>6. ASSUME NEW c \in Conn, AcceptFails(c) \/ CloseConn(c) PROVE TypeOK'
  BY <1>6 DEF AcceptFails, CloseConn
<1>7. ASSUME NEW c \in Conn, CloseSession(c) PROVE TypeOK'
  BY <1>7 DEF CloseSession
<1>8. ASSUME NEW c \in Conn, SocketError(c) \/ KeepAliveTimeout(c) PROVE TypeOK'
  BY <1>8 DEF SocketError, KeepAliveTimeout
<1>9. ASSUME NEW c \in Conn, NEW x \in Stream, ClientOpensStream(c, x) PROVE TypeOK'
  BY <1>9 DEF ClientOpensStream
<1>10. ASSUME NEW x \in Stream, AcceptStream(x) \/ Dial(x) \/ CloseStream(x)
       PROVE  TypeOK'
  BY <1>10 DEF AcceptStream, Dial, DialFails, DialSucceeds, CloseStream
<1>12. ASSUME NEW x \in Stream, TargetStalls(x) \/ TargetReads(x) \/ PipeReturns(x)
       PROVE  TypeOK'
  BY <1>12 DEF TargetStalls, TargetReads, PipeReturns
<1>11. CASE UNCHANGED vars
  BY <1>11 DEF vars
<1> HIDE DEF TypeOK
<1> QED
  BY <1>1, <1>2, <1>3, <1>4, <1>5, <1>6, <1>7, <1>8, <1>9, <1>10, <1>11, <1>12
     DEF Next, AcceptLoop, Select, SessionLoop

\* All state of the server stays in range.
THEOREM TypeCorrect == Spec => []TypeOK
BY TypeInit, TypeNext, PTL DEF Spec

-----------------------------------------------------------------------------
(* Nothing is stranded *)

\* A client can open streams only while the loop of the session accepts them:
\* the loop leaves AcceptStream only when the session has failed.
UpInv == \A c \in Conn : sess[c] = "up" => loop[c] = "accept"

\* A slot that is in use belongs to a connection.
OwnerInv == \A x \in Stream : pc[x] # "free" => of[x] \in Conn

QueuedInv == \A c \in Conn : conn[c] = "queued" => \E k \in DOMAIN accept : accept[k] = c

BacklogInv ==
  \A x \in Stream : pc[x] = "backlog" => loop[of[x]] \in {"accept", "closeSession"}

\* The channel is a queue: what is sent comes last, and only the first is taken.
LEMMA QueueFacts ==
  ASSUME NEW q \in Seq(Conn)
  PROVE  /\ \A c \in Conn : \A d \in Conn :
              (d = c \/ \E k \in DOMAIN q : q[k] = d)
                => \E k \in DOMAIN Append(q, c) : Append(q, c)[k] = d
         /\ q # <<>> => \A d \in Conn :
              (d # Head(q) /\ \E k \in DOMAIN q : q[k] = d)
                => \E k \in DOMAIN Tail(q) : Tail(q)[k] = d
<1>1. ASSUME NEW c \in Conn, NEW d \in Conn, d = c
      PROVE  \E k \in DOMAIN Append(q, c) : Append(q, c)[k] = d
  <2>1. Len(q) + 1 \in DOMAIN Append(q, c) /\ Append(q, c)[Len(q) + 1] = c
    OBVIOUS
  <2> QED
    BY <1>1, <2>1
<1>2. ASSUME NEW c \in Conn, NEW d \in Conn, NEW k \in DOMAIN q, q[k] = d
      PROVE  \E j \in DOMAIN Append(q, c) : Append(q, c)[j] = d
  <2>1. k \in DOMAIN Append(q, c) /\ Append(q, c)[k] = q[k]
    OBVIOUS
  <2> QED
    BY <1>2, <2>1
<1>3. ASSUME q # <<>>, NEW d \in Conn, d # Head(q), NEW k \in DOMAIN q, q[k] = d
      PROVE  \E j \in DOMAIN Tail(q) : Tail(q)[j] = d
  <2>1. k \in 1 .. Len(q) /\ k # 1
    BY <1>3
  <2>2. k - 1 \in DOMAIN Tail(q) /\ Tail(q)[k - 1] = q[k]
    BY <1>3, <2>1
  <2> QED
    BY <1>3, <2>2
<1> QED
  BY <1>1, <1>2, <1>3

IInv == TypeOK /\ UpInv /\ OwnerInv /\ QueuedInv /\ BacklogInv

LEMMA IInvInit == Init => IInv
BY TypeInit, NothingFacts DEF Init, IInv, UpInv, OwnerInv, QueuedInv, BacklogInv

LEMMA QueuedNext == TypeOK /\ QueuedInv /\ [Next]_vars => QueuedInv'
<1> SUFFICES ASSUME TypeOK, QueuedInv, [Next]_vars PROVE QueuedInv'
  OBVIOUS
<1>0. accept \in Seq(Conn) /\ conn \in [Conn -> {"none", "upgrade", "offer", "queued", "open"}]
  BY DEF TypeOK
<1> USE <1>0 DEF QueuedInv, Advance, lsnVars
<1>1. CASE AcceptConn
  <2>1. accept # <<>> /\ accept' = Tail(accept) /\ conn' = [conn EXCEPT ![Head(accept)] = "open"]
    BY <1>1 DEF AcceptConn
  <2> QED
    BY <2>1, QueueFacts
<1>2. CASE AcceptClosed
  BY <1>2, NothingFacts DEF AcceptClosed
<1>3. ASSUME NEW c \in Conn, Connect(c) \/ HandOver(c) PROVE QueuedInv'
  <2>1. accept' = Append(accept, c) /\ conn' = [conn EXCEPT ![c] = "queued"]
    BY <1>3 DEF Connect, HandOver
  <2>2. ASSUME NEW d \in Conn, conn'[d] = "queued"
        PROVE  \E k \in DOMAIN Append(accept, c) : Append(accept, c)[k] = d
    <3>1. d = c \/ \E k \in DOMAIN accept : accept[k] = d
      BY <2>1, <2>2
    <3> QED
      BY <3>1, QueueFacts
  <2> QED
    BY <2>1, <2>2
<1>4. ASSUME NEW c \in Conn, Request(c) \/ Upgrade(c) \/ HandOverClosed(c) \/ CloseConn(c)
      PROVE  QueuedInv'
  BY <1>4 DEF Request, Upgrade, UpgradeFails, UpgradeSucceeds, HandOverClosed, CloseConn
<1>5. CASE UNCHANGED <<accept, conn>>
  BY <1>5
<1> QED
  BY <1>1, <1>2, <1>3, <1>4, <1>5
     DEF Next, vars, AcceptLoop, Select, SessionLoop, Close, ServeEnds, AcceptFails,
         CloseSession, SocketError, KeepAliveTimeout, ClientOpensStream, AcceptStream, Dial,
         DialFails, DialSucceeds, TargetStalls, TargetReads, PipeReturns, CloseStream

LEMMA IInvNext == IInv /\ [Next]_vars => IInv'
<1> SUFFICES ASSUME IInv, [Next]_vars PROVE IInv'
  OBVIOUS
<1>0. TypeOK /\ TypeOK' /\ QueuedInv'
  BY TypeNext, QueuedNext DEF IInv
<1> DEFINE Rest == UpInv /\ OwnerInv /\ BacklogInv
<1> SUFFICES Rest'
  BY <1>0 DEF IInv
<1> USE <1>0 DEF IInv, UpInv, OwnerInv, BacklogInv, TypeOK, Goto, lsnVars, streamVars
<1>1. CASE AcceptConn
  <2>1. Head(accept) \in Conn
    BY <1>1 DEF AcceptConn
  <2> QED
    BY <1>1, <2>1 DEF AcceptConn
<1>2. CASE AcceptClosed
  BY <1>2, NothingFacts DEF AcceptClosed
<1>3. ASSUME NEW c \in Conn, AcceptFails(c) \/ CloseConn(c) PROVE Rest'
  BY <1>3 DEF AcceptFails, CloseConn
<1>4. ASSUME NEW c \in Conn, CloseSession(c) PROVE Rest'
  BY <1>4 DEF CloseSession
<1>5. ASSUME NEW c \in Conn, SocketError(c) \/ KeepAliveTimeout(c) PROVE Rest'
  BY <1>5 DEF SocketError, KeepAliveTimeout
<1>6. ASSUME NEW c \in Conn, NEW x \in Stream, ClientOpensStream(c, x) PROVE Rest'
  BY <1>6 DEF ClientOpensStream
<1>7. ASSUME NEW x \in Stream, AcceptStream(x) \/ Dial(x) \/ CloseStream(x)
      PROVE  Rest'
  BY <1>7 DEF AcceptStream, Dial, DialFails, DialSucceeds, CloseStream
<1>9. ASSUME NEW x \in Stream, TargetStalls(x) \/ TargetReads(x) \/ PipeReturns(x)
      PROVE  Rest'
  BY <1>9 DEF TargetStalls, TargetReads, PipeReturns
<1>8. CASE UNCHANGED <<sess, loop, streamVars>>
  BY <1>8
<1> HIDE DEF Rest
<1> QED
  BY <1>1, <1>2, <1>3, <1>4, <1>5, <1>6, <1>7, <1>8, <1>9
     DEF Next, vars, AcceptLoop, Close, ServeEnds, Connect, Request, Upgrade, UpgradeFails,
         UpgradeSucceeds, Select, HandOver, HandOverClosed, SessionLoop

\* Whoever waits for the accept loop or for the loop of a session is where that
\* loop will find it.
THEOREM NothingStranded == Spec => []NoneStranded
<1>1. IInv => NoneStranded
  BY DEF IInv, QueuedInv, BacklogInv, NoneStranded
<1> QED
  BY IInvInit, IInvNext, <1>1, PTL DEF Spec
=============================================================================
