------------------------------- MODULE Server -------------------------------
(***************************************************************************)
(* The tunnel server: the accept loops of runServer (KCP), runServerTLS    *)
(* and runServerWS, the WSListener under the last, and the sessions they   *)
(* start, handleServerSession and handleTLSServerSession, which are the    *)
(* same but for the type of conn.                                          *)
(*                                                                         *)
(* Everything is a goroutine of its own: the accept loop, each WebSocket   *)
(* upgrade, each session's loop over its streams, and each stream, which   *)
(* dials the target and pipes.  Channels and smux connect them.            *)
(***************************************************************************)
EXTENDS Naturals, Sequences

CONSTANTS
  Conn,        \* names for connections; a name is reused once all is released
  Stream,      \* slots for the streams of all sessions; a slot is reused
  None,        \* no connection
  Cap,         \* cap(l.accept) (64)
  Transports   \* the values of -transport to start the server with

ASSUME NoneAssumption == None \notin Conn
ASSUME CapAssumption == Cap \in Nat \ {0}
ASSUME TransportsAssumption == Transports \subseteq {"kcp", "tls", "ws"}

VARIABLES
  transport,   \* the server that runs
  main,        \* "accept": the accept loop waits; "done": the process ended
  accept,      \* l.accept, or the backlog of the KCP or TLS listener
  closer,      \* whether l.closer is closed
  http,        \* whether l.srv serves
  conn,        \* conn[c]: how far connection c has come
  sess,        \* sess[c]: its smux session: "up", "broken" or "closed"
  loop,        \* loop[c]: where its handleServerSession is
  pc,          \* pc[x]: where stream x is; at "pipe" and "write" it has a target
               \* connection, at "write" pipe waits for the target to read
  of           \* of[x]: the connection whose session stream x belongs to

lsnVars == <<accept, closer, http>>
streamVars == <<pc, of>>
vars == <<transport, main, lsnVars, conn, sess, loop, streamVars>>

TypeOK ==
  /\ transport \in Transports
  /\ main \in {"accept", "done"}
  /\ accept \in Seq(Conn)
  /\ closer \in BOOLEAN
  /\ http \in BOOLEAN
  /\ conn \in [Conn -> {"none", "upgrade", "offer", "queued", "open"}]
  /\ sess \in [Conn -> {"up", "broken", "closed"}]
  /\ loop \in [Conn -> {"none", "accept", "closeSession", "closeConn"}]
  /\ pc \in [Stream -> {"free", "backlog", "dial", "pipe", "write", "closeStream"}]
  /\ of \in [Stream -> Conn \cup {None}]

Nothing ==
  [accept |-> <<>>,
   conn |-> [c \in Conn |-> "none"],
   sess |-> [c \in Conn |-> "closed"],
   loop |-> [c \in Conn |-> "none"],
   pc |-> [x \in Stream |-> "free"],
   of |-> [x \in Stream |-> None]]

\* The listener has been opened.
Init ==
  /\ transport \in Transports
  /\ main = "accept"
  /\ accept = Nothing.accept
  /\ closer = FALSE
  /\ http = (transport = "ws")
  /\ conn = Nothing.conn
  /\ sess = Nothing.sess
  /\ loop = Nothing.loop
  /\ pc = Nothing.pc
  /\ of = Nothing.of

Advance(c, to) == conn' = [conn EXCEPT ![c] = to]
Goto(x, label) == pc' = [pc EXCEPT ![x] = label]

\* All that connection c held is released.
Released(c) ==
  /\ conn[c] = "none"
  /\ loop[c] = "none"
  /\ \A x \in Stream : of[x] # c

-----------------------------------------------------------------------------
(* Listeners *)

\* A client connects to the KCP or TLS listener.
Connect(c) ==
  /\ transport # "ws"
  /\ Released(c)
  /\ main = "accept"
  /\ accept' = Append(accept, c)
  /\ Advance(c, "queued")
  /\ UNCHANGED <<transport, main, closer, http, sess, loop, streamVars>>

\* A client asks for an upgrade at the right path; other requests get fakePage
\* and leave nothing behind.
Request(c) ==
  /\ http
  /\ Released(c)
  /\ Advance(c, "upgrade")
  /\ UNCHANGED <<transport, main, lsnVars, sess, loop, streamVars>>

UpgradeFails(c) ==
  /\ conn[c] = "upgrade"
  /\ Advance(c, "none")
  /\ UNCHANGED <<transport, main, lsnVars, sess, loop, streamVars>>

UpgradeSucceeds(c) ==
  /\ conn[c] = "upgrade"
  /\ Advance(c, "offer")
  /\ UNCHANGED <<transport, main, lsnVars, sess, loop, streamVars>>

HandOver_DropsWhenFull(c) ==
  /\ conn[c] = "offer"
  /\ accept' = IF Len(accept) < Cap THEN Append(accept, c) ELSE accept
  /\ Advance(c, "queued")
  /\ UNCHANGED <<transport, main, closer, http, sess, loop, streamVars>>
\* case l.accept <- newWSConn(c)
HandOver(c) ==
  /\ conn[c] = "offer"
  /\ Len(accept) < Cap
  /\ accept' = Append(accept, c)
  /\ Advance(c, "queued")
  /\ UNCHANGED <<transport, main, closer, http, sess, loop, streamVars>>

\* case <-l.closer: c.Close()
HandOverClosed(c) ==
  /\ conn[c] = "offer"
  /\ closer
  /\ Advance(c, "none")
  /\ UNCHANGED <<transport, main, lsnVars, sess, loop, streamVars>>

\* WSListener.Close; nothing in the repository calls it.
Close ==
  /\ transport = "ws"
  /\ closer' = TRUE
  /\ http' = FALSE
  /\ UNCHANGED <<transport, main, accept, conn, sess, loop, streamVars>>

\* l.srv.Serve returns by itself: it is logged, and Accept goes on waiting.
ServeEnds ==
  /\ http
  /\ http' = FALSE
  /\ UNCHANGED <<transport, main, accept, closer, conn, sess, loop, streamVars>>

-----------------------------------------------------------------------------
(* The accept loop *)

AcceptConn_Inline ==
  /\ main = "accept"
  /\ accept # <<>>
  /\ \A c \in Conn : loop[c] = "none"
  /\ accept' = Tail(accept)
  /\ LET c == Head(accept) IN
     /\ Advance(c, "open")
     /\ sess' = [sess EXCEPT ![c] = "up"]
     /\ loop' = [loop EXCEPT ![c] = "accept"]
  /\ UNCHANGED <<transport, main, closer, http, streamVars>>
\* Accept returns a connection and a goroutine is started, in which smux.Server
\* succeeds.  (An error of the KCP or TLS listener changes nothing: continue.)
AcceptConn ==
  /\ main = "accept"
  /\ accept # <<>>
  /\ accept' = Tail(accept)
  /\ LET c == Head(accept) IN
     /\ Advance(c, "open")
     /\ sess' = [sess EXCEPT ![c] = "up"]
     /\ loop' = [loop EXCEPT ![c] = "accept"]
  /\ UNCHANGED <<transport, main, closer, http, streamVars>>

\* WSListener.Accept returns net.ErrClosed, though connections may be left in
\* the channel: runServerWS and main return, and the process ends.
AcceptClosed ==
  /\ main = "accept"
  /\ closer
  /\ main' = "done"
  /\ http' = FALSE
  /\ accept' = Nothing.accept
  /\ conn' = Nothing.conn
  /\ sess' = Nothing.sess
  /\ loop' = Nothing.loop
  /\ pc' = Nothing.pc
  /\ of' = Nothing.of
  /\ UNCHANGED <<transport, closer>>

-----------------------------------------------------------------------------
(* A session *)

AcceptStream_Inline(x) ==
  /\ pc[x] = "backlog"
  /\ loop[of[x]] = "accept"
  /\ \A y \in Stream : of[y] = of[x] => pc[y] = "backlog"
  /\ Goto(x, "dial")
  /\ UNCHANGED <<transport, main, lsnVars, conn, sess, loop, of>>
\* session.AcceptStream() returns a stream, and a goroutine is started.  A
\* stream of the backlog may still be returned when the session has failed.
AcceptStream(x) ==
  /\ pc[x] = "backlog"
  /\ loop[of[x]] = "accept"
  /\ Goto(x, "dial")
  /\ UNCHANGED <<transport, main, lsnVars, conn, sess, loop, of>>

AcceptFails_Continue(c) ==
  /\ loop[c] = "accept"
  /\ sess[c] # "up"
  /\ UNCHANGED vars
\* session.AcceptStream() returns an error: return.
AcceptFails(c) ==
  /\ loop[c] = "accept"
  /\ sess[c] # "up"
  /\ loop' = [loop EXCEPT ![c] = "closeSession"]
  /\ UNCHANGED <<transport, main, lsnVars, conn, sess, streamVars>>

\* defer session.Close(): nobody will accept what is left in the backlog.
CloseSession(c) ==
  /\ loop[c] = "closeSession"
  /\ sess' = [sess EXCEPT ![c] = "closed"]
  /\ LET left == {x \in Stream : of[x] = c /\ pc[x] = "backlog"} IN
     /\ pc' = [x \in Stream |-> IF x \in left THEN "free" ELSE pc[x]]
     /\ of' = [x \in Stream |-> IF x \in left THEN None ELSE of[x]]
  /\ loop' = [loop EXCEPT ![c] = "closeConn"]
  /\ UNCHANGED <<transport, main, lsnVars, conn>>

\* defer conn.Close()
CloseConn(c) ==
  /\ loop[c] = "closeConn"
  /\ Advance(c, "none")
  /\ loop' = [loop EXCEPT ![c] = "none"]
  /\ UNCHANGED <<transport, main, lsnVars, sess, streamVars>>

-----------------------------------------------------------------------------
(* The goroutine of a stream *)

DialFails(x) ==
  /\ pc[x] = "dial"
  /\ Goto(x, "closeStream")
  /\ UNCHANGED <<transport, main, lsnVars, conn, sess, loop, of>>

\* dialTCP(target) succeeds, possibly after the session has ended.
DialSucceeds(x) ==
  /\ pc[x] = "dial"
  /\ Goto(x, "pipe")
  /\ UNCHANGED <<transport, main, lsnVars, conn, sess, loop, of>>

\* The target has stopped reading: the goroutine of pipe that copies to it is
\* blocked in out.Write and does not look at the stream meanwhile.
TargetStalls(x) ==
  /\ pc[x] = "pipe"
  /\ Goto(x, "write")
  /\ UNCHANGED <<transport, main, lsnVars, conn, sess, loop, of>>

TargetReads(x) ==
  /\ pc[x] = "write"
  /\ Goto(x, "pipe")
  /\ UNCHANGED <<transport, main, lsnVars, conn, sess, loop, of>>

\* pipe(s, out) returns; it has closed both (ReturnsClean of Pipe).
PipeReturns(x) ==
  /\ pc[x] \in {"pipe", "write"}
  /\ Goto(x, "closeStream")
  /\ UNCHANGED <<transport, main, lsnVars, conn, sess, loop, of>>

\* The part of PipeReturns that is certain to happen: reading the stream fails
\* once its session has, unless the goroutine that would read it is blocked.
PipeBreaks(x) ==
  /\ pc[x] = "pipe"
  /\ sess[of[x]] # "up"
  /\ PipeReturns(x)

\* defer s.Close()
CloseStream(x) ==
  /\ pc[x] = "closeStream"
  /\ Goto(x, "free")
  /\ of' = [of EXCEPT ![x] = None]
  /\ UNCHANGED <<transport, main, lsnVars, conn, sess, loop>>

-----------------------------------------------------------------------------
(* smux and the client *)

ClientOpensStream(c, x) ==
  /\ sess[c] = "up"
  /\ pc[x] = "free"
  /\ Goto(x, "backlog")
  /\ of' = [of EXCEPT ![x] = c]
  /\ UNCHANGED <<transport, main, lsnVars, conn, sess, loop>>

SocketError(c) ==
  /\ sess[c] = "up"
  /\ sess' = [sess EXCEPT ![c] = "broken"]
  /\ UNCHANGED <<transport, main, lsnVars, conn, loop, streamVars>>

KeepAliveTimeout(c) ==
  /\ sess[c] # "closed"
  /\ sess' = [sess EXCEPT ![c] = "closed"]
  /\ UNCHANGED <<transport, main, lsnVars, conn, loop, streamVars>>

Upgrade(c) == UpgradeFails(c) \/ UpgradeSucceeds(c)
Select(c) == HandOver(c) \/ HandOverClosed(c)
AcceptLoop == AcceptConn \/ AcceptClosed
SessionLoop(c) == AcceptFails(c) \/ CloseSession(c) \/ CloseConn(c)
Dial(x) == DialFails(x) \/ DialSucceeds(x)

Next ==
  \/ AcceptLoop \/ Close \/ ServeEnds
  \/ \E c \in Conn :
       \/ Connect(c) \/ Request(c) \/ Upgrade(c) \/ Select(c)
       \/ SessionLoop(c) \/ SocketError(c) \/ KeepAliveTimeout(c)
       \/ \E x \in Stream : ClientOpensStream(c, x)
  \/ \E x \in Stream :
       \/ AcceptStream(x) \/ Dial(x) \/ CloseStream(x)
       \/ TargetStalls(x) \/ TargetReads(x) \/ PipeReturns(x)

Spec == Init /\ [][Next]_vars

\* The next step of the goroutine that serves connection c, and of the one that
\* serves stream x, when it is certain to come.
ConnStep(c) == Upgrade(c) \/ SessionLoop(c)
StreamStep(x) == AcceptStream(x) \/ Dial(x) \/ CloseStream(x)

\* Goroutines run, an upgrade has a time-out of 12 s and dialTCP one of 10 s.
\* A channel serves its senders in turn (SF), AcceptStream serves its backlog
\* in order, so none of it waits for ever; but it may prefer the backlog to the
\* error of the session as long as there is one.  A pipe whose session is up, or
\* whose target does not read, may last for ever.  One whose target reads again
\* and again gets to the error of a session that has ended (SF): what is left in
\* the buffer of the stream is finite.
Fairness ==
  /\ WF_vars(AcceptConn)
  /\ \A c \in Conn :
       /\ WF_vars(ConnStep(c))
       /\ SF_vars(Select(c))
  /\ \A x \in Stream :
       /\ WF_vars(StreamStep(x))
       /\ SF_vars(PipeBreaks(x))

FairSpec == Spec /\ Fairness

-----------------------------------------------------------------------------
(* Properties *)

\* Nothing is handed over to nobody: a connection that waits for the accept loop
\* is in the channel, and a stream that waits for its session's loop belongs to
\* a session whose loop will accept it or drop it, whichever of the session and
\* the client ends first.
NoneStranded ==
  /\ \A c \in Conn : conn[c] = "queued" => \E k \in DOMAIN accept : accept[k] = c
  /\ \A x \in Stream : pc[x] = "backlog" => loop[of[x]] \in {"accept", "closeSession"}

\* A client that was let in is given a session, or its connection is closed,
\* while other sessions last as long as they like, whatever becomes of the HTTP
\* server or the listener.
EveryConnectionServed ==
  \A c \in Conn : conn[c] \in {"upgrade", "offer", "queued"} ~> conn[c] \in {"open", "none"}

\* When a session ends, what it holds is released: its transport connection in
\* any case, though its streams may last; and each stream's goroutine with its
\* connection to the target, the one still being dialled included, unless that
\* target never reads again.  No other stream that is stuck prevents it.
SessionEndReleases ==
  /\ \A c \in Conn : conn[c] = "open" /\ sess[c] # "up" ~> conn[c] = "none"
  /\ \A x \in Stream :
       []<>(pc[x] # "write") =>
         (pc[x] # "free" /\ sess[of[x]] # "up" ~> pc[x] = "free")

\* Streams do not wait for one another, nor for other sessions: one whose pipe
\* never returns does not keep others from being accepted.
StreamsAreIndependent ==
  \A x \in Stream : pc[x] = "backlog" ~> pc[x] # "backlog"
=============================================================================
