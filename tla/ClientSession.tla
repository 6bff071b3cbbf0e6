--------------------------- MODULE ClientSession ---------------------------
(***************************************************************************)
(* The single-server clients: runClient (KCP), runClientTLS, runClientWS   *)
(* and runClientRaw.                                                       *)
(*                                                                         *)
(* The four share their text but for the dial and one difference: the      *)
(* getSession of runClientRaw takes no lock.  Each read and write of the   *)
(* shared variable session is a step here, so that the goroutines of       *)
(* runClientRaw interleave as they may; those of the other clients hold mu *)
(* over the whole of getSession, each step of dialTLS or dialWS included.  *)
(***************************************************************************)
EXTENDS Naturals, FiniteSets, SequencesExt, Smux, Dialer

CONSTANT
  Transports   \* the values of -transport to start the client with; "wss" is
               \* ws with TLS

ASSUME NoHandlerAssumption == None \notin Handler
ASSUME TransportsAssumption == Transports \subseteq {"kcp", "tls", "ws", "wss", "raw"}

VARIABLES
  transport,   \* the client that runs
  session,     \* the variable session shared by the goroutines
  mu,          \* the goroutine holding mu, or None
  pc,          \* pc[h]: where goroutine h is
  mine,        \* mine[h]: the local variable s of getSession, then of h
  link         \* "ok"; "down": dials fail, sockets break; "silent": a dialled
               \* server accepts the connection, but nothing is answered

flags == <<transport, utls, frag>>
vars == <<flags, session, mu, pc, mine, dial, st, link>>

PC == {"idle", "getSession", "check", "dial", "hello", "handshake", "upgrade",
       "store", "return", "openStream", "pipe"}

Link == {"ok", "down", "silent"}

TypeOK ==
  /\ SmuxTypeOK
  /\ DialerTypeOK
  /\ transport \in Transports
  /\ session \in SessionId \cup {None}
  /\ mu \in Handler \cup {None}
  /\ pc \in [Handler -> PC]
  /\ mine \in [Handler -> SessionId \cup {None}]
  /\ link \in Link

\* Only dialTLS looks at -utls and -frag.
Init ==
  /\ SmuxInit
  /\ DialerInit
  /\ transport \in Transports
  /\ transport \in {"tls", "wss"} \/ ~OwnHandshake
  /\ session = None
  /\ mu = None
  /\ pc = [h \in Handler |-> "idle"]
  /\ mine = [h \in Handler |-> None]
  /\ link \in Link

-----------------------------------------------------------------------------
(* Helpers *)

Locked_Never == FALSE
\* getSession begins with mu.Lock(); defer mu.Unlock().
Locked == transport # "raw"

\* kcp.DialWithOptions and kcp.NewConn3 send nothing: they succeed whether or
\* not there is a server.
Connectionless == transport \in {"kcp", "raw"}

Goto(h, label) == pc' = [pc EXCEPT ![h] = label]

Unlock == mu' = None

\* client.Close() and the end of the goroutine.
Exit(h) ==
  /\ Goto(h, "idle")
  /\ mine' = [mine EXCEPT ![h] = None]

HaveSession_NilOnly == session # None
HaveSession == session # None /\ ~IsClosed(session)

\* The names for a new session: nothing refers to them any more.
Fresh == {s \in SessionId : /\ IsClosed(s)
                            /\ session # s
                            /\ \A h \in Handler : mine[h] # s}

-----------------------------------------------------------------------------
(* The client *)

\* The accept loop starts a goroutine for a local connection.
Accept(h) ==
  /\ pc[h] = "idle"
  /\ Goto(h, "getSession")
  /\ UNCHANGED <<flags, session, mu, mine, st, link, dial>>

\* mu.Lock(), in the clients that have it.
Lock(h) ==
  /\ pc[h] = "getSession"
  /\ mu = None
  /\ mu' = IF Locked THEN h ELSE None
  /\ Goto(h, "check")
  /\ UNCHANGED <<flags, session, mine, st, link, dial>>

\* if session != nil && !session.IsClosed().  One step although session is
\* read twice: once it is not nil it stays so, and the second read decides.
Check(h) ==
  /\ pc[h] = "check"
  /\ Goto(h, IF HaveSession THEN "return" ELSE "dial")
  /\ UNCHANGED <<flags, session, mu, mine, st, link, dial>>

\* The session can be made: s is a local variable so far.
SessionMade(h) ==
  /\ \E s \in Fresh :
       /\ Establish(s)
       /\ mine' = [mine EXCEPT ![h] = s]
  /\ Goto(h, "store")

\* The dial fails before there is a connection; the local connection is closed.
DialFails(h) ==
  /\ pc[h] = "dial"
  /\ link = "down"
  /\ Exit(h)
  /\ Unlock
  /\ UNCHANGED <<flags, session, dial, st, link>>

\* kcp.DialWithOptions or kcp.NewConn3, then smux.Client.
DialSucceeds(h) ==
  /\ pc[h] = "dial"
  /\ Connectionless
  /\ SessionMade(h)
  /\ UNCHANGED <<flags, session, mu, dial, link>>

\* dialTLS or dialWS: the TCP connection is made.
DialConnects(h) ==
  /\ pc[h] = "dial"
  /\ ~Connectionless
  /\ link # "down"
  /\ Opens(h)
  /\ Goto(h, IF transport = "ws" THEN "upgrade" ELSE "hello")
  /\ UNCHANGED <<flags, session, mu, mine, st, link>>

\* Handshake writes the ClientHello, in one Write or in those of fragConn, and
\* then waits for the server.
WriteHello(h) ==
  /\ pc[h] = "hello"
  /\ IF HelloWritten(h) THEN Goto(h, "handshake") /\ UNCHANGED dial
                       ELSE WritesChunk(h) /\ UNCHANGED pc
  /\ UNCHANGED <<flags, session, mu, mine, st, link>>

\* The answer of the server that a dial waits for: the end of the TLS
\* handshake, or of the WebSocket upgrade that follows it.
Answered(h) ==
  /\ pc[h] = "handshake" \/ pc[h] = "upgrade"
  /\ link = "ok"
  /\ IF pc[h] = "handshake" /\ transport = "wss"
       THEN Goto(h, "upgrade") /\ UNCHANGED <<mine, dial, st>>
       ELSE SessionMade(h) /\ HandsOn(h)
  /\ UNCHANGED <<flags, session, mu, link>>

\* DialWithDialer and websocket.Dialer have time-outs; the calls of Handshake
\* in dialTLS have none.
TimesOut(h) == link = "silent" /\ (pc[h] = "upgrade" \/ ~OwnHandshake)

\* A Write, the handshake or the upgrade fails: the TCP connection and the local
\* connection are closed.
DialAborts(h) ==
  /\ pc[h] \in {"hello", "handshake", "upgrade"}
  /\ link = "down" \/ TimesOut(h)
  /\ Closes(h)
  /\ Exit(h)
  /\ Unlock
  /\ UNCHANGED <<flags, session, st, link>>

Store_Shadowed(h) ==
  /\ pc[h] = "store"
  /\ Goto(h, "return")
  /\ UNCHANGED <<flags, session, mu, mine, st, link, dial>>
\* session = s
Store(h) ==
  /\ pc[h] = "store"
  /\ session' = mine[h]
  /\ Goto(h, "return")
  /\ UNCHANGED <<flags, mu, mine, st, link, dial>>

Return_KeepsLock(h) ==
  /\ pc[h] = "return"
  /\ mine' = [mine EXCEPT ![h] = session]
  /\ Goto(h, "openStream")
  /\ UNCHANGED <<flags, session, mu, st, link, dial>>
\* return session, nil: the shared variable is read again, then unlocked.
Return(h) ==
  /\ pc[h] = "return"
  /\ mine' = [mine EXCEPT ![h] = session]
  /\ Goto(h, "openStream")
  /\ Unlock
  /\ UNCHANGED <<flags, session, st, link, dial>>

OpenStreamSucceeds(h) ==
  /\ pc[h] = "openStream"
  /\ CanOpenStream(mine[h])
  /\ Goto(h, "pipe")
  /\ UNCHANGED <<flags, session, mu, mine, st, link, dial>>

\* The local connection is closed; the session is left to its keep-alive.
OpenStreamFails(h) ==
  /\ pc[h] = "openStream"
  /\ ~CanOpenStream(mine[h])
  /\ Exit(h)
  /\ UNCHANGED <<flags, session, mu, st, link, dial>>

\* pipe returns: either side ended, or the session under the stream failed.
PipeReturns(h) ==
  /\ pc[h] = "pipe"
  /\ Exit(h)
  /\ UNCHANGED <<flags, session, mu, st, link, dial>>

\* The session has ended.  A pipe whose local party has stopped reading may
\* outlast it (see Pipe), but the code has a goroutine for each local connection:
\* the slot h is then free for the next one all the same.
PipeBreaks(h) ==
  /\ pc[h] = "pipe"
  /\ ~CanOpenStream(mine[h])
  /\ PipeReturns(h)

-----------------------------------------------------------------------------
(* smux and the network *)

SessionBreaks(s) ==
  /\ link = "down"
  /\ SocketError(s)
  /\ UNCHANGED <<flags, session, mu, pc, mine, link, dial>>

\* The keep-alive expires on a session that is broken or merely silent.
SessionTimesOut(s) ==
  /\ st[s] = "broken" \/ link # "ok"
  /\ KeepAliveTimeout(s)
  /\ UNCHANGED <<flags, session, mu, pc, mine, link, dial>>

LinkChanges ==
  /\ link' \in Link \ {link}
  /\ UNCHANGED <<flags, session, mu, pc, mine, st, dial>>

Dial(h) ==
  \/ DialFails(h) \/ DialSucceeds(h) \/ DialConnects(h)
  \/ WriteHello(h) \/ Answered(h) \/ DialAborts(h)
OpenStream(h) == OpenStreamSucceeds(h) \/ OpenStreamFails(h)

Next ==
  \/ \E h \in Handler :
       \/ Accept(h) \/ Lock(h) \/ Check(h) \/ Dial(h) \/ Store(h) \/ Return(h)
       \/ OpenStream(h) \/ PipeReturns(h)
  \/ \E s \in SessionId : SessionBreaks(s) \/ SessionTimesOut(s)
  \/ LinkChanges

Spec == Init /\ [][Next]_vars

\* Goroutines run, sync.Mutex starves no waiter, dials and keep-alives time
\* out, and local connections keep coming.  Nothing is assumed of the network,
\* and a pipe whose session is up may last for ever.
Fairness ==
  /\ \A h \in Handler :
       /\ WF_vars(Accept(h)) /\ SF_vars(Lock(h)) /\ WF_vars(Check(h))
       /\ WF_vars(Dial(h)) /\ WF_vars(Store(h)) /\ WF_vars(Return(h))
       /\ WF_vars(OpenStream(h)) /\ WF_vars(PipeBreaks(h))
  /\ \A s \in SessionId : WF_vars(SessionTimesOut(s))

FairSpec == Spec /\ Fairness

-----------------------------------------------------------------------------
(* Properties *)

\* getSession never returns a nil session without an error: s.OpenStream()
\* would crash the client.  Without a lock this rests on session never being
\* set back to nil.
NoNilSession == \A h \in Handler : pc[h] = "openStream" => mine[h] # None

\* What the local connection of h is getting.
Phase == [h \in Handler |-> CASE pc[h] = "idle" -> "idle"
                              [] pc[h] = "pipe" -> "streaming"
                              [] OTHER -> "waiting"]

\* The raw client promises nothing (see OneConnection).
Shared ==
  INSTANCE SharedSession
    WITH live <- IF transport = "raw" THEN {} ELSE LiveSessions,
         phase <- IF transport = "raw" THEN [h \in Handler |-> "idle"] ELSE Phase

\* The clients over KCP, TLS and WebSocket are a SharedSession: local
\* connections that arrive together share one connection to the server, and a
\* new one is made only when the previous one is closed.
ImplementsSharedSession == Shared!Spec

\* At most one connection to the server is open.
OneConnection == Cardinality(LiveSessions) <= 1

\* A dial that fails halfway leaves no TCP connection behind: each is owned by
\* a session, by a dial in progress, or closed.
DialLeavesNothing ==
  \A h \in Handler :
    open[h] = IF pc[h] \in {"hello", "handshake", "upgrade"} THEN 1 ELSE 0

\* Cut in whatever chunks, also after a dial that was aborted between two of
\* them, the server is sent the ClientHello: once, whole and in order.
HelloIntact ==
  \A h \in Handler :
    /\ IsPrefix(wire[h], Hello)
    /\ pc[h] = "handshake" => wire[h] = Hello

\* Every accepted connection is piped or closed: no goroutine waits for ever
\* for mu, a dial or a stream.  A server that never answers is given up, except
\* by the handshakes of -utls and -frag.  (The raw client may run out of the
\* names of sessions in a model, as it forgets sessions that are open.)
EveryClientResolved ==
  (OwnHandshake => <>[](link # "silent")) =>
    \A h \in Handler :
      pc[h] = "getSession" ~> pc[h] \in {"pipe", "idle"} \/ transport = "raw"

\* Reconnection: once the network stays up, there is a time after which no
\* local connection is refused, although nobody closes a broken session but
\* its keep-alive.
Reconnects ==
  <>[](link = "ok") =>
    \A h \in Handler : <>[](pc[h] = "openStream" => CanOpenStream(mine[h]))
=============================================================================
