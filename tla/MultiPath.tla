----------------------------- MODULE MultiPath -----------------------------
(***************************************************************************)
(* MultiPathClient (t2tunnel/multipath.go): a client that knows several    *)
(* servers, keeps one smux session to one of them and fails over.          *)
(*                                                                         *)
(* Each local connection is served by a goroutine, handleConn.  It obtains *)
(* the shared session from getSession, which holds m.mu while it dials the *)
(* servers in turn, and opens its stream on that session after m.mu is     *)
(* released, when the session may have failed or been replaced.            *)
(***************************************************************************)
EXTENDS Naturals, Smux

CONSTANTS
  Handler,     \* slots for handleConn goroutines; a slot is reused
  NServers,    \* len(m.servers)
  FailLimit,   \* failures after which a server is left alone for 30 s (3)
  OwnHandshake,\* -utls or -frag: dialTLS does the handshake, with no time-out
  LinkState,   \* what the network may do to the connections to a server
  ServerOf     \* ServerOf[s]: the server at the other end of session s

ASSUME NServersAssumption == NServers \in Nat \ {0}
ASSUME FailLimitAssumption == FailLimit \in Nat \ {0}
ASSUME OwnHandshakeAssumption == OwnHandshake \in BOOLEAN
\* "ok": dialling works and sessions last; "refusing": dialling fails and
\* sessions break; "resetting": dialling works, but sessions break; "silent":
\* connections are accepted and nothing is answered on them.
ASSUME LinkStateAssumption == LinkState \subseteq {"ok", "refusing", "resetting", "silent"}
ASSUME NoHandlerAssumption == None \notin Handler

Server == 0 .. NServers - 1

ASSUME ServerOfAssumption == ServerOf \in [SessionId -> Server]

VARIABLES
  \* MultiPathClient
  session,     \* m.session
  sessionSrv,  \* m.sessionSrv
  current,     \* m.current
  mu,          \* the goroutine holding m.mu across a blocking call, or None
  failCount,   \* failCount[k], counted up to FailLimit
  recent,      \* recent[k]: time.Since(lastFail) < 30 s
  \* handleConn and getSession
  pc,          \* pc[h]: where goroutine h is
  mine,        \* mine[h]: the session s that getSession returned to h
  srv,         \* srv[h]: the server srv that getSession returned to h
  i,           \* the loop counter of the getSession that holds m.mu, else 0
  \* the network
  link         \* link[k]: what the network does to connections to server k

clientVars == <<session, sessionSrv, current, failCount, recent>>
localVars == <<mine, srv>>
vars == <<clientVars, localVars, mu, pc, i, st, link>>

PC == {"idle", "getSession", "scan", "openStream", "markFailed", "pipe"}

TypeOK ==
  /\ SmuxTypeOK
  /\ session \in SessionId \cup {None}
  /\ sessionSrv \in Server \cup {None}
  /\ current \in Server
  /\ mu \in Handler \cup {None}
  /\ failCount \in [Server -> 0 .. FailLimit]
  /\ recent \in [Server -> BOOLEAN]
  /\ pc \in [Handler -> PC]
  /\ mine \in [Handler -> SessionId \cup {None}]
  /\ srv \in [Handler -> Server \cup {None}]
  /\ i \in 0 .. NServers
  /\ link \in [Server -> LinkState]

Init ==
  /\ SmuxInit
  /\ session = None
  /\ sessionSrv = None
  /\ current = 0
  /\ mu = None
  /\ failCount = [k \in Server |-> 0]
  /\ recent = [k \in Server |-> FALSE]
  /\ pc = [h \in Handler |-> "idle"]
  /\ mine = [h \in Handler |-> None]
  /\ srv = [h \in Handler |-> None]
  /\ i = 0
  /\ link \in [Server -> LinkState]

-----------------------------------------------------------------------------
(* Helpers *)

Goto(h, label) == pc' = [pc EXCEPT ![h] = label]

\* client.Close() and the end of the goroutine.
Exit(h) ==
  /\ Goto(h, "idle")
  /\ mine' = [mine EXCEPT ![h] = None]
  /\ srv' = [srv EXCEPT ![h] = None]

\* getSession returns (s, k, nil).
Return(h, s, k) ==
  /\ Goto(h, "openStream")
  /\ mine' = [mine EXCEPT ![h] = s]
  /\ srv' = [srv EXCEPT ![h] = k]

HaveSession_NotChecked == FALSE
HaveSession == session # None /\ ~IsClosed(session)

\* start is m.current, which only the holder of m.mu writes.
Idx == (current + i) % NServers

LoopDone_OneShort == i = NServers - 1
LoopDone == i = NServers

BackingOff_Forever(k) == failCount[k] >= FailLimit
BackingOff(k) == recent[k] /\ failCount[k] >= FailLimit

\* failCount is only ever compared with FailLimit, so counting stops there.
MarkFailedLocked(k) ==
  /\ failCount' = [failCount EXCEPT ![k] = IF @ < FailLimit THEN @ + 1 ELSE @]
  /\ recent' = [recent EXCEPT ![k] = TRUE]

\* The names for a new session to server k: no goroutine holds one of them,
\* and m.session is about to be overwritten.
Fresh(k) == {s \in SessionId : /\ ServerOf[s] = k
                               /\ IsClosed(s)
                               /\ \A h \in Handler : mine[h] # s}

Record_KeepsServer(s, k) ==
  /\ session' = s
  /\ sessionSrv' = IF sessionSrv = None THEN k ELSE sessionSrv
  /\ current' = k
  /\ failCount' = [failCount EXCEPT ![k] = 0]
  /\ UNCHANGED recent
Record(s, k) ==
  /\ session' = s
  /\ sessionSrv' = k
  /\ current' = k
  /\ failCount' = [failCount EXCEPT ![k] = 0]
  /\ UNCHANGED recent

DropSession_NotClosed == session' = None /\ UNCHANGED st
\* if m.session != nil { m.session.Close(); m.session = nil }
DropSession ==
  /\ session' = None
  /\ st' = IF session = None THEN st ELSE [st EXCEPT ![session] = "closed"]

-----------------------------------------------------------------------------
(* The client *)

\* Run accepts a local connection and starts handleConn.
Accept(h) ==
  /\ pc[h] = "idle"
  /\ Goto(h, "getSession")
  /\ UNCHANGED <<clientVars, localVars, mu, i, st, link>>

\* getSession takes m.mu and finds a session that is not closed.
ReuseSession(h) ==
  /\ pc[h] = "getSession"
  /\ mu = None
  /\ HaveSession
  /\ Return(h, session, sessionSrv)
  /\ UNCHANGED <<clientVars, mu, i, st, link>>

\* getSession takes m.mu, finds none and starts its loop over the servers.
BeginScan(h) ==
  /\ pc[h] = "getSession"
  /\ mu = None
  /\ ~HaveSession
  /\ mu' = h
  /\ Goto(h, "scan")
  /\ UNCHANGED <<clientVars, localVars, i, st, link>>

\* continue: the server failed too often, too recently.
SkipServer(h) ==
  /\ pc[h] = "scan"
  /\ ~LoopDone
  /\ BackingOff(Idx)
  /\ i' = i + 1
  /\ UNCHANGED <<clientVars, localVars, mu, pc, st, link>>

GivesUp_OnRefusalOnly(k) == link[k] = "refusing"
\* dialTLS gives up on a handshake: DialWithDialer has a time-out for it, which
\* its own calls of Handshake lack.
GivesUp(k) == link[k] = "refusing" \/ (link[k] = "silent" /\ ~OwnHandshake)

\* continue: dialWS or dialTLS returns an error (or smux.Client does, and the
\* connection is closed), which counts against the server.
DialFails(h) ==
  /\ pc[h] = "scan"
  /\ ~LoopDone
  /\ ~BackingOff(Idx)
  /\ GivesUp(Idx)
  /\ MarkFailedLocked(Idx)
  /\ i' = i + 1
  /\ UNCHANGED <<session, sessionSrv, current, localVars, mu, pc, st, link>>

\* The dial succeeds: the new session is recorded and returned, and the
\* deferred Unlock releases m.mu.
DialSucceeds(h) ==
  /\ pc[h] = "scan"
  /\ ~LoopDone
  /\ ~BackingOff(Idx)
  /\ link[Idx] \in {"ok", "resetting"}
  /\ \E s \in Fresh(Idx) :
       /\ Establish(s)
       /\ Record(s, Idx)
       /\ Return(h, s, Idx)
  /\ mu' = None
  /\ i' = 0
  /\ UNCHANGED link

AllServersDown_KeepsLock(h) ==
  /\ pc[h] = "scan"
  /\ LoopDone
  /\ Exit(h)
  /\ i' = 0
  /\ UNCHANGED <<clientVars, mu, st, link>>
\* The loop ends: errAllServersDown, and handleConn closes the client.
AllServersDown(h) ==
  /\ pc[h] = "scan"
  /\ LoopDone
  /\ Exit(h)
  /\ mu' = None
  /\ i' = 0
  /\ UNCHANGED <<clientVars, st, link>>

OpenStreamSucceeds(h) ==
  /\ pc[h] = "openStream"
  /\ CanOpenStream(mine[h])
  /\ Goto(h, "pipe")
  /\ UNCHANGED <<clientVars, localVars, mu, i, st, link>>

OpenStreamFails(h) ==
  /\ pc[h] = "openStream"
  /\ ~CanOpenStream(mine[h])
  /\ Goto(h, "markFailed")
  /\ UNCHANGED <<clientVars, localVars, mu, i, st, link>>

\* markFailed(srv) takes m.mu, counts a failure of srv and closes whatever
\* session m.session holds by then; handleConn closes the client.
MarkFailed(h) ==
  /\ pc[h] = "markFailed"
  /\ mu = None
  /\ MarkFailedLocked(srv[h])
  /\ DropSession
  /\ Exit(h)
  /\ UNCHANGED <<sessionSrv, current, mu, i, link>>

\* pipe returns: either side ended, or the session under the stream failed.
PipeReturns(h) ==
  /\ pc[h] = "pipe"
  /\ Exit(h)
  /\ UNCHANGED <<clientVars, mu, i, st, link>>

\* The session has ended.  A pipe whose local party has stopped reading may
\* outlast it (see Pipe), but the code has a goroutine for each local connection:
\* the slot h is then free for the next one all the same.
PipeBreaks(h) ==
  /\ pc[h] = "pipe"
  /\ ~CanOpenStream(mine[h])
  /\ PipeReturns(h)

-----------------------------------------------------------------------------
(* smux, the network and the clock *)

SessionBreaks(s) ==
  /\ link[ServerOf[s]] \in {"refusing", "resetting"}
  /\ SocketError(s)
  /\ UNCHANGED <<clientVars, localVars, mu, pc, i, link>>

\* The keep-alive expires on a session that is broken or merely silent.
SessionTimesOut(s) ==
  /\ st[s] = "broken" \/ link[ServerOf[s]] # "ok"
  /\ KeepAliveTimeout(s)
  /\ UNCHANGED <<clientVars, localVars, mu, pc, i, link>>

\* 30 s pass since server k last failed.
BackoffExpires(k) ==
  /\ recent[k]
  /\ recent' = [recent EXCEPT ![k] = FALSE]
  /\ UNCHANGED <<session, sessionSrv, current, failCount>>
  /\ UNCHANGED <<localVars, mu, pc, i, st, link>>

LinkChanges(k) ==
  /\ \E l \in LinkState \ {link[k]} : link' = [link EXCEPT ![k] = l]
  /\ UNCHANGED <<clientVars, localVars, mu, pc, i, st>>

GetSession(h) == ReuseSession(h) \/ BeginScan(h)
Scan(h) == SkipServer(h) \/ DialFails(h) \/ DialSucceeds(h) \/ AllServersDown(h)
OpenStream(h) == OpenStreamSucceeds(h) \/ OpenStreamFails(h)

Next ==
  \/ \E h \in Handler :
       \/ Accept(h)
       \/ GetSession(h)
       \/ Scan(h)
       \/ OpenStream(h)
       \/ MarkFailed(h)
       \/ PipeReturns(h)
  \/ \E s \in SessionId : SessionBreaks(s) \/ SessionTimesOut(s)
  \/ \E k \in Server : BackoffExpires(k) \/ LinkChanges(k)

Spec == Init /\ [][Next]_vars

\* Goroutines run, sync.Mutex starves no waiter, keep-alives and dials time out
\* (but see GivesUp), the clock advances, and local connections keep coming.
\* Nothing is assumed of the network, and a pipe whose session is up may last
\* for ever.
Fairness ==
  /\ \A h \in Handler :
       /\ WF_vars(Accept(h))
       /\ SF_vars(GetSession(h))
       /\ WF_vars(Scan(h))
       /\ WF_vars(OpenStream(h))
       /\ SF_vars(MarkFailed(h))
       /\ WF_vars(PipeBreaks(h))
  /\ \A s \in SessionId : WF_vars(SessionBreaks(s)) /\ WF_vars(SessionTimesOut(s))
  /\ \A k \in Server : WF_vars(BackoffExpires(k))

FairSpec == Spec /\ Fairness

-----------------------------------------------------------------------------
(* Properties *)

\* A session that is not closed is the one in m.session: whatever order
\* getSession and markFailed run in, no connection to a server is forgotten
\* while it is still open.
NoOrphanSession == \A s \in LiveSessions : session = s

\* The server a goroutine reports to markFailed is the server of the session
\* on which its OpenStream failed, even if m.session was replaced since.
BlameIsAccurate ==
  \A h \in Handler :
    pc[h] \in {"openStream", "markFailed"} =>
      mine[h] # None /\ srv[h] = ServerOf[mine[h]]

\* getSession gives up on a local connection only if every server has failed
\* since it was last connected to: the rotation from m.current leaves none
\* out, and nobody resets a failCount behind the back of the loop.
AllDownMeansAllFailed ==
  [][\A h \in Handler : pc[h] = "scan" /\ pc'[h] = "idle"
        => \A k \in Server : failCount[k] > 0]_vars

\* What the local connection of h is getting.
Phase == [h \in Handler |-> CASE pc[h] = "idle" -> "idle"
                              [] pc[h] = "pipe" -> "streaming"
                              [] OTHER -> "waiting"]

Shared == INSTANCE SharedSession WITH live <- LiveSessions, phase <- Phase

\* The multi-path client is a SharedSession: its local connections share one
\* connection to one server, through every failover.
ImplementsSharedSession == Shared!Spec

\* Every accepted connection is piped or closed: no goroutine waits for ever
\* for m.mu, a dial or a stream.
EveryClientResolved ==
  \A h \in Handler : pc[h] = "getSession" ~> pc[h] \in {"pipe", "idle"}

OnlyServer(k) == /\ link[k] = "ok"
                 /\ \A j \in Server \ {k} : GivesUp(j)

\* Failover: once server k works and dialling every other server fails, k is
\* found, its back-off notwithstanding, and connected to again and again.
FailoverReconnects ==
  \A k \in Server :
    <>[]OnlyServer(k) => []<>(HaveSession /\ sessionSrv = k)

\* Failover: once server k works and dialling every other server fails, local
\* connections are served.
FailoverServes ==
  \A k \in Server :
    <>[]OnlyServer(k) => []<>(\E h \in Handler : pc[h] = "pipe")

\* Failover: a server whose sessions keep breaking is left for a server that
\* works.
FailoverLeavesServer ==
  \A j \in Server :
    <>[](link[j] = "resetting" /\ \A k \in Server \ {j} : link[k] = "ok")
      => <>(session # None /\ sessionSrv # j)

\* Failover: a server that accepts connections and answers nothing is passed
\* over for a server that works.
FailoverPassesSilent ==
  \A j \in Server :
    <>[](link[j] = "silent" /\ \A k \in Server \ {j} : link[k] = "ok")
      => <>(session # None /\ sessionSrv # j)
=============================================================================
