------------------------------- MODULE Smux -------------------------------
(***************************************************************************)
(* The smux sessions a tunnel client multiplexes its streams on.           *)
(*                                                                         *)
(* smux is a library (github.com/xtaci/smux): this module states what the  *)
(* clients in engine*.go and multipath.go rely on, and no more:            *)
(*                                                                         *)
(*  - IsClosed() tells whether Close() was called, by the client or by     *)
(*    smux itself when the keep-alive of smuxConfig() expires;             *)
(*  - a session whose socket has failed is "broken" until then: OpenStream *)
(*    returns an error on it although IsClosed() is still false.  The      *)
(*    clients check the two separately because of this window.             *)
(***************************************************************************)
CONSTANTS
  SessionId,   \* names for sessions; a name is reused once nobody holds it
  None         \* Go's nil

ASSUME NoneAssumption == None \notin SessionId

VARIABLE st    \* st[s]: the state of session s

SessionState == {"up", "broken", "closed"}

SmuxTypeOK == st \in [SessionId -> SessionState]

\* A name that denotes no session is "closed".
SmuxInit == st = [s \in SessionId |-> "closed"]

IsClosed(s) == st[s] = "closed"

\* The sessions that still own a connection to a server.
LiveSessions == {s \in SessionId : ~IsClosed(s)}

\* s.OpenStream() succeeds.
CanOpenStream(s) == st[s] = "up"

\* smux.Client(conn, smuxConfig()) returns the session s.
Establish(s) == st' = [st EXCEPT ![s] = "up"]

\* The socket under s fails: reset, time-out, end of file.
SocketError(s) ==
  /\ st[s] = "up"
  /\ st' = [st EXCEPT ![s] = "broken"]

\* Nothing has arrived on s for KeepAliveTimeout: smux closes it.
KeepAliveTimeout(s) ==
  /\ ~IsClosed(s)
  /\ st' = [st EXCEPT ![s] = "closed"]
=============================================================================
