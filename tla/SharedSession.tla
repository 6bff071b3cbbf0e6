--------------------------- MODULE SharedSession ---------------------------
(***************************************************************************)
(* What a tunnel client promises, whatever its transport: the local        *)
(* connections it accepts share ONE connection to a server.                *)
(*                                                                         *)
(* A new connection is made only when there is none, a local connection    *)
(* gets a stream only while there is one, and every other local connection *)
(* is refused.                                                             *)
(***************************************************************************)
CONSTANTS
  Handler,     \* the goroutines serving local connections
  SessionId    \* names for connections to a server

VARIABLES
  live,        \* the connections to a server that are open
  phase        \* phase[h]: what h's local connection is getting

vars == <<live, phase>>

PhaseName == {"idle", "waiting", "streaming"}

TypeOK ==
  /\ live \in SUBSET SessionId
  /\ phase \in [Handler -> PhaseName]

Init ==
  /\ live = {}
  /\ phase = [h \in Handler |-> "idle"]

Arrive(h) ==
  /\ phase[h] = "idle"
  /\ phase' = [phase EXCEPT ![h] = "waiting"]
  /\ UNCHANGED live

Connect ==
  /\ live = {}
  /\ \E s \in SessionId : live' = {s}
  /\ UNCHANGED phase

Disconnect ==
  /\ live' = {}
  /\ UNCHANGED phase

Attach(h) ==
  /\ phase[h] = "waiting"
  /\ live # {}
  /\ phase' = [phase EXCEPT ![h] = "streaming"]
  /\ UNCHANGED live

\* The local connection is closed without a stream; the connection to the
\* server may be given up in the same step.
Refuse(h) ==
  /\ phase[h] = "waiting"
  /\ phase' = [phase EXCEPT ![h] = "idle"]
  /\ live' \in {live, {}}

Finish(h) ==
  /\ phase[h] = "streaming"
  /\ phase' = [phase EXCEPT ![h] = "idle"]
  /\ UNCHANGED live

Next ==
  \/ Connect
  \/ Disconnect
  \/ \E h \in Handler : Arrive(h) \/ Attach(h) \/ Refuse(h) \/ Finish(h)

Spec == Init /\ [][Next]_vars
=============================================================================
