-------------------------------- MODULE Pipe --------------------------------
(***************************************************************************)
(* pipe(a, b) of t2tunnel/engine.go: the relay between a local connection  *)
(* and a stream of the tunnel, at either side of it.                       *)
(*                                                                         *)
(* Two goroutines io.Copy, one in each direction.  Whichever ends first    *)
(* closes both ends, and pipe returns when both goroutines are done.  The  *)
(* goroutine that reads from end e is named e.                             *)
(*                                                                         *)
(* One end is a TCP connection and one a smux stream: ordered, with a      *)
(* bounded window towards a remote party that may send, stop sending,      *)
(* reset the connection, or stop reading.  The party of a stream is        *)
(* another pipe, so when it finishes it closes the stream and reads no     *)
(* more; that of a TCP connection may still read.                          *)
(*                                                                         *)
(* A chunk is what one Read returns; chunks are numbered by the order in   *)
(* which the remote party sent them, so the position reached in each       *)
(* direction is all there is to know.                                      *)
(***************************************************************************)
EXTENDS Naturals

CONSTANTS
  MaxChunks,   \* bound: chunks each remote party may send
  Window       \* chunks written to an end before the remote party must read

ASSUME MaxChunksAssumption == MaxChunks \in Nat
ASSUME WindowAssumption == Window \in Nat \ {0}

End == {"a", "b"}
Other(e) == IF e = "a" THEN "b" ELSE "a"

VARIABLES
  \* the goroutines of pipe
  pc,          \* pc[e]: where the goroutine that reads from e is
  once,        \* the sync.Once: "new", "running" or "done"
  returned,    \* wg.Wait() has returned
  \* the ends
  open,        \* open[e]: Close() was not called on e
  got,         \* got[e]: chunks read from e
  put,         \* put[e]: chunks written to e
  \* the remote parties
  stream,      \* the end that is a smux stream: "a" at the server, "b" at the client
  remote,      \* remote[e]: what the remote party of e did to the connection
  sent,        \* sent[e]: chunks it sent
  seen         \* seen[e]: chunks it has read

pipeVars == <<pc, once, returned, open, got, put>>
remoteVars == <<stream, remote, sent, seen>>
vars == <<pipeVars, remoteVars>>

PC == {"read", "write", "ended", "closeA", "closeB", "done"}

TypeOK ==
  /\ pc \in [End -> PC]
  /\ once \in {"new", "running", "done"}
  /\ returned \in BOOLEAN
  /\ open \in [End -> BOOLEAN]
  /\ got \in [End -> 0 .. MaxChunks]
  /\ put \in [End -> 0 .. MaxChunks]
  /\ stream \in End
  /\ remote \in [End -> {"open", "eof", "reset"}]
  /\ sent \in [End -> 0 .. MaxChunks]
  /\ seen \in [End -> 0 .. MaxChunks]

Init ==
  /\ pc = [e \in End |-> "read"]
  /\ once = "new"
  /\ returned = FALSE
  /\ open = [e \in End |-> TRUE]
  /\ got = [e \in End |-> 0]
  /\ put = [e \in End |-> 0]
  /\ stream \in End
  /\ remote = [e \in End |-> "open"]
  /\ sent = [e \in End |-> 0]
  /\ seen = [e \in End |-> 0]

-----------------------------------------------------------------------------
(* io.Copy *)

Goto(e, label) == pc' = [pc EXCEPT ![e] = label]

\* Read returns an error.
Failed(e) == ~open[e] \/ remote[e] = "reset"

\* Nobody reads what is written to e.
Gone(e) == remote[e] = "reset" \/ (e = stream /\ remote[e] = "eof")

\* Write returns an error: smux refuses to write to a stream that its peer has
\* closed, though what the peer sent before can still be read.
Unwritable(e) == ~open[e] \/ Gone(e)

ReadChunk(e) ==
  /\ pc[e] = "read"
  /\ ~Failed(e)
  /\ got[e] < sent[e]
  /\ got' = [got EXCEPT ![e] = @ + 1]
  /\ Goto(e, "write")
  /\ UNCHANGED <<once, returned, open, put, remoteVars>>

\* Read returns io.EOF only once everything sent was read.
AtEOF(e) == remote[e] = "eof" /\ got[e] = sent[e]

ReadEnds(e) ==
  /\ pc[e] = "read"
  /\ Failed(e) \/ AtEOF(e)
  /\ Goto(e, "ended")
  /\ UNCHANGED <<once, returned, open, got, put, remoteVars>>

\* Write blocks while the window is full.
WriteChunk(e) ==
  LET dst == Other(e) IN
  /\ pc[e] = "write"
  /\ ~Unwritable(dst)
  /\ put[dst] - seen[dst] < Window
  /\ put' = [put EXCEPT ![dst] = @ + 1]
  /\ Goto(e, "read")
  /\ UNCHANGED <<once, returned, open, got, remoteVars>>

WriteEnds(e) ==
  /\ pc[e] = "write"
  /\ Unwritable(Other(e))
  /\ Goto(e, "ended")
  /\ UNCHANGED <<once, returned, open, got, put, remoteVars>>

-----------------------------------------------------------------------------
(* once.Do(closeBoth) and wg.Wait() *)

BeginClose_BesideCopy(e) ==
  /\ pc[e] \in {"read", "ended"}
  /\ once = "new"
  /\ once' = "running"
  /\ Goto(e, "closeA")
  /\ UNCHANGED <<returned, open, got, put, remoteVars>>
\* The first goroutine to arrive runs closeBoth.
BeginClose(e) ==
  /\ pc[e] = "ended"
  /\ once = "new"
  /\ once' = "running"
  /\ Goto(e, "closeA")
  /\ UNCHANGED <<returned, open, got, put, remoteVars>>

\* The second one waits until closeBoth has returned.
SkipClose(e) ==
  /\ pc[e] = "ended"
  /\ once = "done"
  /\ Goto(e, "done")
  /\ UNCHANGED <<once, returned, open, got, put, remoteVars>>

CloseA(e) ==
  /\ pc[e] = "closeA"
  /\ open' = [open EXCEPT !["a"] = FALSE]
  /\ Goto(e, "closeB")
  /\ UNCHANGED <<once, returned, got, put, remoteVars>>

CloseB_NotClosed(e) ==
  /\ pc[e] = "closeB"
  /\ once' = "done"
  /\ Goto(e, "done")
  /\ UNCHANGED <<returned, open, got, put, remoteVars>>
CloseB(e) ==
  /\ pc[e] = "closeB"
  /\ open' = [open EXCEPT !["b"] = FALSE]
  /\ once' = "done"
  /\ Goto(e, "done")
  /\ UNCHANGED <<returned, got, put, remoteVars>>

WaitReturns_AddOne ==
  /\ \E e \in End : pc[e] = "done"
  /\ ~returned
  /\ returned' = TRUE
  /\ UNCHANGED <<pc, once, open, got, put, remoteVars>>
WaitReturns ==
  /\ \A e \in End : pc[e] = "done"
  /\ ~returned
  /\ returned' = TRUE
  /\ UNCHANGED <<pc, once, open, got, put, remoteVars>>

-----------------------------------------------------------------------------
(* The remote parties *)

RemoteSends(e) ==
  /\ remote[e] = "open"
  /\ sent[e] < MaxChunks
  /\ sent' = [sent EXCEPT ![e] = @ + 1]
  /\ UNCHANGED <<pipeVars, stream, remote, seen>>

\* It sends no more; if it is the peer of a stream, it has closed it.
RemoteFinishes(e) ==
  /\ remote[e] = "open"
  /\ remote' = [remote EXCEPT ![e] = "eof"]
  /\ UNCHANGED <<pipeVars, stream, sent, seen>>

\* It is gone: a TCP reset, or the smux session under the stream has failed.
RemoteResets(e) ==
  /\ remote[e] # "reset"
  /\ remote' = [remote EXCEPT ![e] = "reset"]
  /\ UNCHANGED <<pipeVars, stream, sent, seen>>

RemoteReads(e) ==
  /\ ~Gone(e)
  /\ seen[e] < put[e]
  /\ seen' = [seen EXCEPT ![e] = @ + 1]
  /\ UNCHANGED <<pipeVars, stream, remote, sent>>

Copy(e) == ReadChunk(e) \/ ReadEnds(e) \/ WriteChunk(e) \/ WriteEnds(e)
OnceDo(e) == BeginClose(e) \/ SkipClose(e) \/ CloseA(e) \/ CloseB(e)

Next ==
  \/ \E e \in End : Copy(e) \/ OnceDo(e)
  \/ WaitReturns
  \/ \E e \in End : \/ RemoteSends(e)
                    \/ RemoteFinishes(e)
                    \/ RemoteResets(e)
                    \/ RemoteReads(e)

Spec == Init /\ [][Next]_vars

\* Goroutines run.  Nothing is assumed of the remote parties.
Fairness ==
  /\ \A e \in End : WF_vars(Copy(e)) /\ WF_vars(OnceDo(e))
  /\ WF_vars(WaitReturns)

FairSpec == Spec /\ Fairness

-----------------------------------------------------------------------------
(* Properties *)

\* A direction that was read to its end was also written to its end.
Delivered(e) == remote[e] = "eof" /\ put[Other(e)] = sent[e]

\* The peer of the stream has closed it while there was something to write to it.
Refused(e) == e = stream /\ remote[e] = "eof" /\ got[Other(e)] > put[e]

\* pipe cuts a connection for a reason only: one party is gone, or one party
\* finished and the whole of what it sent was written to the other.  A stream
\* that its peer has closed is cut before all of what it sent was delivered only
\* if the other party had sent something that could not be delivered to it.
EndsForAReason ==
  once # "new" =>
    \E e \in End : remote[e] = "reset" \/ Delivered(e) \/ Refused(e)

\* pipe leaks neither end: both are closed, and no goroutine of it still
\* touches them, when it returns.
ReturnsClean ==
  returned => \A e \in End : ~open[e] /\ pc[e] = "done"

\* Once one goroutine has ended, pipe returns whatever the remote parties do:
\* closing both ends frees the other goroutine from a Read without data and
\* from a Write to a party that has stopped reading.
ClosingFrees == \A e \in End : pc[e] = "ended" ~> returned

\* If the remote parties keep reading while they are there, the end of one is
\* noticed: pipe returns.
EndPropagates ==
  (\A e \in End : []<>(seen[e] = put[e] \/ Gone(e)))
    => \A e \in End : remote[e] # "open" ~> returned
=============================================================================
