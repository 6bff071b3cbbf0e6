----------------------------- MODULE PipeProofs -----------------------------
(***************************************************************************)
(* Proofs about Pipe, for any number of chunks and any window.             *)
(***************************************************************************)
EXTENDS Pipe, TLAPS

USE MaxChunksAssumption, WindowAssumption DEF End, Other

\* What goroutine e has written is what it has read, but for the chunk in its
\* buffer.
CopyInv ==
  \A e \in End :
    /\ got[e] <= sent[e]
    /\ put[Other(e)] <= got[e]
    /\ pc[e] = "read" => put[Other(e)] = got[e]
    /\ pc[e] = "write" => put[Other(e)] + 1 = got[e]

\* Whatever ended a goroutine, or closed an end, is a reason to end.
Reason == \E e \in End : remote[e] = "reset" \/ Delivered(e) \/ Refused(e)

ReasonInv ==
  /\ \A e \in End : ~open[e] => once # "new"
  /\ \A e \in End : pc[e] \notin {"read", "write"} => Reason
  /\ once # "new" => Reason

\* The sync.Once is done when both ends are closed.
OnceInv ==
  /\ \A e \in End : pc[e] \in {"closeA", "closeB"} => once # "new"
  /\ \A e \in End : pc[e] = "closeB" => ~open["a"]
  /\ \A e \in End : pc[e] = "done" => once = "done"
  /\ once = "done" => \A e \in End : ~open[e]
  /\ returned => \A e \in End : pc[e] = "done"

IInv == TypeOK /\ CopyInv /\ ReasonInv /\ OnceInv

LEMMA IInvInit == Init => IInv
<1> SUFFICES ASSUME Init PROVE IInv
  OBVIOUS
<1>1. TypeOK
  <2>1. open \in [End -> BOOLEAN]
    BY Zenon DEF Init
  <2>2. \A f \in {got, put, sent, seen} : f \in [End -> 0 .. MaxChunks]
    BY DEF Init
  <2>3. pc \in [End -> PC] /\ remote \in [End -> {"open", "eof", "reset"}]
    BY DEF Init, PC
  <2> QED
    BY <2>1, <2>2, <2>3 DEF Init, TypeOK
<1>2. CopyInv
  BY DEF Init, CopyInv
<1>3. ReasonInv /\ OnceInv
  BY DEF Init, ReasonInv, OnceInv
<1> QED
  BY <1>1, <1>2, <1>3 DEF IInv

LEMMA IInvNext == IInv /\ [Next]_vars => IInv'
<1> SUFFICES ASSUME IInv, [Next]_vars PROVE IInv'
  OBVIOUS
<1> USE DEF IInv, TypeOK, PC, CopyInv, ReasonInv, Reason, Delivered, Refused, OnceInv, Goto,
    pipeVars, remoteVars
<1>1. ASSUME NEW e \in End, ReadChunk(e) PROVE IInv'
  BY <1>1 DEF ReadChunk
<1>2. ASSUME NEW e \in End, ReadEnds(e) PROVE IInv'
  BY <1>2 DEF ReadEnds, Failed, AtEOF
<1>3. ASSUME NEW e \in End, WriteChunk(e) PROVE IInv'
  <2>1. /\ put[Other(e)] < got[e]
        /\ put' = [put EXCEPT ![Other(e)] = @ + 1]
        /\ pc' = [pc EXCEPT ![e] = "read"]
        /\ UNCHANGED <<once, returned, open, got, stream, remote, sent, seen>>
    BY <1>3 DEF WriteChunk
  \* Goroutine e is still at work, so its direction is no reason to end.
  <2>2. Reason => Reason'
    <3>1. ~Delivered(e)
      BY <2>1
    <3>2. Delivered(Other(e)) => Delivered(Other(e))'
      BY <2>1
    <3>3. ~Refused(Other(e)) /\ (Refused(e) => Refused(e)')
      BY <1>3, <2>1 DEF WriteChunk, Unwritable, Gone
    <3> QED
      BY <2>1, <3>1, <3>2, <3>3
  <2>3. TypeOK'
    BY <2>1
  <2>4. CopyInv'
    <3>1. /\ put'[Other(e)] = put[Other(e)] + 1
          /\ put'[e] = put[e]
          /\ pc'[e] = "read"
          /\ pc'[Other(e)] = pc[Other(e)]
      BY <2>1
    <3>2. put[Other(e)] + 1 = got[e]
      BY <1>3 DEF WriteChunk
    <3> QED
      BY <2>1, <3>1, <3>2
  <2>5. ReasonInv'
    <3> HIDE DEF Reason
    <3> QED
      BY <2>1, <2>2, <1>3 DEF WriteChunk
  <2>6. OnceInv'
    BY <2>1, <1>3 DEF WriteChunk
  <2> QED
    BY <2>3, <2>4, <2>5, <2>6
<1>4. ASSUME NEW e \in End, WriteEnds(e) PROVE IInv'
  BY <1>4 DEF WriteEnds, Unwritable, Gone
<1>5. ASSUME NEW e \in End, BeginClose(e) \/ SkipClose(e) PROVE IInv'
  BY <1>5 DEF BeginClose, SkipClose
<1>6. ASSUME NEW e \in End, CloseA(e) \/ CloseB(e) PROVE IInv'
  <2>1. open' \in [End -> BOOLEAN]
    <3>1. \E x \in End : open' = [open EXCEPT ![x] = FALSE]
      BY <1>6 DEF CloseA, CloseB
    <3>2. open \in [End -> BOOLEAN]
      OBVIOUS
    <3> HIDE DEF IInv
    <3> QED
      BY <3>1, <3>2, Zenon
  <2>2. CASE CloseA(e)
    <3>1. TypeOK'
      BY <2>1, <2>2 DEF CloseA
    <3>2. CopyInv' /\ ReasonInv'
      BY <2>1, <2>2 DEF CloseA
    <3>3. OnceInv'
      BY <2>1, <2>2 DEF CloseA
    <3> QED
      BY <3>1, <3>2, <3>3
  <2>3. CASE CloseB(e)
    BY <2>1, <2>3 DEF CloseB
  <2> QED
    BY <1>6, <2>2, <2>3
<1>7. ASSUME WaitReturns PROVE IInv'
  BY <1>7 DEF WaitReturns
<1>8. ASSUME NEW e \in End, RemoteSends(e) PROVE IInv'
  BY <1>8 DEF RemoteSends
<1>9. ASSUME NEW e \in End, RemoteFinishes(e) \/ RemoteResets(e) PROVE IInv'
  BY <1>9 DEF RemoteFinishes, RemoteResets
<1>10. ASSUME NEW e \in End, RemoteReads(e) PROVE IInv'
  BY <1>10 DEF RemoteReads
<1>11. ASSUME UNCHANGED vars PROVE IInv'
  BY <1>11 DEF vars
<1> HIDE DEF IInv
<1> QED
  BY <1>1, <1>2, <1>3, <1>4, <1>5, <1>6, <1>7, <1>8, <1>9, <1>10, <1>11
     DEF Next, Copy, OnceDo

\* pipe never cuts a connection without a reason, and loses no chunk of the
\* direction that ended unless the other one could not be delivered: for any
\* amount of data, any window, and either end the stream.
THEOREM EndsWithReason == Spec => [](TypeOK /\ EndsForAReason)
<1>1. IInv => TypeOK /\ EndsForAReason
  BY DEF IInv, ReasonInv, Reason, EndsForAReason
<1> QED
  BY IInvInit, IInvNext, <1>1, PTL DEF Spec

\* pipe returns with both ends closed and both goroutines gone.
THEOREM LeaksNothing == Spec => []ReturnsClean
<1>1. IInv => ReturnsClean
  BY DEF IInv, OnceInv, ReturnsClean
<1> QED
  BY IInvInit, IInvNext, <1>1, PTL DEF Spec
=============================================================================
