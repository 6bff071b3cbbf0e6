-------------------------- MODULE MultiPathProofs --------------------------
(***************************************************************************)
(* Proofs about MultiPath, for any number of servers, goroutines and       *)
(* session names.                                                          *)
(***************************************************************************)
EXTENDS MultiPath, TLAPS

\* m.mu is held across a blocking call exactly by the goroutine that dials.
LockInv == \A h \in Handler : pc[h] = "scan" <=> mu = h

\* While a goroutine dials, m.session is nil or closed, and stays so.
ScanInv == mu # None => ~HaveSession

\* m.sessionSrv is the server of m.session.
RecordInv == session # None => sessionSrv = ServerOf[session]

IInv ==
  /\ TypeOK
  /\ LockInv
  /\ ScanInv
  /\ RecordInv
  /\ NoOrphanSession
  /\ BlameIsAccurate

USE NServersAssumption, FailLimitAssumption, NoHandlerAssumption,
    NoneAssumption, ServerOfAssumption DEF Server

LEMMA IdxType == TypeOK => Idx \in Server
BY DEF TypeOK, Idx

LEMMA TypeInit == Init => TypeOK
BY DEF Init, TypeOK, SmuxInit, SmuxTypeOK, SessionState, PC

LEMMA TypeNext == TypeOK /\ [Next]_vars => TypeOK'
<1> SUFFICES ASSUME TypeOK, [Next]_vars PROVE TypeOK'
  OBVIOUS
<1> USE DEF TypeOK, SmuxTypeOK, SessionState, PC, Goto, Exit
<1>1. ASSUME NEW h \in Handler, Accept(h) PROVE TypeOK'
  BY <1>1 DEF Accept, clientVars, localVars
<1>2. ASSUME NEW h \in Handler, ReuseSession(h) PROVE TypeOK'
  BY <1>2 DEF ReuseSession, HaveSession, Return, clientVars
<1>3. ASSUME NEW h \in Handler, BeginScan(h) PROVE TypeOK'
  BY <1>3 DEF BeginScan, clientVars, localVars
<1>4. ASSUME NEW h \in Handler, SkipServer(h) PROVE TypeOK'
  BY <1>4 DEF SkipServer, LoopDone, clientVars, localVars
<1>5. ASSUME NEW h \in Handler, DialFails(h) PROVE TypeOK'
  <2>1. Idx \in Server
    BY IdxType
  <2>2. failCount' \in [Server -> 0 .. FailLimit] /\ recent' \in [Server -> BOOLEAN]
    BY <1>5, <2>1 DEF DialFails, MarkFailedLocked
  <2>3. i' \in 0 .. NServers
    BY <1>5 DEF DialFails, LoopDone
  <2> QED
    BY <1>5, <2>2, <2>3 DEF DialFails, localVars
<1>6. ASSUME NEW h \in Handler, DialSucceeds(h) PROVE TypeOK'
  BY <1>6, IdxType DEF DialSucceeds, Establish, Record, Return, Fresh
<1>7. ASSUME NEW h \in Handler, AllServersDown(h) PROVE TypeOK'
  BY <1>7 DEF AllServersDown, clientVars
<1>8. ASSUME NEW h \in Handler, OpenStream(h) PROVE TypeOK'
  BY <1>8 DEF OpenStream, OpenStreamSucceeds, OpenStreamFails, clientVars, localVars
<1>9. ASSUME NEW h \in Handler, MarkFailed(h) PROVE TypeOK'
  <2>1. /\ MarkFailedLocked(srv[h])
        /\ DropSession
        /\ Exit(h)
        /\ UNCHANGED <<sessionSrv, current, mu, i, link>>
    BY <1>9 DEF MarkFailed
  <2>2. failCount' \in [Server -> 0 .. FailLimit]
    <3>1. CASE srv[h] \in Server
      BY <2>1, <3>1 DEF MarkFailedLocked
    <3>2. CASE srv[h] \notin Server
      <4>1. failCount' = failCount
        BY <2>1, <3>2 DEF MarkFailedLocked
      <4> QED
        BY <4>1
    <3> QED
      BY <3>1, <3>2
  <2>3. recent' \in [Server -> BOOLEAN]
    BY <2>1 DEF MarkFailedLocked
  <2>4. session' = None /\ SmuxTypeOK'
    BY <2>1 DEF DropSession
  <2> QED
    BY <2>1, <2>2, <2>3, <2>4
<1>10. ASSUME NEW h \in Handler, PipeReturns(h) PROVE TypeOK'
  BY <1>10 DEF PipeReturns, clientVars
<1>11. ASSUME NEW s \in SessionId, SessionBreaks(s) \/ SessionTimesOut(s) PROVE TypeOK'
  BY <1>11 DEF SessionBreaks, SessionTimesOut, SocketError, KeepAliveTimeout, clientVars, localVars
<1>12. ASSUME NEW k \in Server, BackoffExpires(k) PROVE TypeOK'
  BY <1>12 DEF BackoffExpires, localVars
<1>13. ASSUME NEW k \in Server, LinkChanges(k) PROVE TypeOK'
  BY <1>13 DEF LinkChanges, clientVars, localVars
<1>14. ASSUME UNCHANGED vars PROVE TypeOK'
  BY <1>14 DEF vars, clientVars, localVars
<1> QED
  BY <1>1, <1>2, <1>3, <1>4, <1>5, <1>6, <1>7, <1>8, <1>9, <1>10, <1>11, <1>12,
     <1>13, <1>14 DEF Next, GetSession, Scan

\* Type correctness.  All state stays in range: in particular the rotation
\* from m.current never indexes past m.servers.
THEOREM TypeCorrect == Spec => []TypeOK
BY TypeInit, TypeNext, PTL DEF Spec

-----------------------------------------------------------------------------
(* The inductive invariant *)

LEMMA IInvInit == Init => IInv
BY TypeInit DEF Init, IInv, LockInv, ScanInv, RecordInv, NoOrphanSession,
   BlameIsAccurate, SmuxInit, LiveSessions, IsClosed

LEMMA IInvNext == IInv /\ [Next]_vars => IInv'
<1> SUFFICES ASSUME IInv, [Next]_vars PROVE IInv'
  OBVIOUS
<1>0. TypeOK /\ TypeOK'
  BY TypeNext DEF IInv
<1> DEFINE Rest == LockInv /\ ScanInv /\ RecordInv /\ NoOrphanSession /\ BlameIsAccurate
<1> USE <1>0 DEF IInv, LockInv, ScanInv, RecordInv, NoOrphanSession, BlameIsAccurate,
    HaveSession, LiveSessions, IsClosed, TypeOK, SmuxTypeOK, SessionState, PC, Goto, Exit
<1>1. ASSUME NEW h \in Handler, Accept(h) PROVE Rest'
  BY <1>1 DEF Accept, clientVars, localVars
<1>2. ASSUME NEW h \in Handler, ReuseSession(h) PROVE Rest'
  BY <1>2 DEF ReuseSession, Return, clientVars
<1>3. ASSUME NEW h \in Handler, BeginScan(h) PROVE Rest'
  BY <1>3 DEF BeginScan, clientVars, localVars
<1>4. ASSUME NEW h \in Handler, SkipServer(h) PROVE Rest'
  BY <1>4 DEF SkipServer, clientVars, localVars
<1>5. ASSUME NEW h \in Handler, DialFails(h) PROVE Rest'
  BY <1>5 DEF DialFails, localVars
<1>6. ASSUME NEW h \in Handler, DialSucceeds(h) PROVE Rest'
  BY <1>6, IdxType DEF DialSucceeds, Establish, Record, Return, Fresh
<1>7. ASSUME NEW h \in Handler, AllServersDown(h) PROVE Rest'
  BY <1>7 DEF AllServersDown, clientVars
<1>8. ASSUME NEW h \in Handler, OpenStream(h) PROVE Rest'
  BY <1>8 DEF OpenStream, OpenStreamSucceeds, OpenStreamFails, clientVars, localVars
<1>9. ASSUME NEW h \in Handler, MarkFailed(h) PROVE Rest'
  BY <1>9 DEF MarkFailed, DropSession
<1>10. ASSUME NEW h \in Handler, PipeReturns(h) PROVE Rest'
  BY <1>10 DEF PipeReturns, clientVars
<1>11. ASSUME NEW s \in SessionId, SessionBreaks(s) \/ SessionTimesOut(s) PROVE Rest'
  BY <1>11 DEF SessionBreaks, SessionTimesOut, SocketError, KeepAliveTimeout, clientVars, localVars
<1>12. ASSUME NEW k \in Server, BackoffExpires(k) PROVE Rest'
  BY <1>12 DEF BackoffExpires, localVars
<1>13. ASSUME NEW k \in Server, LinkChanges(k) PROVE Rest'
  BY <1>13 DEF LinkChanges, clientVars, localVars
<1>14. ASSUME UNCHANGED vars PROVE Rest'
  BY <1>14 DEF vars, clientVars, localVars
<1> QED
  BY <1>1, <1>2, <1>3, <1>4, <1>5, <1>6, <1>7, <1>8, <1>9, <1>10, <1>11, <1>12,
     <1>13, <1>14 DEF Next, GetSession, Scan


\* No connection to a server is forgotten while it is open, for any number of
\* goroutines, servers and reconnections.
THEOREM NoOrphan == Spec => []NoOrphanSession
<1>1. IInv => NoOrphanSession
  BY DEF IInv
<1> QED
  BY IInvInit, IInvNext, <1>1, PTL DEF Spec

\* markFailed is always told the server of the session that failed.
THEOREM BlameAccurate == Spec => []BlameIsAccurate
<1>1. IInv => BlameIsAccurate
  BY DEF IInv
<1> QED
  BY IInvInit, IInvNext, <1>1, PTL DEF Spec

-----------------------------------------------------------------------------
(* MultiPath implements SharedSession *)

LEMMA RefinesInit == Init => Shared!Init
BY DEF Init, Shared!Init, SmuxInit, LiveSessions, IsClosed, Phase

LEMMA RefinesNext == IInv /\ [Next]_vars => [Shared!Next]_Shared!vars
<1> SUFFICES ASSUME IInv, [Next]_vars PROVE [Shared!Next]_Shared!vars
  OBVIOUS
<1> DEFINE Same == LiveSessions' = LiveSessions /\ Phase' = Phase
<1>0. TypeOK /\ NoOrphanSession /\ BlameIsAccurate
  BY DEF IInv
<1> USE <1>0 DEF TypeOK, SmuxTypeOK, SessionState, PC, Goto, Exit
<1>1. ASSUME NEW h \in Handler, Accept(h) PROVE Shared!Arrive(h)
  BY <1>1 DEF Accept, LiveSessions, IsClosed, Phase, Shared!Arrive
<1>2. ASSUME NEW h \in Handler, GetSession(h) PROVE Same
  BY <1>2 DEF GetSession, ReuseSession, BeginScan, Return, LiveSessions, IsClosed, Phase
<1>3. ASSUME NEW h \in Handler, SkipServer(h) \/ DialFails(h) PROVE Same
  BY <1>3 DEF SkipServer, DialFails, LiveSessions, IsClosed, Phase
<1>4. ASSUME NEW h \in Handler, DialSucceeds(h) PROVE Shared!Connect
  <2>1. LiveSessions = {}
    BY <1>4 DEF DialSucceeds, IInv, LockInv, ScanInv, NoOrphanSession, LiveSessions, IsClosed, HaveSession
  <2>2. PICK s \in SessionId : st' = [st EXCEPT ![s] = "up"]
    BY <1>4 DEF DialSucceeds, Fresh, Establish
  <2>3. LiveSessions' = {s}
    BY <2>1, <2>2 DEF LiveSessions, IsClosed
  <2>4. Phase' = Phase
    BY <1>4 DEF DialSucceeds, Return, Phase
  <2> QED
    BY <2>1, <2>3, <2>4 DEF Shared!Connect
<1>5. ASSUME NEW h \in Handler, AllServersDown(h) PROVE Shared!Refuse(h)
  BY <1>5 DEF AllServersDown, LiveSessions, IsClosed, Phase, Shared!Refuse
<1>6. ASSUME NEW h \in Handler, OpenStreamSucceeds(h) PROVE Shared!Attach(h)
  BY <1>6 DEF OpenStreamSucceeds, CanOpenStream, BlameIsAccurate, LiveSessions,
     IsClosed, Phase, Shared!Attach
<1>7. ASSUME NEW h \in Handler, OpenStreamFails(h) PROVE Same
  BY <1>7 DEF OpenStreamFails, LiveSessions, IsClosed, Phase
<1>8. ASSUME NEW h \in Handler, MarkFailed(h) PROVE Shared!Refuse(h)
  <2>1. LiveSessions' = {}
    BY <1>8 DEF MarkFailed, DropSession, NoOrphanSession, LiveSessions, IsClosed
  <2> QED
    BY <1>8, <2>1 DEF MarkFailed, Phase, Shared!Refuse
<1>9. ASSUME NEW h \in Handler, PipeReturns(h) PROVE Shared!Finish(h)
  BY <1>9 DEF PipeReturns, LiveSessions, IsClosed, Phase, Shared!Finish
<1>10. ASSUME NEW s \in SessionId, SessionBreaks(s) PROVE Same
  BY <1>10 DEF SessionBreaks, SocketError, LiveSessions, IsClosed, Phase
<1>11. ASSUME NEW s \in SessionId, SessionTimesOut(s) PROVE Shared!Disconnect
  BY <1>11 DEF SessionTimesOut, KeepAliveTimeout, NoOrphanSession, LiveSessions,
     IsClosed, Phase, Shared!Disconnect
<1>12. ASSUME NEW k \in Server, BackoffExpires(k) \/ LinkChanges(k) PROVE Same
  BY <1>12 DEF BackoffExpires, LinkChanges, LiveSessions, IsClosed, Phase
<1>13. ASSUME UNCHANGED vars PROVE Same
  BY <1>13 DEF vars, LiveSessions, IsClosed, Phase
<1> QED
  BY <1>1, <1>2, <1>3, <1>4, <1>5, <1>6, <1>7, <1>8, <1>9, <1>10, <1>11, <1>12, <1>13
     DEF Next, Scan, OpenStream, Shared!Next, Shared!vars

\* Refinement: the multi-path client implements SharedSession, whatever the
\* network does and however its goroutines interleave.
THEOREM Refinement == Spec => ImplementsSharedSession
<1> QED
  BY IInvInit, IInvNext, RefinesInit, RefinesNext, PTL
     DEF Spec, ImplementsSharedSession, Shared!Spec

-----------------------------------------------------------------------------
(* Giving up *)

\* Between scans the loop counter is back at 0.
IdleInv == mu = None => i = 0

\* The servers the loop has passed have all failed.
PassedFailed == \A j \in Server : j < i => failCount[(current + j) % NServers] > 0

ScanState == IInv /\ IdleInv /\ PassedFailed

\* Adding a rotation modulo NServers reaches every server.
LEMMA RotationCovers ==
  ASSUME NEW c \in Server, NEW k \in Server
  PROVE  \E j \in Server : (c + j) % NServers = k
<1>1. CASE c <= k
  <2>1. k - c \in Server /\ c + (k - c) = k
    BY <1>1
  <2>2. k % NServers = k
    OBVIOUS
  <2> QED
    BY <2>1, <2>2
<1>2. CASE c > k
  <2>1. k - c + NServers \in Server /\ c + (k - c + NServers) = k + NServers
    BY <1>2
  <2>2. (k + NServers) % NServers = k
    OBVIOUS
  <2> QED
    BY <2>1, <2>2
<1> QED
  BY <1>1, <1>2

LEMMA ScanStateInit == Init => ScanState
BY IInvInit DEF Init, ScanState, IdleInv, PassedFailed

LEMMA ScanStateNext == ScanState /\ [Next]_vars => ScanState'
<1> SUFFICES ASSUME ScanState, [Next]_vars PROVE ScanState'
  OBVIOUS
<1>0. IInv /\ IInv'
  BY IInvNext DEF ScanState
<1>a. TypeOK /\ LockInv
  BY <1>0 DEF IInv
<1>b. \A j \in Server : (current + j) % NServers \in Server
  BY <1>a DEF TypeOK
<1> DEFINE Rest == IdleInv /\ PassedFailed
<1> USE <1>a, <1>b DEF ScanState, IdleInv, PassedFailed
\* No other step touches the loop counter, m.current, a failCount or m.mu.
<1>1. ASSUME UNCHANGED <<i, current, failCount, mu>> PROVE Rest'
  BY <1>1
<1>2. ASSUME NEW h \in Handler, BeginScan(h) PROVE Rest'
  BY <1>2 DEF BeginScan, clientVars, TypeOK
<1>3. ASSUME NEW h \in Handler, SkipServer(h) PROVE Rest'
  <2>1. failCount[(current + i) % NServers] > 0
    BY <1>3 DEF SkipServer, BackingOff, Idx, LoopDone, TypeOK
  <2>2. mu # None
    BY <1>3 DEF SkipServer, LockInv
  <2>3. i' = i + 1 /\ UNCHANGED <<current, mu, failCount>>
    BY <1>3 DEF SkipServer, clientVars
  <2>4. \A j \in Server : j < i + 1 => j < i \/ j = i
    BY DEF TypeOK
  <2>5. IdleInv'
    BY <2>2, <2>3
  <2>6. PassedFailed'
    BY <2>1, <2>3, <2>4
  <2> QED
    BY <2>5, <2>6
<1>4. ASSUME NEW h \in Handler, DialFails(h) PROVE Rest'
  <2>1. \A k \in Server : failCount'[k] >= failCount[k]
    BY <1>4, IdxType DEF DialFails, MarkFailedLocked, TypeOK
  <2>2. failCount'[(current + i) % NServers] > 0
    BY <1>4, IdxType DEF DialFails, MarkFailedLocked, Idx, TypeOK
  <2>3. mu # None
    BY <1>4 DEF DialFails, LockInv
  <2>4. i' = i + 1 /\ UNCHANGED <<current, mu>>
    BY <1>4 DEF DialFails
  <2>5. failCount \in [Server -> Nat] /\ failCount' \in [Server -> Nat]
    <3>1. TypeOK /\ TypeOK'
      BY <1>0 DEF IInv
    <3>2. failCount \in [Server -> 0 .. FailLimit] /\ failCount' \in [Server -> 0 .. FailLimit]
      BY ONLY <3>1 DEF TypeOK
    <3>3. 0 .. FailLimit \subseteq Nat
      BY FailLimitAssumption
    <3> QED
      BY <3>2, <3>3
  <2>6. \A j \in Server : j < i + 1 => j < i \/ j = i
    BY DEF TypeOK
  <2>7. IdleInv'
    BY <2>3, <2>4
  <2>8. PassedFailed'
    <3> SUFFICES ASSUME NEW j \in Server, j < i + 1
                 PROVE  failCount'[(current + j) % NServers] > 0
      BY <2>4
    <3>1. CASE j = i
      BY <3>1, <2>2
    <3>2. CASE j < i
      <4> DEFINE k == (current + j) % NServers
      <4>1. k \in Server /\ failCount[k] > 0
        BY <3>2
      <4>2. failCount'[k] >= failCount[k]
        BY <4>1, <2>1
      <4> HIDE DEF k
      <4>3. failCount'[k] > 0
        BY <4>1, <4>2, <2>5
      <4> QED
        BY <4>3 DEF k
    <3> QED
      BY <3>1, <3>2, <2>6
  <2> QED
    BY <2>7, <2>8
<1>5. ASSUME NEW h \in Handler, DialSucceeds(h) \/ AllServersDown(h) PROVE Rest'
  BY <1>5 DEF DialSucceeds, AllServersDown
<1>6. ASSUME NEW h \in Handler, MarkFailed(h) PROVE Rest'
  BY <1>6 DEF MarkFailed
<1> QED
  <2>1. ASSUME NEW h \in Handler,
               Accept(h) \/ ReuseSession(h) \/ OpenStream(h) \/ PipeReturns(h)
        PROVE  UNCHANGED <<i, current, failCount, mu>>
    BY <2>1 DEF Accept, ReuseSession, OpenStream, OpenStreamSucceeds,
       OpenStreamFails, PipeReturns, clientVars
  <2>2. ASSUME NEW s \in SessionId, SessionBreaks(s) \/ SessionTimesOut(s)
        PROVE  UNCHANGED <<i, current, failCount, mu>>
    BY <2>2 DEF SessionBreaks, SessionTimesOut, clientVars
  <2>3. ASSUME NEW k \in Server, BackoffExpires(k) \/ LinkChanges(k)
        PROVE  UNCHANGED <<i, current, failCount, mu>>
    BY <2>3 DEF BackoffExpires, LinkChanges, clientVars
  <2>4. ASSUME UNCHANGED vars PROVE UNCHANGED <<i, current, failCount, mu>>
    BY <2>4 DEF vars, clientVars
  <2> HIDE DEF IdleInv, PassedFailed
  <2> QED
    BY <1>0, <1>1, <1>2, <1>3, <1>4, <1>5, <1>6, <2>1, <2>2, <2>3, <2>4
       DEF Next, GetSession, Scan

\* A local connection is given up for lack of a server only when the loop went
\* through every server and each has failed since it was last connected to.
THEOREM GivesUpOnlyWhenAllFailed == Spec => AllDownMeansAllFailed
<1> DEFINE A == \A h \in Handler : pc[h] = "scan" /\ pc'[h] = "idle"
                  => \A k \in Server : failCount[k] > 0
<1>1. ScanState /\ [Next]_vars => [A]_vars
  <2> SUFFICES ASSUME ScanState, Next,
                      NEW g \in Handler, pc[g] = "scan", pc'[g] = "idle",
                      NEW k \in Server
               PROVE  failCount[k] > 0
    OBVIOUS
  <2>1. AllServersDown(g)
    BY DEF ScanState, IInv, TypeOK, Next, Accept, GetSession, ReuseSession, BeginScan,
       Scan, SkipServer, DialFails, DialSucceeds, AllServersDown, OpenStream,
       OpenStreamSucceeds, OpenStreamFails, MarkFailed, PipeReturns, SessionBreaks,
       SessionTimesOut, BackoffExpires, LinkChanges, Goto, Exit, Return
  <2>2. PICK j \in Server : (current + j) % NServers = k
    BY RotationCovers DEF ScanState, IInv, TypeOK
  <2>3. j < i
    BY <2>1 DEF AllServersDown, LoopDone
  <2> QED
    BY <2>2, <2>3 DEF ScanState, PassedFailed
<1> QED
  BY ScanStateInit, ScanStateNext, <1>1, PTL DEF Spec, AllDownMeansAllFailed
=============================================================================
