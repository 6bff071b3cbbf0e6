------------------------ MODULE ClientSessionProofs ------------------------
(***************************************************************************)
(* Proofs about ClientSession, for any number of goroutines and session    *)
(* names: what every client guarantees, and what those that lock do.       *)
(***************************************************************************)
EXTENDS ClientSession, SequenceTheorems, TLAPS

USE NoHandlerAssumption, TransportsAssumption, NoneAssumption,
    HelloAssumption, FragSizesAssumption

LEMMA TypeInit == Init => TypeOK
BY DEF Init, TypeOK, SmuxInit, SmuxTypeOK, SessionState, DialerTypeOK, DialerInit,
   PC, Link

LEMMA ChunkType == ASSUME frag \in Nat, NEW n \in Nat PROVE Chunk(n) \in Seq(Nat)
BY DEF Chunk

LEMMA TypeNext == TypeOK /\ DialLeavesNothing /\ [Next]_vars => TypeOK' /\ DialLeavesNothing'
<1> SUFFICES ASSUME TypeOK, DialLeavesNothing, [Next]_vars
             PROVE  TypeOK' /\ DialLeavesNothing'
  OBVIOUS
<1> DEFINE Types == TypeOK' /\ DialLeavesNothing'
<1>0. /\ frag \in Nat
      /\ Len(Hello) \in Nat
  BY DEF TypeOK, DialerTypeOK
<1>a. ASSUME UNCHANGED <<flags, dial>> PROVE DialerTypeOK'
  BY <1>a DEF TypeOK, DialerTypeOK, flags, dial
<1> USE <1>a DEF TypeOK, SmuxTypeOK, SessionState, PC, Link, Goto, Exit, Unlock,
    flags, dial, DialLeavesNothing
<1>1. ASSUME NEW h \in Handler, Accept(h) \/ Lock(h) \/ Check(h) PROVE Types
  BY <1>1 DEF Accept, Lock, Check
<1>2. ASSUME NEW h \in Handler, DialFails(h) PROVE Types
  BY <1>2 DEF DialFails
<1>3. ASSUME NEW h \in Handler, DialSucceeds(h) PROVE Types
  BY <1>3 DEF DialSucceeds, SessionMade, Establish, Fresh
<1>4. ASSUME NEW h \in Handler, DialConnects(h) PROVE Types
  BY <1>4 DEF DialConnects, Opens, DialerTypeOK
<1>5. ASSUME NEW h \in Handler, WriteHello(h) PROVE Types
  <2>1. CASE HelloWritten(h)
    BY <1>5, <2>1 DEF WriteHello
  <2>2. CASE ~HelloWritten(h)
    <3>1. wire' \in [Handler -> Seq(Nat)]
      <4>1. wire[h] \o Chunk(off[h]) \in Seq(Nat)
        <5>1. wire[h] \in Seq(Nat) /\ off[h] \in Nat
          BY DEF DialerTypeOK
        <5>2. Chunk(off[h]) \in Seq(Nat)
          BY <1>0, <5>1, ChunkType
        <5> QED
          BY <5>1, <5>2
      <4>2. wire' = [wire EXCEPT ![h] = wire[h] \o Chunk(off[h])]
        BY <1>5, <2>2 DEF WriteHello, WritesChunk
      <4>3. wire \in [Handler -> Seq(Nat)]
        BY DEF DialerTypeOK
      <4> QED
        BY <4>1, <4>2, <4>3
    <3>2. off' \in [Handler -> Nat]
      <4> DEFINE step == IF frag = 0 THEN Len(Hello) ELSE frag
      <4>1. step \in Nat
        BY <1>0
      <4>2. off' = [off EXCEPT ![h] = @ + step]
        BY <1>5, <2>2 DEF WriteHello, WritesChunk
      <4> HIDE DEF step
      <4> QED
        BY <4>1, <4>2 DEF DialerTypeOK
    <3>3. DialerTypeOK'
      BY <1>5, <2>2, <3>1, <3>2 DEF WriteHello, WritesChunk, DialerTypeOK
    <3> QED
      BY <1>5, <2>2, <3>3 DEF WriteHello, WritesChunk
  <2> QED
    BY <2>1, <2>2
<1>6. ASSUME NEW h \in Handler, Answered(h) PROVE Types
  <2>1. CASE pc[h] = "handshake" /\ transport = "wss"
    BY <1>6, <2>1 DEF Answered
  <2>2. CASE ~(pc[h] = "handshake" /\ transport = "wss")
    <3>1. SessionMade(h) /\ HandsOn(h) /\ UNCHANGED <<flags, session, mu, link>>
      BY <1>6, <2>2 DEF Answered
    <3>2. open[h] = 1
      BY <1>6 DEF Answered
    <3>3. /\ DialerTypeOK'
          /\ \A k \in Handler : open'[k] = IF k = h THEN 0 ELSE open[k]
      BY <3>1, <3>2 DEF HandsOn, Over, DialerTypeOK
    <3>4. TypeOK'
      BY <3>1, <3>3 DEF SessionMade, Establish, Fresh
    <3> QED
      BY <3>1, <3>3, <3>4 DEF SessionMade
  <2> QED
    BY <2>1, <2>2
<1>7. ASSUME NEW h \in Handler, DialAborts(h) PROVE Types
  <2>1. open[h] = 1 /\ Closes(h) /\ Exit(h) /\ Unlock /\ UNCHANGED <<flags, session, st, link>>
    BY <1>7 DEF DialAborts
  <2>2. /\ DialerTypeOK'
        /\ \A k \in Handler : open'[k] = IF k = h THEN 0 ELSE open[k]
    BY <2>1 DEF Closes, Over, DialerTypeOK
  <2> QED
    BY <2>1, <2>2
<1>8. ASSUME NEW h \in Handler, Store(h) \/ Return(h) PROVE Types
  BY <1>8 DEF Store, Return
<1>9. ASSUME NEW h \in Handler, OpenStream(h) \/ PipeReturns(h) PROVE Types
  BY <1>9 DEF OpenStream, OpenStreamSucceeds, OpenStreamFails, PipeReturns
<1>10. ASSUME NEW s \in SessionId, SessionBreaks(s) \/ SessionTimesOut(s) PROVE Types
  BY <1>10 DEF SessionBreaks, SessionTimesOut, SocketError, KeepAliveTimeout
<1>11. ASSUME LinkChanges PROVE Types
  BY <1>11 DEF LinkChanges
<1>12. ASSUME UNCHANGED vars PROVE Types
  BY <1>12 DEF vars
<1> QED
  BY <1>1, <1>2, <1>3, <1>4, <1>5, <1>6, <1>7, <1>8, <1>9, <1>10, <1>11, <1>12 DEF Next, Dial

-----------------------------------------------------------------------------
(* Every client, with or without a lock *)

\* A goroutine about to store a session has one, and one about to return the
\* shared variable finds it set: once set, it is never nil again.
StoreInv ==
  \A h \in Handler :
    /\ pc[h] = "store" => mine[h] # None
    /\ pc[h] = "return" => session # None

NilInv == TypeOK /\ DialLeavesNothing /\ StoreInv /\ NoNilSession

LEMMA NilInvInit == Init => NilInv
BY TypeInit DEF Init, NilInv, StoreInv, NoNilSession, DialLeavesNothing, DialerInit

LEMMA NilInvNext == NilInv /\ [Next]_vars => NilInv'
<1> SUFFICES ASSUME NilInv, [Next]_vars PROVE NilInv'
  OBVIOUS
<1>0. TypeOK /\ TypeOK' /\ DialLeavesNothing'
  BY TypeNext DEF NilInv
<1> DEFINE Rest == StoreInv /\ NoNilSession
<1> USE <1>0 DEF NilInv, StoreInv, NoNilSession, TypeOK, PC, Goto, Exit
<1>1. ASSUME NEW h \in Handler, Accept(h) \/ Lock(h) \/ Check(h) PROVE Rest'
  BY <1>1 DEF Accept, Lock, Check, HaveSession
<1>2. ASSUME NEW h \in Handler, DialFails(h) PROVE Rest'
  BY <1>2 DEF DialFails
<1>3. ASSUME NEW h \in Handler,
             DialSucceeds(h) \/ DialConnects(h) \/ WriteHello(h) \/ Answered(h) \/ DialAborts(h)
      PROVE  Rest'
  BY <1>3 DEF DialSucceeds, DialConnects, WriteHello, Answered, DialAborts, SessionMade, Fresh
<1>4. ASSUME NEW h \in Handler, Store(h) \/ Return(h) PROVE Rest'
  BY <1>4 DEF Store, Return
<1>5. ASSUME NEW h \in Handler, OpenStream(h) \/ PipeReturns(h) PROVE Rest'
  BY <1>5 DEF OpenStream, OpenStreamSucceeds, OpenStreamFails, PipeReturns
<1>6. ASSUME NEW s \in SessionId, SessionBreaks(s) \/ SessionTimesOut(s) PROVE Rest'
  BY <1>6 DEF SessionBreaks, SessionTimesOut
<1>7. ASSUME LinkChanges PROVE Rest'
  BY <1>7 DEF LinkChanges
<1>8. ASSUME UNCHANGED vars PROVE Rest'
  BY <1>8 DEF vars
<1> QED
  BY <1>1, <1>2, <1>3, <1>4, <1>5, <1>6, <1>7, <1>8 DEF Next, Dial

\* No client, not even the one without a lock, ever calls OpenStream on a nil
\* session.
THEOREM NeverNil == Spec => [](TypeOK /\ NoNilSession)
<1>1. NilInv => TypeOK /\ NoNilSession
  BY DEF NilInv
<1> QED
  BY NilInvInit, NilInvNext, <1>1, PTL DEF Spec

\* Whichever step of dialTLS or dialWS fails, no TCP connection is left behind.
THEOREM NoSocketLeft == Spec => []DialLeavesNothing
<1>1. NilInv => DialLeavesNothing
  BY DEF NilInv
<1> QED
  BY NilInvInit, NilInvNext, <1>1, PTL DEF Spec

-----------------------------------------------------------------------------
(* The ClientHello *)

\* How much of the ClientHello an index of fragConn.Write stands for.
Upto(n) == IF n > Len(Hello) THEN Len(Hello) ELSE n

WireInv ==
  \A h \in Handler :
    /\ wire[h] = SubSeq(Hello, 1, Upto(off[h]))
    /\ pc[h] = "handshake" => HelloWritten(h)

\* One turn of the loop of fragConn.Write sends what comes next, for any chunk
\* size, one longer than the ClientHello included.
LEMMA NextChunk ==
  ASSUME frag \in Nat, NEW n \in Nat, n < Len(Hello)
  PROVE  SubSeq(Hello, 1, Upto(n)) \o Chunk(n)
           = SubSeq(Hello, 1, Upto(n + (IF frag = 0 THEN Len(Hello) ELSE frag)))
<1> DEFINE end == IF frag = 0 \/ n + frag > Len(Hello) THEN Len(Hello) ELSE n + frag
<1>0. Len(Hello) \in Nat
  OBVIOUS
<1>1. Upto(n) = n /\ Upto(n + (IF frag = 0 THEN Len(Hello) ELSE frag)) = end
  BY <1>0 DEF Upto
<1>2. /\ 1 \in 1 .. Len(Hello) + 1
      /\ n \in 0 .. Len(Hello)
      /\ end \in n .. Len(Hello)
  BY <1>0
<1>3. SubSeq(Hello, 1, n) \o SubSeq(Hello, n + 1, end) = SubSeq(Hello, 1, end)
  <2> HIDE DEF end
  <2>1. n \in 1 - 1 .. Len(Hello)
    BY <1>2
  <2> QED
    BY <1>2, <2>1, ConcatAdjacentSubSeq
<1> QED
  BY <1>1, <1>3 DEF Chunk

LEMMA WireInvNext == NilInv /\ WireInv /\ [Next]_vars => WireInv'
<1> SUFFICES ASSUME TypeOK, WireInv, [Next]_vars PROVE WireInv'
  BY DEF NilInv
<1>0. frag \in Nat /\ Len(Hello) \in Nat /\ off \in [Handler -> Nat] /\ wire \in [Handler -> Seq(Nat)]
  BY DEF TypeOK, DialerTypeOK
<1>a. pc \in [Handler -> PC]
  BY DEF TypeOK
<1>b. SubSeq(Hello, 1, Upto(0)) = <<>>
  BY <1>0, SubSeqEmpty DEF Upto
<1> USE <1>0, <1>a DEF WireInv, HelloWritten, Goto, Exit, dial, PC
<1>1. ASSUME NEW h \in Handler,
             \/ Accept(h) \/ Lock(h) \/ Check(h) \/ DialFails(h) \/ DialSucceeds(h)
             \/ DialConnects(h) \/ Store(h) \/ Return(h) \/ OpenStream(h) \/ PipeReturns(h)
      PROVE  WireInv'
  BY <1>1 DEF Accept, Lock, Check, DialFails, DialSucceeds, SessionMade, DialConnects, Opens,
     Store, Return, OpenStream, OpenStreamSucceeds, OpenStreamFails, PipeReturns
<1>2. ASSUME NEW h \in Handler, WriteHello(h) PROVE WireInv'
  <2>1. CASE HelloWritten(h)
    BY <1>2, <2>1 DEF WriteHello
  <2>2. CASE ~HelloWritten(h)
    <3> DEFINE step == IF frag = 0 THEN Len(Hello) ELSE frag
    <3>1. off[h] \in Nat /\ off[h] < Len(Hello) /\ step \in Nat
      BY <2>2
    <3>2. SubSeq(Hello, 1, Upto(off[h])) \o Chunk(off[h]) = SubSeq(Hello, 1, Upto(off[h] + step))
      BY <3>1, NextChunk
    <3>3. /\ wire' = [wire EXCEPT ![h] = wire[h] \o Chunk(off[h])]
          /\ off' = [off EXCEPT ![h] = off[h] + step]
          /\ pc' = pc /\ pc[h] = "hello"
      BY <1>2, <2>2 DEF WriteHello, WritesChunk
    <3> HIDE DEF step
    <3> QED
      BY <3>1, <3>2, <3>3
  <2> QED
    BY <2>1, <2>2
<1>3. ASSUME NEW h \in Handler, Answered(h) PROVE WireInv'
  <2>1. CASE pc[h] = "handshake" /\ transport = "wss"
    BY <1>3, <2>1 DEF Answered
  <2>2. CASE ~(pc[h] = "handshake" /\ transport = "wss")
    <3>1. Over(h) /\ Goto(h, "store")
      BY <1>3, <2>2 DEF Answered, SessionMade, HandsOn
    <3> QED
      BY <3>1, <1>b DEF Over
  <2> QED
    BY <2>1, <2>2
<1>4. ASSUME NEW h \in Handler, DialAborts(h) PROVE WireInv'
  BY <1>4, <1>b DEF DialAborts, Closes, Over
<1>5. ASSUME NEW s \in SessionId, SessionBreaks(s) \/ SessionTimesOut(s) PROVE WireInv'
  BY <1>5 DEF SessionBreaks, SessionTimesOut
<1>6. ASSUME LinkChanges PROVE WireInv'
  BY <1>6 DEF LinkChanges
<1>7. ASSUME UNCHANGED vars PROVE WireInv'
  BY <1>7 DEF vars
<1> QED
  BY <1>1, <1>2, <1>3, <1>4, <1>5, <1>6, <1>7 DEF Next, Dial

LEMMA WireInvIntact == NilInv /\ WireInv => HelloIntact
<1> SUFFICES ASSUME NilInv, WireInv, NEW h \in Handler
             PROVE  /\ IsPrefix(wire[h], Hello)
                    /\ pc[h] = "handshake" => wire[h] = Hello
  BY DEF HelloIntact
<1>1. off[h] \in Nat /\ Len(Hello) \in Nat
  BY DEF NilInv, TypeOK, DialerTypeOK
<1>2. wire[h] = SubSeq(Hello, 1, Upto(off[h])) /\ Upto(off[h]) \in 0 .. Len(Hello)
  BY <1>1 DEF WireInv, Upto
<1>3. Len(wire[h]) = Upto(off[h])
  BY <1>1, <1>2
<1>4. IsPrefix(wire[h], Hello)
  BY <1>1, <1>2, <1>3 DEF IsPrefix
<1>5. ASSUME pc[h] = "handshake" PROVE wire[h] = Hello
  <2>1. Upto(off[h]) = Len(Hello)
    BY <1>1, <1>5 DEF WireInv, HelloWritten, Upto
  <2> QED
    BY <1>2, <2>1, SubSeqFull
<1> QED
  BY <1>4, <1>5

\* For every ClientHello and every chunk size, fragConn sends the ClientHello as
\* it is.
THEOREM HelloSentIntact == Spec => []HelloIntact
<1>1. Init => WireInv
  <2>1. SubSeq(Hello, 1, Upto(0)) = <<>>
    BY SubSeqEmpty DEF Upto
  <2> QED
    BY <2>1 DEF Init, DialerInit, WireInv
<1> QED
  BY NilInvInit, NilInvNext, <1>1, WireInvNext, WireInvIntact, PTL DEF Spec

-----------------------------------------------------------------------------
(* The clients that lock *)

Dialling == {"dial", "hello", "handshake", "upgrade"}
Critical == {"check", "dial", "hello", "handshake", "upgrade", "store", "return"}

\* The body of getSession is a critical section.
LockInv == \A h \in Handler : pc[h] \in Critical => mu = h

\* From the check to the store, the shared variable is nil or closed.
DialInv ==
  \A h \in Handler :
    pc[h] \in {"dial", "hello", "handshake", "upgrade", "store"} => ~HaveSession

\* An open session is the shared one, or about to be stored.
OrphanInv ==
  \A s \in LiveSessions :
    session = s \/ \E h \in Handler : pc[h] = "store" /\ mine[h] = s

LockedInv ==
  /\ NilInv
  /\ transport # "raw" => LockInv /\ DialInv /\ OrphanInv

LEMMA LockedInvInit == Init => LockedInv
BY NilInvInit DEF Init, LockedInv, LockInv, DialInv, OrphanInv, SmuxInit, LiveSessions,
   IsClosed, Critical

LEMMA TransportUnchanged == [Next]_vars => transport' = transport
BY DEF Next, vars, flags, Accept, Lock, Check, Dial, DialFails, DialSucceeds, DialConnects,
   WriteHello, Answered, DialAborts, Store, Return, OpenStream, OpenStreamSucceeds,
   OpenStreamFails, PipeReturns, SessionBreaks, SessionTimesOut, LinkChanges

LEMMA LockedInvNext == LockedInv /\ [Next]_vars => LockedInv'
<1> SUFFICES ASSUME LockedInv, [Next]_vars PROVE LockedInv'
  OBVIOUS
<1>0. NilInv /\ NilInv'
  BY NilInvNext DEF LockedInv
<1>a. TypeOK /\ StoreInv /\ TypeOK'
  BY <1>0 DEF NilInv
<1>b. transport' = transport
  BY TransportUnchanged
<1> SUFFICES ASSUME transport # "raw" PROVE (LockInv /\ DialInv /\ OrphanInv)'
  BY <1>0, <1>b DEF LockedInv
<1>c. LockInv /\ DialInv /\ OrphanInv
  BY DEF LockedInv
<1> DEFINE Rest == LockInv /\ DialInv /\ OrphanInv
<1> USE <1>a, <1>c DEF Locked, LockInv, DialInv, OrphanInv, HaveSession, LiveSessions,
    IsClosed, TypeOK, SmuxTypeOK, SessionState, PC, Critical, Goto, Exit, Unlock
<1>1. ASSUME NEW h \in Handler, Accept(h) PROVE Rest'
  BY <1>1 DEF Accept
<1>2. ASSUME NEW h \in Handler, Lock(h) PROVE Rest'
  BY <1>2 DEF Lock
<1>3. ASSUME NEW h \in Handler, Check(h) PROVE Rest'
  BY <1>3 DEF Check
<1>4. ASSUME NEW h \in Handler, DialFails(h) \/ DialAborts(h) PROVE Rest'
  <2>1. /\ pc[h] \in Dialling
        /\ Exit(h) /\ Unlock
        /\ UNCHANGED <<session, st>>
    BY <1>4 DEF DialFails, DialAborts, Dialling
  <2> QED
    BY <2>1 DEF Dialling
<1>5. ASSUME NEW h \in Handler, pc[h] \in Dialling, SessionMade(h), UNCHANGED <<session, mu>>
      PROVE  Rest'
  BY <1>5 DEF SessionMade, Establish, Fresh, Dialling
<1>6. ASSUME NEW h \in Handler, DialConnects(h) \/ WriteHello(h) PROVE Rest'
  BY <1>6 DEF DialConnects, WriteHello
<1>7. ASSUME NEW h \in Handler, DialSucceeds(h) PROVE Rest'
  BY <1>5, <1>7 DEF DialSucceeds, Dialling
<1>8. ASSUME NEW h \in Handler, Answered(h) PROVE Rest'
  <2>1. CASE pc[h] = "handshake" /\ transport = "wss"
    BY <1>8, <2>1 DEF Answered
  <2>2. CASE ~(pc[h] = "handshake" /\ transport = "wss")
    BY <1>5, <1>8, <2>2 DEF Answered, Dialling
  <2> QED
    BY <2>1, <2>2
<1>9. ASSUME NEW h \in Handler, Store(h) PROVE Rest'
  BY <1>9 DEF Store, StoreInv
<1>10. ASSUME NEW h \in Handler, Return(h) PROVE Rest'
  BY <1>10 DEF Return
<1>11. ASSUME NEW h \in Handler, OpenStream(h) \/ PipeReturns(h) PROVE Rest'
  BY <1>11 DEF OpenStream, OpenStreamSucceeds, OpenStreamFails, PipeReturns
<1>12. ASSUME NEW s \in SessionId, SessionBreaks(s) \/ SessionTimesOut(s) PROVE Rest'
  BY <1>12 DEF SessionBreaks, SessionTimesOut, SocketError, KeepAliveTimeout
<1>13. ASSUME LinkChanges PROVE Rest'
  BY <1>13 DEF LinkChanges
<1>14. ASSUME UNCHANGED vars PROVE Rest'
  BY <1>14 DEF vars
<1> QED
  BY <1>1, <1>2, <1>3, <1>4, <1>6, <1>7, <1>8, <1>9, <1>10, <1>11, <1>12, <1>13, <1>14
     DEF Next, Dial

LEMMA RefinesInit == Init => Shared!Init
BY DEF Init, Shared!Init, SmuxInit, LiveSessions, IsClosed, Phase

\* A step of a client that locks; those of the raw client change neither flag nor
\* what they are mapped to.
LEMMA RefinesNextLocked ==
  ASSUME LockedInv, transport # "raw", [Next]_vars
  PROVE  \/ LiveSessions' = LiveSessions /\ Phase' = Phase
         \/ Shared!Next
<1> DEFINE Same == LiveSessions' = LiveSessions /\ Phase' = Phase
<1>0. /\ TypeOK /\ StoreInv /\ NoNilSession
      /\ LockInv /\ DialInv /\ OrphanInv
  BY DEF LockedInv, NilInv
<1>u. transport' = transport
  BY TransportUnchanged
<1> USE <1>0, <1>u DEF TypeOK, SmuxTypeOK, SessionState, PC, Goto, Exit
\* There is one open session at most.
<1>a. \A s, t \in LiveSessions : s = t
  BY DEF OrphanInv, LockInv, Critical, DialInv, HaveSession, LiveSessions, IsClosed
<1>1. ASSUME NEW h \in Handler, Accept(h) PROVE Shared!Arrive(h)
  BY <1>1 DEF Accept, LiveSessions, IsClosed, Phase, Shared!Arrive
<1>2. ASSUME NEW h \in Handler, Lock(h) \/ Check(h) \/ Store(h) \/ Return(h) PROVE Same
  BY <1>2 DEF Lock, Check, Store, Return, LiveSessions, IsClosed, Phase
<1>3. ASSUME NEW h \in Handler, DialFails(h) \/ DialAborts(h) PROVE Shared!Refuse(h)
  <2>1. /\ pc[h] \in Dialling
        /\ pc' = [pc EXCEPT ![h] = "idle"]
        /\ UNCHANGED st
    BY <1>3 DEF DialFails, DialAborts, Dialling
  <2> QED
    BY <2>1 DEF LiveSessions, IsClosed, Phase, Dialling, Shared!Refuse
<1>4. ASSUME NEW h \in Handler, pc[h] \in Dialling, SessionMade(h), UNCHANGED <<session, mu>>
      PROVE  Shared!Connect
  <2>1. LiveSessions = {}
    BY <1>4 DEF LockInv, Critical, Dialling, DialInv, OrphanInv, HaveSession, LiveSessions,
       IsClosed
  <2>2. PICK s \in SessionId : st' = [st EXCEPT ![s] = "up"]
    BY <1>4 DEF SessionMade, Fresh, Establish
  <2>3. LiveSessions' = {s}
    BY <2>1, <2>2 DEF LiveSessions, IsClosed
  <2>4. Phase' = Phase
    BY <1>4 DEF SessionMade, Phase, Dialling
  <2> QED
    BY <2>1, <2>3, <2>4 DEF Shared!Connect
<1>5. ASSUME NEW h \in Handler, DialSucceeds(h) PROVE Shared!Connect
  BY <1>4, <1>5 DEF DialSucceeds, Dialling
<1>6. ASSUME NEW h \in Handler, DialConnects(h) \/ WriteHello(h) PROVE Same
  <2>1. UNCHANGED st
    BY <1>6 DEF DialConnects, WriteHello
  <2>2. pc' = pc \/ \E label \in {"upgrade", "hello", "handshake"} : Goto(h, label)
    BY <1>6 DEF DialConnects, WriteHello
  <2>3. pc[h] \in Dialling
    BY <1>6 DEF DialConnects, WriteHello, Dialling
  <2> QED
    BY <2>1, <2>2, <2>3 DEF LiveSessions, IsClosed, Phase, Dialling
<1>7. ASSUME NEW h \in Handler, Answered(h) PROVE Same \/ Shared!Connect
  <2>1. CASE pc[h] = "handshake" /\ transport = "wss"
    BY <1>7, <2>1 DEF Answered, LiveSessions, IsClosed, Phase
  <2>2. CASE ~(pc[h] = "handshake" /\ transport = "wss")
    BY <1>4, <1>7, <2>2 DEF Answered, Dialling
  <2> QED
    BY <2>1, <2>2
<1>8. ASSUME NEW h \in Handler, OpenStreamSucceeds(h) PROVE Shared!Attach(h)
  BY <1>8 DEF OpenStreamSucceeds, CanOpenStream, NoNilSession, LiveSessions, IsClosed,
     Phase, Shared!Attach
<1>9. ASSUME NEW h \in Handler, OpenStreamFails(h) PROVE Shared!Refuse(h)
  BY <1>9 DEF OpenStreamFails, LiveSessions, IsClosed, Phase, Shared!Refuse
<1>10. ASSUME NEW h \in Handler, PipeReturns(h) PROVE Shared!Finish(h)
  BY <1>10 DEF PipeReturns, LiveSessions, IsClosed, Phase, Shared!Finish
<1>11. ASSUME NEW s \in SessionId, SessionBreaks(s) PROVE Same
  BY <1>11 DEF SessionBreaks, SocketError, LiveSessions, IsClosed, Phase
<1>12. ASSUME NEW s \in SessionId, SessionTimesOut(s) PROVE Shared!Disconnect
  BY <1>12, <1>a DEF SessionTimesOut, KeepAliveTimeout, LiveSessions, IsClosed, Phase,
     Shared!Disconnect
<1>13. ASSUME LinkChanges \/ UNCHANGED vars PROVE Same
  BY <1>13 DEF LinkChanges, vars, LiveSessions, IsClosed, Phase
<1> QED
  BY <1>1, <1>2, <1>3, <1>5, <1>6, <1>7, <1>8, <1>9, <1>10, <1>11, <1>12, <1>13
     DEF Next, Dial, OpenStream, Shared!Next

LEMMA RefinesNext == LockedInv /\ [Next]_vars => [Shared!Next]_Shared!vars
<1> SUFFICES ASSUME LockedInv, [Next]_vars PROVE [Shared!Next]_Shared!vars
  OBVIOUS
<1>1. transport' = transport
  BY TransportUnchanged
<1>2. CASE transport = "raw"
  BY <1>1, <1>2 DEF Shared!vars
<1>3. CASE transport # "raw"
  BY <1>1, <1>3, RefinesNextLocked DEF Shared!vars
<1> QED
  BY <1>2, <1>3

\* Refinement: the clients whose getSession locks (KCP, TLS and WebSocket)
\* implement SharedSession.
THEOREM Refinement == Spec => ImplementsSharedSession
BY LockedInvInit, LockedInvNext, RefinesInit, RefinesNext, PTL
   DEF Spec, ImplementsSharedSession, Shared!Spec
=============================================================================
