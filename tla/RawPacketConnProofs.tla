------------------------ MODULE RawPacketConnProofs ------------------------
(***************************************************************************)
(* Proofs about RawPacketConn: the channel keeps the order of packets for  *)
(* any capacity, and the sequence numbers on the wire do not overlap for   *)
(* any number of writers.                                                  *)
(***************************************************************************)
EXTENDS RawPacketConn, FiniteSetTheorems, TLAPS

\* The types of the receiving side.
RecvTypes ==
  /\ captured \in Nat
  /\ held \in Nat
  /\ lastRead \in Nat
  /\ recvCh \in Seq(Nat)

\* readLoop holds a packet only between its two selects, and then it is newer
\* than all it has put into the channel.
HeldInv ==
  /\ loop = "deliver" <=> held # 0
  /\ held <= captured
  /\ held # 0 => /\ lastRead < held
                 /\ \A i \in 1 .. Len(recvCh) : recvCh[i] < held

\* The channel is sorted, and newer than what was read.
ChanInv ==
  /\ lastRead <= captured
  /\ \A i \in 1 .. Len(recvCh) : lastRead < recvCh[i] /\ recvCh[i] <= captured
  /\ \A i, j \in 1 .. Len(recvCh) : i < j => recvCh[i] < recvCh[j]

IInv == RecvTypes /\ HeldInv /\ ChanInv

LEMMA IInvInit == Init => IInv
BY DEF Init, IInv, RecvTypes, HeldInv, ChanInv

LEMMA IInvNext == IInv /\ [Next]_vars => IInv'
<1> SUFFICES ASSUME IInv, [Next]_vars PROVE IInv'
  OBVIOUS
<1> USE DEF IInv, RecvTypes, HeldInv, ChanInv, recvVars, readVars, closeVars,
    writeVars
<1>1. ASSUME NEW hasPayload \in BOOLEAN, TakePacket(hasPayload) PROVE IInv'
  BY <1>1 DEF TakePacket
<1>2. ASSUME LoopEnds \/ DropPacket \/ DeliverClosed PROVE IInv'
  BY <1>2 DEF LoopEnds, DropPacket, DeliverClosed
<1>3. ASSUME Deliver PROVE IInv'
  <2>1. /\ recvCh' = Append(recvCh, held)
        /\ held' = 0
        /\ UNCHANGED <<captured, lastRead>>
    BY <1>3 DEF Deliver
  <2>2. Len(recvCh') = Len(recvCh) + 1
    BY <2>1
  <2>3. \A i \in 1 .. Len(recvCh) + 1 :
          recvCh'[i] = IF i = Len(recvCh) + 1 THEN held ELSE recvCh[i]
    BY <2>1
  <2>4. held # 0 /\ loop' = "select"
    BY <1>3 DEF Deliver
  <2>5. ChanInv'
    BY <2>1, <2>2, <2>3, <2>4
  <2> QED
    BY <2>1, <2>4, <2>5
<1>4. ASSUME ReadFromData PROVE IInv'
  <2>1. /\ recvCh # <<>>
        /\ lastRead' = recvCh[1]
        /\ recvCh' = Tail(recvCh)
        /\ UNCHANGED <<captured, loop, held>>
    BY <1>4 DEF ReadFromData
  <2>2. /\ Len(recvCh) > 0
        /\ Len(recvCh') = Len(recvCh) - 1
        /\ \A i \in 1 .. Len(recvCh) - 1 : recvCh'[i] = recvCh[i + 1]
    BY <2>1
  <2>3. RecvTypes'
    BY <2>1, <2>2
  <2>4. HeldInv' /\ ChanInv'
    BY <2>1, <2>2
  <2> QED
    BY <2>3, <2>4
<1>5. ASSUME \/ SourceEnds \/ ReadFromBegins \/ ReadFromClosed
             \/ ReadFromTimeout \/ DeadlinePasses \/ Close
      PROVE IInv'
  BY <1>5 DEF SourceEnds, ReadFromBegins, ReadFromClosed, ReadFromTimeout,
              DeadlinePasses, Close, CloseChannel, CloseHandle
<1>6. ASSUME NEW d \in Deadline, SetReadDeadline(d) PROVE IInv'
  BY <1>6 DEF SetReadDeadline
<1>7. ASSUME NEW w \in Writers, WriteTo(w) PROVE IInv'
  BY <1>7 DEF WriteTo, WriteToBegins, Lock, Serialize, SerializeFails, Write,
              Count, Send, SendFails
<1>8. ASSUME UNCHANGED vars PROVE IInv'
  BY <1>8 DEF vars
<1> HIDE DEF IInv
<1> QED
  BY <1>1, <1>2, <1>3, <1>4, <1>5, <1>6, <1>7, <1>8
     DEF Next, ReadLoop, ReadFromEnds

LEMMA IInvImplies == IInv => InOrderOnce
<1> SUFFICES ASSUME IInv PROVE InOrderOnce
  OBVIOUS
<1> USE DEF IInv, RecvTypes, HeldInv, ChanInv
<1>1. CASE held = 0
  <2>1. Pipeline = recvCh \o <<>>
    BY <1>1 DEF Pipeline
  <2>2. /\ DOMAIN Pipeline = 1 .. Len(recvCh)
        /\ \A i \in 1 .. Len(recvCh) : Pipeline[i] = recvCh[i]
    BY <2>1
  <2>3. ASSUME NEW i \in DOMAIN Pipeline
        PROVE  lastRead < Pipeline[i] /\ Pipeline[i] <= captured
    BY <2>2
  <2>4. ASSUME NEW i \in DOMAIN Pipeline, NEW j \in DOMAIN Pipeline, i < j
        PROVE  Pipeline[i] < Pipeline[j]
    BY <2>2, <2>4
  <2> QED
    BY ONLY <2>3, <2>4 DEF InOrderOnce
<1>2. CASE held # 0
  <2>1. Pipeline = recvCh \o <<held>>
    BY <1>2 DEF Pipeline
  <2>2. /\ DOMAIN Pipeline = 1 .. Len(recvCh) + 1
        /\ \A i \in 1 .. Len(recvCh) : Pipeline[i] = recvCh[i]
        /\ Pipeline[Len(recvCh) + 1] = held
    BY <2>1
  <2>3. ASSUME NEW i \in DOMAIN Pipeline
        PROVE  lastRead < Pipeline[i] /\ Pipeline[i] <= captured
    <3>1. CASE i = Len(recvCh) + 1
      BY <1>2, <2>2, <3>1
    <3>2. CASE i \in 1 .. Len(recvCh)
      BY <2>2, <3>2
    <3> QED
      BY <2>2, <3>1, <3>2
  <2>4. ASSUME NEW i \in DOMAIN Pipeline, NEW j \in DOMAIN Pipeline, i < j
        PROVE  Pipeline[i] < Pipeline[j]
    <3>1. i \in 1 .. Len(recvCh)
      BY <2>2, <2>4
    <3>2. CASE j = Len(recvCh) + 1
      BY <1>2, <2>2, <3>1, <3>2
    <3>3. CASE j \in 1 .. Len(recvCh)
      BY <2>2, <2>4, <3>1, <3>3
    <3> QED
      BY <2>2, <3>2, <3>3
  <2> QED
    BY <2>3, <2>4 DEF InOrderOnce
<1> QED
  BY <1>1, <1>2

\* ReadFrom returns packets in the order of the capture and none twice,
\* whatever readLoop drops: for any capacity of recvCh.
THEOREM KeepsOrder == Spec => []InOrderOnce
BY IInvInit, IInvNext, IInvImplies, PTL DEF Spec

-----------------------------------------------------------------------------
(* The sequence numbers *)

\* The calls of WriteTo that have not returned.
Busy == {w \in Writers : writer[w] # "idle"}

WriteTypes ==
  /\ writer \in [Writers -> {"idle", "lock", "count", "send"}]
  /\ pkt \in [Writers -> Packet]
  /\ writeMu \in Writers \cup {None}
  /\ seqNum \in 0 .. SeqSpace - 1
  /\ calls \in 0 .. MaxWrites
  /\ wire \in [n : Nat, seq : 0 .. SeqSpace - 1, len : Lens \cup {0}]

\* writeMu covers the packet from its number to its place on the wire.
LockInv ==
  /\ \A w \in Writers : writer[w] \in {"count", "send"} <=> writeMu = w
  /\ \A w \in Writers : writer[w] = "count" => pkt[w].seq = seqNum
  /\ \A w \in Writers :
       writer[w] = "send" => seqNum = (pkt[w].seq + pkt[w].len) % SeqSpace

WInv == WriteTypes /\ LockInv

\* The number of the next packet on the wire, unless sending it fails.
NextSeq ==
  IF \E w \in Writers : writeMu = w /\ writer[w] = "send"
    THEN pkt[writeMu].seq ELSE seqNum

Wrap(x) == IF x < SeqSpace THEN x ELSE x - SeqSpace

\* Since the last packet that was sent, lost numbers were used up by calls that
\* failed; failed is the number of calls that failed so far, each at most L long.
Gap(L, failed, lost) ==
  /\ IsFiniteSet(Busy)
  /\ calls = wire.n + failed + Cardinality(Busy)
  /\ lost <= failed * L
  /\ wire.len + lost < SeqSpace => NextSeq = Wrap(wire.seq + wire.len + lost)

GapInv(L) == \E failed, lost \in Nat : Gap(L, failed, lost)

LEMMA ModOnce ==
  ASSUME NEW x \in Nat, x < 2 * SeqSpace
  PROVE  x % SeqSpace = Wrap(x)
  BY SeqAssumption DEF Wrap

LEMMA ModWithin ==
  ASSUME NEW x \in Nat
  PROVE  x % SeqSpace \in 0 .. SeqSpace - 1
  BY SeqAssumption

LEMMA WInvInit == Init => WInv
  BY SeqAssumption, LensAssumption, NoneAssumption, BoundsAssumption
     DEF Init, WInv, WriteTypes, LockInv, Packet, NoPacket

\* What the other goroutines do leaves the writers alone.
LEMMA OtherSteps ==
  ASSUME [Next]_vars
  PROVE  UNCHANGED writeVars \/ \E w \in Writers : WriteTo(w)
  BY DEF Next, vars, ReadLoop, TakePacket, LoopEnds, Deliver, DropPacket, DeliverClosed,
         SourceEnds, ReadFromBegins, ReadFromEnds, ReadFromData, ReadFromClosed,
         ReadFromTimeout, SetReadDeadline, DeadlinePasses, Close, CloseChannel, CloseHandle

LEMMA WInvNext == WInv /\ [Next]_vars => WInv'
<1> SUFFICES ASSUME WInv, [Next]_vars PROVE WInv'
  OBVIOUS
<1> USE SeqAssumption, LensAssumption, NoneAssumption, BoundsAssumption
        DEF WInv, WriteTypes, LockInv, Packet, NoPacket
<1>1. ASSUME NEW w \in Writers, NEW n \in Lens, WriteToBegins(w, n) PROVE WInv'
  BY <1>1 DEF WriteToBegins
<1>2. ASSUME NEW w \in Writers, Serialize(w) PROVE WInv'
  BY <1>2 DEF Serialize
<1>3. ASSUME NEW w \in Writers, SerializeFails(w) PROVE WInv'
  BY <1>3 DEF SerializeFails
<1>4. ASSUME NEW w \in Writers, Count(w) PROVE WInv'
  <2>1. seqNum + pkt[w].len \in Nat /\ pkt[w].seq = seqNum
    <3>1. pkt[w].len \in Lens \cup {0} /\ pkt[w].seq = seqNum
      BY <1>4 DEF Count
    <3>2. \A n \in Lens \cup {0} : n \in Nat
      BY SeqAssumption, LensAssumption
    <3>3. seqNum \in Nat
      BY SeqAssumption
    <3> QED
      BY ONLY <3>1, <3>2, <3>3
  <2>2. seqNum' \in 0 .. SeqSpace - 1
    <3>1. seqNum' = (seqNum + pkt[w].len) % SeqSpace
      BY <1>4 DEF Count
    <3> QED
      BY ONLY <2>1, <3>1, ModWithin
  <2> QED
    BY <1>4, <2>1, <2>2 DEF Count
<1>5. ASSUME NEW w \in Writers, Send(w) PROVE WInv'
  BY <1>5 DEF Send, WriteToReturns
<1>6. ASSUME NEW w \in Writers, SendFails(w) PROVE WInv'
  BY <1>6 DEF SendFails, WriteToReturns
<1>7. ASSUME UNCHANGED writeVars PROVE WInv'
  BY <1>7 DEF writeVars
<1> HIDE DEF WInv
<1> QED
  BY <1>1, <1>2, <1>3, <1>4, <1>5, <1>6, <1>7, OtherSteps DEF WriteTo, Lock, Write

LEMMA GapInit ==
  ASSUME NEW L \in Nat, Init
  PROVE  GapInv(L)
<1>1. Busy = {}
  BY DEF Init, Busy
<1>2. IsFiniteSet(Busy) /\ Cardinality(Busy) = 0
  BY <1>1, FS_EmptySet
<1>3. NextSeq = SeqStart /\ SeqStart \in 0 .. SeqSpace - 1
  BY NoneAssumption, SeqAssumption DEF Init, NextSeq
<1>4. calls = 0 /\ wire.n = 0 /\ wire.seq = SeqStart /\ wire.len = 0
  BY DEF Init
<1>5. Wrap(SeqStart + 0 + 0) = SeqStart
  BY <1>3, SeqAssumption DEF Wrap
<1>6. Gap(L, 0, 0)
  BY <1>2, <1>3, <1>4, <1>5 DEF Gap
<1> QED
  BY <1>6 DEF GapInv

\* A call that begins, or ends.
LEMMA BusyChanges ==
  ASSUME WriteTypes, IsFiniteSet(Busy), NEW w \in Writers
  PROVE  /\ Cardinality(Busy) \in Nat
         /\ writer[w] = "idle" /\ writer' = [writer EXCEPT ![w] = "lock"] =>
              IsFiniteSet(Busy') /\ Cardinality(Busy') = Cardinality(Busy) + 1
         /\ writer[w] # "idle" /\ writer' = [writer EXCEPT ![w] = "idle"] =>
              IsFiniteSet(Busy') /\ Cardinality(Busy') = Cardinality(Busy) - 1
         /\ \A x \in {"count", "send"} :
              writer[w] # "idle" /\ writer' = [writer EXCEPT ![w] = x] => Busy' = Busy
<1>1. Cardinality(Busy) \in Nat
  BY FS_CardinalityType
<1>2. ASSUME writer[w] = "idle", writer' = [writer EXCEPT ![w] = "lock"]
      PROVE  IsFiniteSet(Busy') /\ Cardinality(Busy') = Cardinality(Busy) + 1
  <2>1. Busy' = Busy \cup {w} /\ w \notin Busy
    BY <1>2 DEF Busy, WriteTypes
  <2> QED
    BY <2>1, FS_AddElement
<1>3. ASSUME writer[w] # "idle", writer' = [writer EXCEPT ![w] = "idle"]
      PROVE  IsFiniteSet(Busy') /\ Cardinality(Busy') = Cardinality(Busy) - 1
  <2>1. Busy' = Busy \ {w} /\ w \in Busy
    BY <1>3 DEF Busy, WriteTypes
  <2> QED
    BY <2>1, FS_RemoveElement
<1>4. ASSUME NEW x \in {"count", "send"}, writer[w] # "idle",
             writer' = [writer EXCEPT ![w] = x]
      PROVE  Busy' = Busy
  BY <1>4 DEF Busy, WriteTypes
<1> QED
  BY <1>1, <1>2, <1>3, <1>4

LEMMA GapNext ==
  ASSUME NEW L \in Nat, \A n \in Lens : n <= L, WInv, GapInv(L), [Next]_vars
  PROVE  GapInv(L)'
<1>1. PICK failed \in Nat, lost \in Nat : Gap(L, failed, lost)
  BY DEF GapInv
<1>2. IsFiniteSet(Busy) /\ Cardinality(Busy) \in Nat
  BY <1>1, FS_CardinalityType DEF Gap
<1>3. /\ wire.n \in Nat /\ wire.seq \in 0 .. SeqSpace - 1 /\ wire.len \in Nat
      /\ wire.len < SeqSpace /\ SeqSpace \in Nat /\ seqNum \in 0 .. SeqSpace - 1
  <2>1. /\ wire.len \in Lens \cup {0} /\ wire.n \in Nat
        /\ wire.seq \in 0 .. SeqSpace - 1 /\ seqNum \in 0 .. SeqSpace - 1
    BY DEF WInv, WriteTypes
  <2>2. \A n \in Lens \cup {0} : n \in Nat /\ n < SeqSpace
    BY SeqAssumption, LensAssumption
  <2> QED
    BY <2>1, <2>2, SeqAssumption
<1>4. ASSUME NEW w \in Writers
      PROVE  /\ pkt[w].seq \in 0 .. SeqSpace - 1 /\ pkt[w].len \in Nat
             /\ pkt[w].len < SeqSpace /\ pkt[w].len <= L
  <2>1. pkt[w].seq \in 0 .. SeqSpace - 1 /\ pkt[w].len \in Lens \cup {0}
    BY DEF WInv, WriteTypes, Packet
  <2>2. \A n \in Lens \cup {0} : n \in Nat /\ n < SeqSpace /\ n <= L
    BY SeqAssumption, LensAssumption
  <2> QED
    BY <2>1, <2>2
<1>5. ASSUME NEW w \in Writers, NEW n \in Lens, WriteToBegins(w, n) PROVE GapInv(L)'
  <2>1. IsFiniteSet(Busy') /\ Cardinality(Busy') = Cardinality(Busy) + 1
    BY <1>2, <1>5, BusyChanges DEF WriteToBegins, WInv
  <2>2. NextSeq' = NextSeq
    BY <1>5 DEF WriteToBegins, NextSeq, WInv, WriteTypes, LockInv
  <2>3. Gap(L, failed, lost)'
    BY <1>1, <1>2, <1>3, <1>5, <2>1, <2>2 DEF Gap, WriteToBegins, Wrap
  <2> QED
    BY <2>3 DEF GapInv
<1>6. ASSUME NEW w \in Writers, Serialize(w) PROVE GapInv(L)'
  <2>1. Busy' = Busy
    BY <1>2, <1>6, BusyChanges DEF Serialize, WInv
  <2>2. NextSeq' = NextSeq
    BY <1>6, NoneAssumption DEF Serialize, NextSeq, WInv, WriteTypes, LockInv
  <2>3. Gap(L, failed, lost)'
    BY <1>1, <1>6, <2>1, <2>2 DEF Gap, Serialize, Wrap
  <2> QED
    BY <2>3 DEF GapInv
<1>7. ASSUME NEW w \in Writers, SerializeFails(w) PROVE GapInv(L)'
  <2>1. IsFiniteSet(Busy') /\ Cardinality(Busy') = Cardinality(Busy) - 1
    BY <1>2, <1>7, BusyChanges DEF SerializeFails, WInv
  <2>2. NextSeq' = NextSeq
    BY <1>7, NoneAssumption DEF SerializeFails, NextSeq, WInv, WriteTypes, LockInv
  <2>3. lost <= (failed + 1) * L
    BY <1>1 DEF Gap
  <2>4. Gap(L, failed + 1, lost)'
    BY <1>1, <1>2, <1>3, <1>7, <2>1, <2>2, <2>3 DEF Gap, SerializeFails, Wrap
  <2> QED
    BY <2>4 DEF GapInv
<1>8. ASSUME NEW w \in Writers, Count(w) PROVE GapInv(L)'
  <2>1. Busy' = Busy
    BY <1>2, <1>8, BusyChanges DEF Count, WInv
  <2>2. NextSeq' = NextSeq
    BY <1>8, NoneAssumption DEF Count, NextSeq, WInv, WriteTypes, LockInv
  <2>3. Gap(L, failed, lost)'
    BY <1>1, <1>8, <2>1, <2>2 DEF Gap, Count, Wrap
  <2> QED
    BY <2>3 DEF GapInv
\* The number a packet has, when it is sent or fails to be, is the next one.
<1>9. ASSUME NEW w \in Writers, writer[w] = "send", WriteToReturns(w), UNCHANGED seqNum
      PROVE  /\ NextSeq = pkt[w].seq
             /\ NextSeq' = Wrap(pkt[w].seq + pkt[w].len)
             /\ IsFiniteSet(Busy') /\ Cardinality(Busy') = Cardinality(Busy) - 1
  <2>1. NextSeq = pkt[w].seq
    BY <1>9 DEF NextSeq, WInv, LockInv
  <2>2. NextSeq' = seqNum
    BY <1>9, NoneAssumption DEF NextSeq, WriteToReturns
  <2>3. seqNum = (pkt[w].seq + pkt[w].len) % SeqSpace
    BY <1>9 DEF WInv, LockInv
  <2>4. (pkt[w].seq + pkt[w].len) % SeqSpace = Wrap(pkt[w].seq + pkt[w].len)
    <3>1. pkt[w].seq \in Nat /\ pkt[w].len \in Nat
      BY <1>3, <1>4
    <3>2. pkt[w].seq < SeqSpace /\ pkt[w].len < SeqSpace
      BY <1>3, <1>4
    <3>3. pkt[w].seq + pkt[w].len \in Nat /\ pkt[w].seq + pkt[w].len < 2 * SeqSpace
      BY <1>3, <3>1, <3>2
    <3> QED
      BY <3>3, ModOnce
  <2>5. IsFiniteSet(Busy') /\ Cardinality(Busy') = Cardinality(Busy) - 1
    BY <1>2, <1>9, BusyChanges DEF WriteToReturns, WInv
  <2> QED
    BY <2>1, <2>2, <2>3, <2>4, <2>5
<1>10. ASSUME NEW w \in Writers, Send(w) PROVE GapInv(L)'
  <2>1. /\ NextSeq' = Wrap(pkt[w].seq + pkt[w].len)
        /\ IsFiniteSet(Busy') /\ Cardinality(Busy') = Cardinality(Busy) - 1
    BY <1>9, <1>10 DEF Send
  <2>2. wire'.n = wire.n + 1 /\ wire'.seq = pkt[w].seq /\ wire'.len = pkt[w].len
    BY <1>10 DEF Send
  <2>3. wire'.seq + wire'.len + 0 = pkt[w].seq + pkt[w].len
    BY <1>4, <2>2
  <2>4. 0 <= failed * L
    OBVIOUS
  <2>5. calls' = wire'.n + failed + Cardinality(Busy')
    BY <1>1, <1>2, <1>3, <1>10, <2>1, <2>2 DEF Gap, Send
  <2>6. Gap(L, failed, 0)'
    <3>1. Wrap(wire.seq + wire.len + 0)' = Wrap(pkt[w].seq + pkt[w].len)
      BY <2>3 DEF Wrap
    <3> QED
      BY <2>1, <2>4, <2>5, <3>1 DEF Gap
  <2> QED
    BY <2>6 DEF GapInv
<1>11. ASSUME NEW w \in Writers, SendFails(w) PROVE GapInv(L)'
  <2>1. /\ NextSeq = pkt[w].seq /\ NextSeq' = Wrap(pkt[w].seq + pkt[w].len)
        /\ IsFiniteSet(Busy') /\ Cardinality(Busy') = Cardinality(Busy) - 1
    BY <1>9, <1>11 DEF SendFails
  <2>2. PICK more \in Nat : more = lost + pkt[w].len
    BY <1>4
  <2>3. more <= (failed + 1) * L
    BY <1>1, <1>4, <2>2 DEF Gap
  <2>4. ASSUME wire.len + more < SeqSpace
        PROVE  NextSeq' = Wrap(wire.seq + wire.len + more)
    <3>1. pkt[w].seq = Wrap(wire.seq + wire.len + lost)
      BY <1>1, <1>3, <1>4, <2>1, <2>2, <2>4 DEF Gap
    <3> QED
      BY <1>3, <1>4, <2>1, <2>2, <2>4, <3>1 DEF Wrap
  <2>5. calls' = wire'.n + (failed + 1) + Cardinality(Busy') /\ wire' = wire
    BY <1>1, <1>2, <1>3, <1>11, <2>1 DEF Gap, SendFails
  <2>6. Gap(L, failed + 1, more)'
    BY <2>1, <2>3, <2>4, <2>5 DEF Gap, Wrap
  <2> QED
    BY <2>3, <2>6 DEF GapInv
<1>12. ASSUME UNCHANGED writeVars PROVE GapInv(L)'
  BY <1>1, <1>12 DEF GapInv, Gap, Busy, NextSeq, Wrap, writeVars
<1> QED
  BY <1>5, <1>6, <1>7, <1>8, <1>10, <1>11, <1>12, OtherSteps DEF WriteTo, Lock, Write

\* The packet that is sent begins at or after the end of the one before it, if
\* what the failed calls used up in between has not gone round the number space.
LEMMA SendApart ==
  ASSUME NEW L \in Nat, \A n \in Lens : n <= L, WInv, GapInv(L), [Next]_vars,
         wire'.n # wire.n, (calls - wire.n) * L < SeqSpace
  PROVE  (wire'.seq + SeqSpace - wire.seq) % SeqSpace >= wire.len
<1>1. PICK w \in Writers : Send(w)
  BY OtherSteps DEF writeVars, WriteTo, WriteToBegins, Lock, Serialize, SerializeFails,
                    Write, Count, SendFails
<1>2. PICK failed \in Nat, lost \in Nat : Gap(L, failed, lost)
  BY DEF GapInv
<1>3. wire'.seq = pkt[w].seq /\ NextSeq = pkt[w].seq
  BY <1>1 DEF Send, NextSeq, WInv, LockInv
<1>4. /\ wire.len \in Nat /\ wire.len <= L /\ wire.n \in Nat
      /\ wire.seq \in 0 .. SeqSpace - 1 /\ SeqSpace \in Nat
  <2>1. /\ wire.len \in Lens \cup {0} /\ wire.n \in Nat
        /\ wire.seq \in 0 .. SeqSpace - 1
    BY DEF WInv, WriteTypes
  <2>2. \A n \in Lens \cup {0} : n \in Nat /\ n <= L
    BY SeqAssumption, LensAssumption
  <2> QED
    BY <2>1, <2>2, SeqAssumption
\* The call itself has not failed.
<1>5. failed + 1 <= calls - wire.n /\ calls - wire.n \in Nat
  <2>1. Cardinality(Busy) \in Nat
    BY <1>2, FS_CardinalityType DEF Gap
  <2>2. w \in Busy
    BY <1>1 DEF Busy, Send
  <2>3. Cardinality(Busy) # 0
    BY <1>2, <2>2, FS_EmptySet DEF Gap
  <2>4. calls = wire.n + failed + Cardinality(Busy)
    BY <1>2 DEF Gap
  <2> QED
    BY <1>4, <2>1, <2>3, <2>4
<1>6. wire.len + lost < SeqSpace
  <2>1. wire.len + lost <= (failed + 1) * L
    BY <1>2, <1>4 DEF Gap
  <2>2. (failed + 1) * L <= (calls - wire.n) * L
    BY <1>5
  <2> QED
    BY <1>4, <1>5, <2>1, <2>2
<1>7. wire'.seq = Wrap(wire.seq + wire.len + lost)
  BY <1>2, <1>3, <1>6 DEF Gap
<1> DEFINE g == wire.len + lost
<1>8. CASE wire.seq + g < SeqSpace
  <2>1. wire'.seq + SeqSpace - wire.seq = g + SeqSpace
    BY <1>4, <1>7, <1>8 DEF Wrap
  <2>2. (g + SeqSpace) % SeqSpace = g
    <3>1. (g + SeqSpace) % SeqSpace = Wrap(g + SeqSpace)
      BY <1>4, <1>6, ModOnce
    <3> QED
      BY <1>4, <3>1 DEF Wrap
  <2> QED
    BY <1>4, <2>1, <2>2
<1>9. CASE ~(wire.seq + g < SeqSpace)
  <2>1. wire'.seq + SeqSpace - wire.seq = g
    BY <1>4, <1>7, <1>9 DEF Wrap
  <2>2. g % SeqSpace = g
    <3>1. g % SeqSpace = Wrap(g)
      BY <1>4, <1>6, ModOnce
    <3> QED
      BY <1>4, <1>6, <3>1 DEF Wrap
  <2> QED
    BY <1>4, <2>1, <2>2
<1> QED
  BY <1>8, <1>9

\* Packets on the wire do not overlap, for any number of packets sent and any
\* number of writers, as long as the calls that failed or have not returned are
\* too few to use up the number space: with packets of at most L bytes, fewer
\* than SeqSpace / L of them.
THEOREM FewFailuresNoOverlap ==
  ASSUME NEW L \in Nat, \A n \in Lens : n <= L
  PROVE  Spec => [][wire'.n # wire.n /\ (calls - wire.n) * L < SeqSpace =>
                      (wire'.seq + SeqSpace - wire.seq) % SeqSpace >= wire.len]_vars
<1>1. WInv /\ GapInv(L) /\ [Next]_vars =>
        [wire'.n # wire.n /\ (calls - wire.n) * L < SeqSpace =>
           (wire'.seq + SeqSpace - wire.seq) % SeqSpace >= wire.len]_vars
  BY SendApart
<1>2. Init => WInv /\ GapInv(L)
  BY WInvInit, GapInit
<1>3. WInv /\ GapInv(L) /\ [Next]_vars => (WInv /\ GapInv(L))'
  BY WInvNext, GapNext
<1> QED
  BY <1>1, <1>2, <1>3, PTL DEF Spec

\* Without more calls of WriteTo than fit the number space, packets never
\* overlap, whichever of them fail and however the writers interleave.
THEOREM WritersNeverOverlap ==
  ASSUME NEW L \in Nat, \A n \in Lens : n <= L, MaxWrites * L < SeqSpace
  PROVE  Spec => NoSeqOverlap
<1>1. WInv /\ GapInv(L) => (calls - wire.n) * L < SeqSpace
  <2> SUFFICES ASSUME WInv, GapInv(L) PROVE (calls - wire.n) * L < SeqSpace
    OBVIOUS
  <2>1. PICK failed \in Nat, lost \in Nat : Gap(L, failed, lost)
    BY DEF GapInv
  <2>2. Cardinality(Busy) \in Nat
    BY <2>1, FS_CardinalityType DEF Gap
  <2>3. wire.n \in Nat /\ calls \in 0 .. MaxWrites
    BY DEF WInv, WriteTypes
  <2>4. calls - wire.n \in Nat /\ calls - wire.n <= MaxWrites
    BY <2>1, <2>2, <2>3, BoundsAssumption DEF Gap
  <2>5. (calls - wire.n) * L <= MaxWrites * L
    BY <2>4, BoundsAssumption
  <2> QED
    BY <2>4, <2>5, SeqAssumption, BoundsAssumption
<1>2. WInv /\ GapInv(L) /\ [Next]_vars =>
        [wire'.n # wire.n =>
           (wire'.seq + SeqSpace - wire.seq) % SeqSpace >= wire.len]_vars
  BY <1>1, SendApart
<1>3. Init => WInv /\ GapInv(L)
  BY WInvInit, GapInit
<1>4. WInv /\ GapInv(L) /\ [Next]_vars => (WInv /\ GapInv(L))'
  BY WInvNext, GapNext
<1> QED
  BY <1>2, <1>3, <1>4, PTL DEF Spec, NoSeqOverlap

-----------------------------------------------------------------------------
(* Type correctness *)

\* The types of the parts that the invariants above leave out.
RestTypes ==
  /\ captured \in 0 .. MaxPackets
  /\ source \in {"open", "ended"}
  /\ loop \in {"select", "deliver", "ended"}
  /\ held \in 0 .. MaxPackets
  /\ recvCh \in Seq(1 .. MaxPackets) /\ Len(recvCh) <= Cap
  /\ lastRead \in 0 .. MaxPackets
  /\ reader \in {"idle", "wait", "waitTimer"}
  /\ deadline \in Deadline
  /\ closeCh \in BOOLEAN
  /\ handle \in BOOLEAN

LEMMA RestTypesInit == Init => RestTypes
<1> SUFFICES ASSUME Init PROVE RestTypes
  OBVIOUS
<1>1. closeCh \in BOOLEAN /\ handle \in BOOLEAN
  BY Zenon DEF Init
<1>2. recvCh \in Seq(1 .. MaxPackets) /\ Len(recvCh) <= Cap
  BY CapAssumption DEF Init
<1> QED
  BY <1>1, <1>2, BoundsAssumption DEF Init, RestTypes, Deadline

LEMMA RestTypesNext == IInv /\ RestTypes /\ [Next]_vars => RestTypes'
<1> SUFFICES ASSUME IInv, RestTypes, [Next]_vars PROVE RestTypes'
  OBVIOUS
<1> USE BoundsAssumption, CapAssumption
        DEF RestTypes, recvVars, readVars, closeVars, Deadline
<1>1. ASSUME NEW hasPayload \in BOOLEAN, TakePacket(hasPayload) PROVE RestTypes'
  BY <1>1 DEF TakePacket
<1>2. ASSUME LoopEnds \/ DropPacket \/ DeliverClosed \/ SourceEnds PROVE RestTypes'
  BY <1>2 DEF LoopEnds, DropPacket, DeliverClosed, SourceEnds
<1>3. ASSUME Deliver PROVE RestTypes'
  <2>1. held \in 1 .. MaxPackets
    BY <1>3 DEF Deliver, IInv, HeldInv
  <2>2. recvCh' \in Seq(1 .. MaxPackets) /\ Len(recvCh') <= Cap
    BY <1>3, <2>1 DEF Deliver, HasRoom
  <2> QED
    BY <1>3, <2>2 DEF Deliver
<1>4. ASSUME ReadFromData PROVE RestTypes'
  <2>1. Head(recvCh) \in 1 .. MaxPackets
    BY <1>4 DEF ReadFromData
  <2>2. Tail(recvCh) \in Seq(1 .. MaxPackets) /\ Len(Tail(recvCh)) <= Cap
    BY <1>4 DEF ReadFromData
  <2> QED
    BY <1>4, <2>1, <2>2 DEF ReadFromData
<1>5. ASSUME ReadFromBegins \/ ReadFromClosed \/ ReadFromTimeout \/ DeadlinePasses
      PROVE RestTypes'
  BY <1>5 DEF ReadFromBegins, ReadFromClosed, ReadFromTimeout, DeadlinePasses
<1>6. ASSUME NEW d \in Deadline, SetReadDeadline(d) PROVE RestTypes'
  BY <1>6 DEF SetReadDeadline
<1>7. ASSUME Close PROVE RestTypes'
  BY <1>7 DEF Close, CloseChannel, CloseHandle
<1>8. ASSUME UNCHANGED <<recvVars, readVars, closeVars>> PROVE RestTypes'
  BY <1>8
<1>9. ASSUME NEW w \in Writers, WriteTo(w) PROVE UNCHANGED <<recvVars, readVars, closeVars>>
  BY <1>9 DEF WriteTo, WriteToBegins, Lock, Serialize, SerializeFails, Write, Count, Send,
              SendFails
<1> HIDE DEF RestTypes, recvVars, readVars, closeVars
<1> QED
  BY <1>1, <1>2, <1>3, <1>4, <1>5, <1>6, <1>7, <1>8, <1>9
     DEF Next, vars, ReadLoop, ReadFromEnds

\* Every variable keeps its type: recvCh never holds more than its capacity, and
\* no more packets are sent than calls were made.
THEOREM TypeCorrect == Spec => []TypeOK
<1> DEFINE L == SeqSpace
<1>1. L \in Nat /\ \A n \in Lens : n <= L
  BY SeqAssumption, LensAssumption
<1>2. WInv /\ GapInv(L) => wire.n \in 0 .. MaxWrites
  <2> SUFFICES ASSUME WInv, GapInv(L) PROVE wire.n \in 0 .. MaxWrites
    OBVIOUS
  <2>1. PICK failed \in Nat, lost \in Nat : Gap(L, failed, lost)
    BY DEF GapInv
  <2>2. Cardinality(Busy) \in Nat
    BY <2>1, FS_CardinalityType DEF Gap
  <2>3. wire.n \in Nat /\ calls \in 0 .. MaxWrites
    BY DEF WInv, WriteTypes
  <2> QED
    BY <2>1, <2>2, <2>3, BoundsAssumption DEF Gap
<1>3. RestTypes /\ WInv /\ GapInv(L) => TypeOK
  <2>1. WInv /\ GapInv(L) =>
          wire \in [n : 0 .. MaxWrites, seq : 0 .. SeqSpace - 1, len : Lens \cup {0}]
    BY <1>2 DEF WInv, WriteTypes
  <2> QED
    BY <2>1, Zenon DEF RestTypes, WInv, WriteTypes, TypeOK
<1>4. Init => WInv /\ GapInv(L)
  BY <1>1, WInvInit, GapInit
<1>5. WInv /\ GapInv(L) /\ [Next]_vars => (WInv /\ GapInv(L))'
  BY <1>1, WInvNext, GapNext
<1> QED
  BY <1>3, <1>4, <1>5, IInvInit, IInvNext, RestTypesInit, RestTypesNext, PTL DEF Spec
=============================================================================
