--------------------------- MODULE RawPacketConn ---------------------------
(***************************************************************************)
(* rawPacketConn of t2tunnel/rawpacketconn.go: a net.PacketConn for KCP    *)
(* over packets captured and injected with pcap.                           *)
(*                                                                         *)
(* readLoop moves captured packets to the channel recvCh, dropping what    *)
(* finds it full; ReadFrom waits for a packet, for Close or for its        *)
(* deadline; WriteTo numbers packets as TCP would.  One goroutine of KCP   *)
(* reads; those of several KCP sessions write.                             *)
(*                                                                         *)
(* Packets are numbered in the order in which the capture hands them over, *)
(* so a packet is a number, and a select that finds several cases ready    *)
(* takes any of them.                                                      *)
(***************************************************************************)
EXTENDS Naturals, Sequences

CONSTANTS
  Writers,      \* goroutines that call WriteTo
  None,         \* no writer
  Cap,          \* capacity of recvCh, 1024 in the code
  SeqSpace,     \* 2^32 in the code: seqNum is a uint32
  SeqStart,     \* the first sequence number, 1000 in the code
  Lens,         \* lengths of payloads
  MaxPackets,   \* bound: packets captured
  MaxWrites     \* bound: calls of WriteTo

ASSUME NoneAssumption == None \notin Writers
ASSUME CapAssumption == Cap \in Nat \ {0}
ASSUME SeqAssumption ==
  SeqSpace \in Nat \ {0} /\ SeqStart \in 0 .. SeqSpace - 1
ASSUME LensAssumption == Lens \subseteq 1 .. SeqSpace - 1
ASSUME BoundsAssumption == MaxPackets \in Nat /\ MaxWrites \in Nat

VARIABLES
  \* receiving
  captured,     \* packets taken from the capture
  source,       \* the packet channel of gopacket: "open" or "ended"
  loop,         \* where readLoop is
  held,         \* the packet it holds, 0 for none
  recvCh,
  lastRead,     \* the packet ReadFrom returned last, 0 for none
  reader,       \* where the goroutine that calls ReadFrom is
  deadline,     \* readDeadline: "none", "future" or "past"
  \* closing
  closeCh,      \* closeCh is closed
  handle,       \* the pcap handle is open
  \* sending
  writer,       \* writer[w]: where w is in WriteTo
  pkt,          \* pkt[w]: the packet it builds
  writeMu,      \* holder of writeMu, or None
  seqNum,
  calls,        \* calls of WriteTo
  wire          \* the last packet sent, and how many were

recvVars == <<captured, source, loop, held, recvCh>>
readVars == <<lastRead, reader, deadline>>
closeVars == <<closeCh, handle>>
writeVars == <<writer, pkt, writeMu, seqNum, calls, wire>>
vars == <<recvVars, readVars, closeVars, writeVars>>

Deadline == {"none", "future", "past"}
Packet == [seq : 0 .. SeqSpace - 1, len : Lens \cup {0}]
NoPacket == [seq |-> 0, len |-> 0]

TypeOK ==
  /\ captured \in 0 .. MaxPackets
  /\ source \in {"open", "ended"}
  /\ loop \in {"select", "deliver", "ended"}
  /\ held \in 0 .. MaxPackets
  /\ recvCh \in Seq(1 .. MaxPackets) /\ Len(recvCh) <= Cap
  /\ lastRead \in 0 .. MaxPackets
  /\ reader \in {"idle", "wait", "waitTimer"}
  /\ deadline \in Deadline
  /\ closeCh \in BOOLEAN
  /\ handle \in BOOLEAN
  /\ writer \in [Writers -> {"idle", "lock", "count", "send"}]
  /\ pkt \in [Writers -> Packet]
  /\ writeMu \in Writers \cup {None}
  /\ seqNum \in 0 .. SeqSpace - 1
  /\ calls \in 0 .. MaxWrites
  /\ wire \in [n : 0 .. MaxWrites, seq : 0 .. SeqSpace - 1, len : Lens \cup {0}]

\* NewRawPacketConn, once the capture is open.
Init ==
  /\ captured = 0 /\ source = "open"
  /\ loop = "select" /\ held = 0 /\ recvCh = <<>>
  /\ lastRead = 0 /\ reader = "idle"
  /\ deadline = "none"
  /\ closeCh = FALSE /\ handle = TRUE
  /\ writer = [w \in Writers |-> "idle"]
  /\ pkt = [w \in Writers |-> NoPacket]
  /\ writeMu = None
  /\ seqNum = SeqStart
  /\ calls = 0
  /\ wire = [n |-> 0, seq |-> SeqStart, len |-> 0]

-----------------------------------------------------------------------------
(* readLoop *)

\* A packet without a payload, such as a bare ACK, is passed over.
TakePacket(hasPayload) ==
  /\ loop = "select"
  /\ source = "open"
  /\ captured < MaxPackets
  /\ captured' = captured + 1
  /\ IF hasPayload
       THEN held' = captured + 1 /\ loop' = "deliver"
       ELSE UNCHANGED <<held, loop>>
  /\ UNCHANGED <<source, recvCh, readVars, closeVars, writeVars>>

\* The connection is closed, or the capture has ended.
LoopEnds ==
  /\ loop = "select"
  /\ closeCh \/ source = "ended"
  /\ loop' = "ended"
  /\ UNCHANGED <<captured, source, held, recvCh, readVars, closeVars, writeVars>>

HasRoom == Len(recvCh) < Cap

Deliver_KeepsPacket ==
  /\ loop = "deliver"
  /\ HasRoom
  /\ recvCh' = Append(recvCh, held)
  /\ UNCHANGED <<captured, source, held, loop, readVars, closeVars, writeVars>>
Deliver ==
  /\ loop = "deliver"
  /\ HasRoom
  /\ recvCh' = Append(recvCh, held)
  /\ held' = 0
  /\ loop' = "select"
  /\ UNCHANGED <<captured, source, readVars, closeVars, writeVars>>

DropPacket_Inverted ==
  /\ loop = "deliver"
  /\ HasRoom /\ ~closeCh
  /\ held' = 0
  /\ loop' = "select"
  /\ UNCHANGED <<captured, source, recvCh, readVars, closeVars, writeVars>>
\* The default case is taken only when no other case is ready.
DropPacket ==
  /\ loop = "deliver"
  /\ ~HasRoom /\ ~closeCh
  /\ held' = 0
  /\ loop' = "select"
  /\ UNCHANGED <<captured, source, recvCh, readVars, closeVars, writeVars>>

DeliverClosed ==
  /\ loop = "deliver"
  /\ closeCh
  /\ held' = 0
  /\ loop' = "ended"
  /\ UNCHANGED <<captured, source, recvCh, readVars, closeVars, writeVars>>

\* The capture fails, or ends because the handle was closed.
SourceEnds ==
  /\ source = "open"
  /\ source' = "ended"
  /\ UNCHANGED <<captured, loop, held, recvCh, readVars, closeVars, writeVars>>

-----------------------------------------------------------------------------
(* ReadFrom and the deadline *)

\* With a deadline in the past ReadFrom returns at once.
ReadFromBegins ==
  /\ reader = "idle"
  /\ reader' =
       [none |-> "wait", future |-> "waitTimer", past |-> "idle"][deadline]
  /\ UNCHANGED <<recvVars, lastRead, deadline, closeVars, writeVars>>

ReadFromData ==
  /\ reader # "idle"
  /\ recvCh # <<>>
  /\ lastRead' = Head(recvCh)
  /\ recvCh' = Tail(recvCh)
  /\ reader' = "idle"
  /\ UNCHANGED <<captured, source, loop, held, deadline, closeVars, writeVars>>

ReadFromClosed_OnlyWithTimer ==
  /\ reader = "waitTimer"
  /\ closeCh
  /\ reader' = "idle"
  /\ UNCHANGED <<recvVars, lastRead, deadline, closeVars, writeVars>>
ReadFromClosed ==
  /\ reader # "idle"
  /\ closeCh
  /\ reader' = "idle"
  /\ UNCHANGED <<recvVars, lastRead, deadline, closeVars, writeVars>>

\* The timer was armed with the deadline seen when ReadFrom began.
ReadFromTimeout ==
  /\ reader = "waitTimer"
  /\ reader' = "idle"
  /\ UNCHANGED <<recvVars, lastRead, deadline, closeVars, writeVars>>

\* readDeadline is three words, written without a lock.  A ReadFrom that begins
\* meanwhile sees some mixture of two deadlines, as if one more call had set it.
SetReadDeadline(d) ==
  /\ deadline' = d
  /\ UNCHANGED <<recvVars, lastRead, reader, closeVars, writeVars>>

DeadlinePasses ==
  /\ deadline = "future"
  /\ deadline' = "past"
  /\ UNCHANGED <<recvVars, lastRead, reader, closeVars, writeVars>>

-----------------------------------------------------------------------------
(* Close, under closeOnce: a second call changes nothing. *)

CloseChannel ==
  /\ ~closeCh
  /\ closeCh' = TRUE
  /\ UNCHANGED <<recvVars, readVars, handle, writeVars>>

CloseHandle ==
  /\ closeCh /\ handle
  /\ handle' = FALSE
  /\ UNCHANGED <<recvVars, readVars, closeCh, writeVars>>

-----------------------------------------------------------------------------
(* WriteTo *)

WriteToBegins(w, n) ==
  /\ writer[w] = "idle"
  /\ calls < MaxWrites
  /\ calls' = calls + 1
  /\ writer' = [writer EXCEPT ![w] = "lock"]
  /\ pkt' = [pkt EXCEPT ![w].len = n]
  /\ UNCHANGED <<recvVars, readVars, closeVars, writeMu, seqNum, wire>>

Serialize_NoLock(w) ==
  /\ writer[w] = "lock"
  /\ pkt' = [pkt EXCEPT ![w].seq = seqNum]
  /\ writer' = [writer EXCEPT ![w] = "count"]
  /\ UNCHANGED <<recvVars, readVars, closeVars, writeMu, seqNum, calls, wire>>
\* The packet is built with the current sequence number.
Serialize(w) ==
  /\ writer[w] = "lock"
  /\ writeMu = None
  /\ writeMu' = w
  /\ pkt' = [pkt EXCEPT ![w].seq = seqNum]
  /\ writer' = [writer EXCEPT ![w] = "count"]
  /\ UNCHANGED <<recvVars, readVars, closeVars, seqNum, calls, wire>>

\* SerializeLayers fails; nothing was counted.
SerializeFails(w) ==
  /\ writer[w] = "lock"
  /\ writeMu = None
  /\ writer' = [writer EXCEPT ![w] = "idle"]
  /\ pkt' = [pkt EXCEPT ![w] = NoPacket]
  /\ UNCHANGED <<recvVars, readVars, closeVars, writeMu, seqNum, calls, wire>>

\* Whether it is then sent or not, the packet's numbers are used up.
Count(w) ==
  /\ writer[w] = "count"
  /\ seqNum' = (seqNum + pkt[w].len) % SeqSpace
  /\ writer' = [writer EXCEPT ![w] = "send"]
  /\ UNCHANGED <<recvVars, readVars, closeVars, pkt, writeMu, calls, wire>>

WriteToReturns(w) ==
  /\ writer' = [writer EXCEPT ![w] = "idle"]
  /\ pkt' = [pkt EXCEPT ![w] = NoPacket]
  /\ writeMu' = None

Send(w) ==
  /\ writer[w] = "send"
  /\ handle
  /\ wire' = [n |-> wire.n + 1, seq |-> pkt[w].seq, len |-> pkt[w].len]
  /\ WriteToReturns(w)
  /\ UNCHANGED <<recvVars, readVars, closeVars, seqNum, calls>>

SendFails_KeepsLock(w) ==
  /\ writer[w] = "send"
  /\ writer' = [writer EXCEPT ![w] = "idle"]
  /\ pkt' = [pkt EXCEPT ![w] = NoPacket]
  /\ UNCHANGED <<recvVars, readVars, closeVars, writeMu, seqNum, calls, wire>>
\* WritePacketData fails, as it always does on a closed handle.
SendFails(w) ==
  /\ writer[w] = "send"
  /\ WriteToReturns(w)
  /\ UNCHANGED <<recvVars, readVars, closeVars, seqNum, calls, wire>>

-----------------------------------------------------------------------------

ReadLoop ==
  \/ \E hasPayload \in BOOLEAN : TakePacket(hasPayload)
  \/ LoopEnds \/ Deliver \/ DropPacket \/ DeliverClosed
ReadFromEnds == ReadFromData \/ ReadFromClosed \/ ReadFromTimeout
Close == CloseChannel \/ CloseHandle
Lock(w) == Serialize(w) \/ SerializeFails(w)
Write(w) == Count(w) \/ Send(w) \/ SendFails(w)
WriteTo(w) == (\E n \in Lens : WriteToBegins(w, n)) \/ Lock(w) \/ Write(w)

Next ==
  \/ ReadLoop \/ SourceEnds
  \/ ReadFromBegins \/ ReadFromEnds
  \/ \E d \in Deadline : SetReadDeadline(d)
  \/ DeadlinePasses
  \/ Close
  \/ \E w \in Writers : WriteTo(w)

Spec == Init /\ [][Next]_vars

\* Goroutines run, Close goes on to the handle, a timer fires, and a closed
\* handle ends the capture.  A select chooses at random, so it does not pass
\* over the closed channel for ever; a mutex is handed to a waiter.
Fairness ==
  /\ WF_vars(Deliver \/ DropPacket \/ DeliverClosed) /\ SF_vars(LoopEnds)
  /\ WF_vars(ReadFromEnds)
  /\ WF_vars(CloseHandle) /\ WF_vars(~handle /\ SourceEnds)
  /\ \A w \in Writers : SF_vars(Lock(w)) /\ WF_vars(Write(w))

FairSpec == Spec /\ Fairness

-----------------------------------------------------------------------------
(* Properties *)

\* The packets on their way to KCP, in the order in which it will see them.
Pipeline == recvCh \o (IF held = 0 THEN <<>> ELSE <<held>>)

\* The channel neither reorders nor repeats packets, whatever is dropped in
\* between: what ReadFrom will return is newer than what it has returned.
InOrderOnce ==
  /\ \A i \in DOMAIN Pipeline : lastRead < Pipeline[i] /\ Pipeline[i] <= captured
  /\ \A i, j \in DOMAIN Pipeline : i < j => Pipeline[i] < Pipeline[j]

\* Packets on the wire look like one TCP stream: none begins among the
\* sequence numbers of the one before it, whoever wrote them, also when seqNum
\* wraps around.
NoSeqOverlap ==
  [][wire'.n # wire.n =>
       (wire'.seq + SeqSpace - wire.seq) % SeqSpace >= wire.len]_vars

\* Close ends readLoop, however full recvCh is, and a ReadFrom that waits.
CloseReleases == closeCh ~> loop = "ended" /\ reader = "idle"

\* readLoop does not block on a full channel: it drains the capture and ends
\* with it even if nobody ever calls ReadFrom.
LoopEndsWithCapture == source = "ended" ~> loop = "ended"

\* Every WriteTo returns, failed ones before it included.
EveryWriteReturns == \A w \in Writers : writer[w] = "lock" ~> writer[w] = "idle"
=============================================================================
