-------------------------------- MODULE Obfs --------------------------------
(***************************************************************************)
(* obfsConn of t2tunnel/obfs.go, and below it wsConn of ws_transport.go:   *)
(* one direction of the byte stream that smux runs over.                   *)
(*                                                                         *)
(* Write wraps its bytes in a frame: two 16-bit lengths, the bytes, random *)
(* padding.  Read takes frames apart again and keeps in readBuf what the   *)
(* caller has no room for.  Over WebSocket each frame is a message, and    *)
(* wsConn joins messages to a stream.                                      *)
(*                                                                         *)
(* A byte of data is its position in the stream, so that a lost, repeated  *)
(* or misplaced one shows.  Padding and lengths have values of their own,  *)
(* and a reader that has lost its place would take any for any other.  The *)
(* connection may fail at any byte.  smux has one goroutine that writes    *)
(* and one that reads, and gives a session up at the first error.          *)
(***************************************************************************)
EXTENDS Naturals, Sequences

CONSTANTS
  LenSpace,     \* 2^16 in the code: lengths are uint16
  MinPadding, MaxPadding,
  MaxWrite,     \* longest Write: smux's MaxFrameSize and header
  ReadSizes,    \* sizes of the buffers given to Read
  Transports,   \* "stream" (KCP, TLS) or "ws"
  MaxBytes      \* bound: bytes written

ASSUME MaxWriteAssumption == MaxWrite \in Nat /\ MaxWrite < LenSpace
ASSUME PaddingAssumption ==
  /\ MinPadding \in Nat /\ MaxPadding \in Nat /\ LenSpace \in Nat
  /\ MinPadding < LenSpace /\ MaxPadding <= LenSpace
ASSUME ReadSizesAssumption == ReadSizes \subseteq Nat \ {0}
ASSUME MaxBytesAssumption == MaxBytes \in Nat

VARIABLES
  transport,
  \* the writer
  written,      \* bytes written
  ends,         \* the positions at which a Write ended
  \* the connection
  conn,         \* "up" or "failed"
  wire,         \* what is in flight
  msg,          \* wsConn.r # nil: a message is being read
  \* the reader
  stage,        \* what Read is reading
  room,         \* len(p)
  dataLen, padLen,
  data,         \* the bytes of the frame so far
  skipped,      \* padding read so far
  readBuf,
  out           \* what Read has returned

frameVars == <<dataLen, padLen, data, skipped>>
vars == <<transport, written, ends, conn, wire, msg, stage, room, frameVars,
          readBuf, out>>

Byte == [kind : {"len", "padLen", "data", "padding"},
         val : 0 .. LenSpace + MaxBytes]
Mark == {[kind |-> "binary", val |-> 0], [kind |-> "text", val |-> 0]}

TypeOK ==
  /\ transport \in Transports
  /\ written \in 0 .. MaxBytes
  /\ ends \subseteq 1 .. MaxBytes
  /\ conn \in {"up", "failed"}
  /\ wire \in Seq(Byte \cup Mark)
  /\ msg \in BOOLEAN
  /\ stage \in {"idle", "len", "padLen", "data", "padding", "error"}
  /\ room \in ReadSizes \cup {0}
  /\ dataLen \in 0 .. LenSpace + MaxBytes
  /\ padLen \in 0 .. LenSpace + MaxBytes
  /\ data \in Seq(Nat)
  /\ skipped \in Nat
  /\ readBuf \in Seq(Nat)
  /\ out \in Seq(Nat)

Init ==
  /\ transport \in Transports
  /\ written = 0 /\ ends = {}
  /\ conn = "up" /\ wire = <<>> /\ msg = FALSE
  /\ stage = "idle" /\ room = 0
  /\ dataLen = 0 /\ padLen = 0 /\ data = <<>> /\ skipped = 0
  /\ readBuf = <<>> /\ out = <<>>

-----------------------------------------------------------------------------
(* Write *)

Uint16(n) == n % LenSpace

PadLens ==
  IF MaxPadding > MinPadding THEN MinPadding .. MaxPadding - 1 ELSE {MinPadding}

Frame_PaddingFirst(n, pad) ==
  <<[kind |-> "len", val |-> Uint16(n)], [kind |-> "padLen", val |-> Uint16(pad)]>>
    \o [i \in 1 .. pad |-> [kind |-> "padding", val |-> 0]]
    \o [i \in 1 .. n |-> [kind |-> "data", val |-> written + i]]
Frame(n, pad) ==
  <<[kind |-> "len", val |-> Uint16(n)], [kind |-> "padLen", val |-> Uint16(pad)]>>
    \o [i \in 1 .. n |-> [kind |-> "data", val |-> written + i]]
    \o [i \in 1 .. pad |-> [kind |-> "padding", val |-> 0]]

\* wsConn.Write: one binary message.
Message(body) ==
  IF transport = "ws" THEN <<[kind |-> "binary", val |-> 0]>> \o body ELSE body

\* A Write that fails leaves part of the frame on the wire: see ConnFails.
Write(n, pad) ==
  /\ conn = "up"
  /\ written + n <= MaxBytes
  /\ wire' = wire \o Message(Frame(n, pad))
  /\ written' = written + n
  /\ ends' = ends \cup {written + n}
  /\ UNCHANGED <<transport, conn, msg, stage, room, frameVars, readBuf, out>>

-----------------------------------------------------------------------------
(* wsConn.Read *)

AtMark == Head(wire).kind \in {"binary", "text"}

\* io.ReadFull wants another byte.
Wanting ==
  \/ stage \in {"len", "padLen"}
  \/ stage = "data" /\ Len(data) < dataLen
  \/ stage = "padding" /\ skipped < padLen

NextReader ==
  /\ transport = "ws" /\ Wanting
  /\ ~msg
  /\ wire # <<>>
  /\ msg' = (Head(wire).kind = "binary")
  /\ wire' = Tail(wire)
  /\ UNCHANGED <<transport, written, ends, conn, stage, room, frameVars, readBuf,
                 out>>

MessageEnds_AtEnd ==
  /\ Wanting
  /\ msg
  /\ wire = <<>>
  /\ msg' = FALSE
  /\ UNCHANGED <<transport, written, ends, conn, wire, stage, room, frameVars,
                 readBuf, out>>
\* io.EOF of the message, not of the stream.
MessageEnds ==
  /\ Wanting
  /\ msg
  /\ wire # <<>> => AtMark
  /\ msg' = FALSE
  /\ UNCHANGED <<transport, written, ends, conn, wire, stage, room, frameVars,
                 readBuf, out>>

\* A byte can be read from the connection.
HasByte == wire # <<>> /\ (transport = "ws" => msg /\ ~AtMark)

-----------------------------------------------------------------------------
(* Read *)

Least(m, n) == IF m < n THEN m ELSE n

CopyOut_ShortBuffer(n, s) ==
  out' = (IF n < Len(s) THEN out ELSE out \o s) /\ readBuf' = <<>>
\* copy(p, s) into a buffer of size n; the rest of s is kept.
CopyOut(n, s) ==
  LET k == Least(n, Len(s)) IN
  /\ out' = out \o SubSeq(s, 1, k)
  /\ readBuf' = SubSeq(s, k + 1, Len(s))

ReadBuffered(n) ==
  /\ stage = "idle"
  /\ readBuf # <<>>
  /\ CopyOut(n, readBuf)
  /\ UNCHANGED <<transport, written, ends, conn, wire, msg, stage, room, frameVars>>

ReadBegins(n) ==
  /\ stage = "idle"
  /\ readBuf = <<>>
  /\ stage' = "len"
  /\ room' = n
  /\ UNCHANGED <<transport, written, ends, conn, wire, msg, frameVars, readBuf, out>>

\* io.ReadFull, a byte at a time.
ReadByte ==
  /\ Wanting /\ HasByte
  /\ LET v == Head(wire).val IN
     \/ /\ stage = "len"
        /\ dataLen' = v /\ stage' = "padLen"
        /\ UNCHANGED <<padLen, data, skipped>>
     \/ /\ stage = "padLen"
        /\ padLen' = v /\ stage' = "data"
        /\ UNCHANGED <<dataLen, data, skipped>>
     \/ /\ stage = "data"
        /\ data' = Append(data, v)
        /\ UNCHANGED <<stage, dataLen, padLen, skipped>>
     \/ /\ stage = "padding"
        /\ skipped' = skipped + 1
        /\ UNCHANGED <<stage, dataLen, padLen, data>>
  /\ wire' = Tail(wire)
  /\ UNCHANGED <<transport, written, ends, conn, msg, room, readBuf, out>>

DataComplete ==
  /\ stage = "data"
  /\ Len(data) = dataLen
  /\ stage' = "padding"
  /\ UNCHANGED <<transport, written, ends, conn, wire, msg, room, frameVars,
                 readBuf, out>>

\* Read returns: its local variables are gone.
Forget ==
  dataLen' = 0 /\ padLen' = 0 /\ data' = <<>> /\ skipped' = 0 /\ room' = 0

ReadReturns ==
  /\ stage = "padding"
  /\ skipped = padLen
  /\ CopyOut(room, data)
  /\ stage' = "idle"
  /\ Forget
  /\ UNCHANGED <<transport, written, ends, conn, wire, msg>>

ReadFails_ReturnsPart ==
  /\ Wanting
  /\ conn = "failed" /\ wire = <<>>
  /\ out' = out \o data
  /\ stage' = "error"
  /\ Forget
  /\ UNCHANGED <<transport, written, ends, conn, wire, msg, readBuf>>
\* ReadFull, or NextReader, returns an error.
ReadFails ==
  /\ Wanting
  /\ conn = "failed" /\ wire = <<>>
  /\ stage' = "error"
  /\ Forget
  /\ UNCHANGED <<transport, written, ends, conn, wire, msg, readBuf, out>>

-----------------------------------------------------------------------------
(* The network *)

\* What has not arrived is lost, from any byte on.
ConnFails ==
  /\ conn = "up"
  /\ conn' = "failed"
  /\ \E k \in 0 .. Len(wire) : wire' = SubSeq(wire, 1, k)
  /\ UNCHANGED <<transport, written, ends, msg, stage, room, frameVars, readBuf, out>>

\* A message that is not binary, such as one of a proxy's own.
TextMessage ==
  /\ transport = "ws"
  /\ conn = "up"
  /\ wire # <<>> => wire[Len(wire)].kind # "text"
  /\ wire' = Append(wire, [kind |-> "text", val |-> 0])
  /\ UNCHANGED <<transport, written, ends, conn, msg, stage, room, frameVars,
                 readBuf, out>>

-----------------------------------------------------------------------------

Read ==
  \/ \E n \in ReadSizes : ReadBuffered(n) \/ ReadBegins(n)
  \/ NextReader \/ MessageEnds
  \/ ReadByte \/ DataComplete \/ ReadReturns \/ ReadFails

Next ==
  \/ \E n \in 1 .. MaxWrite, pad \in PadLens : Write(n, pad)
  \/ Read
  \/ ConnFails \/ TextMessage

Spec == Init /\ [][Next]_vars

\* The goroutine of smux that reads keeps reading.
FairSpec == Spec /\ WF_vars(Read)

-----------------------------------------------------------------------------
(* Properties *)

Received == out \o readBuf

\* The stream is what was written: no byte lost, repeated, misplaced, or made of
\* a length or of padding, however frames, messages and buffers fall.
StreamPreserved ==
  /\ Len(Received) <= written
  /\ \A i \in DOMAIN Received : Received[i] = i

\* A frame that the connection cut short gives no bytes at all: what Read has
\* returned or kept ends where a Write ended.
WholeFrames == Len(Received) \in ends \cup {0}

\* While the connection holds, what is not in flight has reached the reader: each
\* byte written is returned, kept in readBuf, or in the frame being read.
NothingLost ==
  conn = "up" /\ wire = <<>> => Len(Received) + Len(data) = written

\* As long as the connection holds, every byte written is returned by a Read,
\* the ones kept in readBuf included: none waits for a later frame.
EveryByteRead ==
  \A n \in 1 .. MaxBytes : written >= n ~> (Len(out) >= n \/ conn = "failed")
=============================================================================
