------------------------------- MODULE Dialer -------------------------------
(***************************************************************************)
(* What dialTLS and dialWS keep while they connect to the server: a TCP    *)
(* connection that no session owns yet, and the progress of the first      *)
(* Write of the TLS handshake, the ClientHello, which fragConn cuts into   *)
(* chunks of -frag bytes.  The steps are taken by ClientSession.           *)
(***************************************************************************)
EXTENDS Naturals, Sequences

CONSTANTS
  Handler,     \* the goroutines that dial
  Hello,       \* the bytes of a ClientHello
  FragSizes    \* the values of -frag to start the client with

ASSUME HelloAssumption == Hello \in Seq(Nat) /\ Hello # <<>>
ASSUME FragSizesAssumption == FragSizes \subseteq Nat

VARIABLES
  utls,        \* useUTLS
  frag,        \* fragSize
  open,        \* open[h]: TCP connections of the dial of goroutine h that are
               \* neither closed nor handed on
  off,         \* off[h]: the index i in its fragConn.Write
  wire         \* wire[h]: what it has written to its TCP connection

dial == <<open, off, wire>>

DialerTypeOK ==
  /\ utls \in BOOLEAN
  /\ frag \in FragSizes
  /\ open \in [Handler -> Nat]
  /\ off \in [Handler -> Nat]
  /\ wire \in [Handler -> Seq(Nat)]

DialerInit ==
  /\ utls \in BOOLEAN
  /\ frag \in FragSizes
  /\ open = [h \in Handler |-> 0]
  /\ off = [h \in Handler |-> 0]
  /\ wire = [h \in Handler |-> <<>>]

\* dialTLS does the handshake itself, for dialWS too.
OwnHandshake == utls \/ frag > 0

\* net.DialTimeout, DialWithDialer or NetDial returns a connection.
Opens(h) ==
  /\ open' = [open EXCEPT ![h] = @ + 1]
  /\ UNCHANGED <<off, wire>>

Chunk_ToTheEnd(k) == SubSeq(Hello, k + 1, Len(Hello))
\* b[i:end]; all of b without -frag.
Chunk(k) ==
  SubSeq(Hello, k + 1, IF frag = 0 \/ k + frag > Len(Hello) THEN Len(Hello) ELSE k + frag)

\* i < len(b) no longer holds.
HelloWritten(h) == off[h] >= Len(Hello)

\* The next Write of the underlying connection.
WritesChunk(h) ==
  /\ wire' = [wire EXCEPT ![h] = @ \o Chunk(off[h])]
  /\ off' = [off EXCEPT ![h] = @ + (IF frag = 0 THEN Len(Hello) ELSE frag)]
  /\ UNCHANGED open

\* The dial is over, and its variables with it.
Over(h) ==
  /\ off' = [off EXCEPT ![h] = 0]
  /\ wire' = [wire EXCEPT ![h] = <<>>]

Closes_Not(h) == Over(h) /\ UNCHANGED open
\* raw.Close()
Closes(h) == Over(h) /\ open' = [open EXCEPT ![h] = @ - 1]

\* return uconn, nil: the connection is handed on to smux.
HandsOn(h) == Over(h) /\ open' = [open EXCEPT ![h] = @ - 1]
=============================================================================
