----------------------------- MODULE ObfsProofs -----------------------------
(***************************************************************************)
(* Proofs about Obfs: for any width of the lengths, any padding, any sizes *)
(* of writes and of read buffers, over a stream or WebSocket.              *)
(*                                                                         *)
(* What is in flight is well-formed from where the reader is: a small      *)
(* automaton over bytes and message marks reads it, and while the          *)
(* connection is up ends between two frames, where the writer is.          *)
(***************************************************************************)
EXTENDS Obfs, SequenceTheorems, TLAPS

-----------------------------------------------------------------------------
(* The automaton *)

\* d bytes of data and r of padding are to come, pos is the position of the last
\* byte of data, m says whether a message is open.
PState == [phase : {"padLen", "body"}, d : Nat, r : Nat, pos : Nat, m : {"in", "out"}]

At(ph, d, r, pos, m) == [phase |-> ph, d |-> d, r |-> r, pos |-> pos, m |-> m]

Boundary(a) == a.phase = "body" /\ a.d = 0 /\ a.r = 0

IsMark(e) == e.kind \in {"binary", "text"}

\* E is the set of positions at which a frame may end.
MarkStep(tr, a, e, b) ==
  /\ IsMark(e) /\ tr = "ws" /\ Boundary(a)
  /\ b = At("body", 0, 0, a.pos, IF e.kind = "binary" THEN "in" ELSE "out")

ByteStep(tr, E, a, e, b) ==
  /\ ~IsMark(e) /\ (tr = "ws" => a.m = "in")
  /\ \/ /\ Boundary(a) /\ e.kind = "len" /\ a.pos + e.val \in E
        /\ b = At("padLen", e.val, 0, a.pos, a.m)
     \/ /\ a.phase = "padLen" /\ e.kind = "padLen"
        /\ b = At("body", a.d, e.val, a.pos, a.m)
     \/ /\ a.phase = "body" /\ a.d > 0 /\ e.kind = "data" /\ e.val = a.pos + 1
        /\ b = At("body", a.d - 1, a.r, a.pos + 1, a.m)
     \/ /\ a.phase = "body" /\ a.d = 0 /\ a.r > 0 /\ e.kind = "padding"
        /\ b = At("body", 0, a.r - 1, a.pos, a.m)

Step(tr, E, a, e, b) == MarkStep(tr, a, e, b) \/ ByteStep(tr, E, a, e, b)

\* The automaton reads s from a to b.
Parse(tr, E, s, a, b) ==
  \E q \in [0 .. Len(s) -> PState] :
    /\ q[0] = a /\ q[Len(s)] = b
    /\ \A i \in 1 .. Len(s) : Step(tr, E, q[i - 1], s[i], q[i])

LEMMA ParseEmpty ==
  ASSUME NEW tr, NEW E, NEW a \in PState, NEW b
  PROVE  Parse(tr, E, <<>>, a, b) <=> a = b
<1>1. ASSUME Parse(tr, E, <<>>, a, b) PROVE a = b
  BY <1>1 DEF Parse
<1>2. ASSUME a = b PROVE Parse(tr, E, <<>>, a, b)
  <2> DEFINE q == [i \in 0 .. 0 |-> a]
  <2>1. q \in [0 .. Len(<<>>) -> PState] /\ q[0] = a /\ q[Len(<<>>)] = b
    BY <1>2
  <2>2. \A i \in 1 .. Len(<<>>) : Step(tr, E, q[i - 1], <<>>[i], q[i])
    OBVIOUS
  <2> QED
    BY <2>1, <2>2 DEF Parse
<1> QED
  BY <1>1, <1>2

LEMMA ParseOne ==
  ASSUME NEW tr, NEW E, NEW e, NEW a \in PState, NEW b \in PState,
         Step(tr, E, a, e, b)
  PROVE  Parse(tr, E, <<e>>, a, b)
<1> DEFINE q == [i \in 0 .. 1 |-> IF i = 0 THEN a ELSE b]
<1>1. q \in [0 .. Len(<<e>>) -> PState] /\ q[0] = a /\ q[Len(<<e>>)] = b
  OBVIOUS
<1>2. \A i \in 1 .. Len(<<e>>) : Step(tr, E, q[i - 1], <<e>>[i], q[i])
  OBVIOUS
<1> HIDE DEF q
<1> QED
  BY <1>1, <1>2 DEF Parse

LEMMA ParseConcat ==
  ASSUME NEW tr, NEW E, NEW S, NEW s \in Seq(S), NEW t \in Seq(S),
         NEW a, NEW b, NEW c, Parse(tr, E, s, a, b), Parse(tr, E, t, b, c)
  PROVE  Parse(tr, E, s \o t, a, c)
<1>1. PICK q1 \in [0 .. Len(s) -> PState] :
        /\ q1[0] = a /\ q1[Len(s)] = b
        /\ \A i \in 1 .. Len(s) : Step(tr, E, q1[i - 1], s[i], q1[i])
  BY DEF Parse
<1>2. PICK q2 \in [0 .. Len(t) -> PState] :
        /\ q2[0] = b /\ q2[Len(t)] = c
        /\ \A i \in 1 .. Len(t) : Step(tr, E, q2[i - 1], t[i], q2[i])
  BY DEF Parse
<1> DEFINE q == [i \in 0 .. Len(s \o t) |->
                   IF i <= Len(s) THEN q1[i] ELSE q2[i - Len(s)]]
<1>3. Len(s \o t) = Len(s) + Len(t) /\ Len(s) \in Nat /\ Len(t) \in Nat
  OBVIOUS
<1>4. q \in [0 .. Len(s \o t) -> PState]
  BY <1>3
<1>5. q[0] = a
  BY <1>1, <1>3
<1>6. q[Len(s \o t)] = c
  <2>1. CASE Len(t) = 0
    <3>1. q[Len(s \o t)] = q1[Len(s)]
      BY <2>1, <1>3
    <3> HIDE DEF q
    <3> QED
      BY <2>1, <3>1, <1>1, <1>2
  <2>2. CASE Len(t) # 0
    <3>1. q[Len(s \o t)] = q2[Len(t)]
      BY <2>2, <1>3
    <3> HIDE DEF q
    <3> QED
      BY <3>1, <1>2
  <2> QED
    BY <2>1, <2>2
<1>7. ASSUME NEW i \in 1 .. Len(s \o t)
      PROVE  Step(tr, E, q[i - 1], (s \o t)[i], q[i])
  <2>1. CASE i <= Len(s)
    <3>1. q[i - 1] = q1[i - 1] /\ q[i] = q1[i] /\ (s \o t)[i] = s[i] /\ i \in 1 .. Len(s)
      BY <2>1, <1>3
    <3> HIDE DEF q
    <3> QED
      BY <3>1, <1>1
  <2>2. CASE i > Len(s)
    <3> DEFINE j == i - Len(s)
    <3>1. j \in 1 .. Len(t) /\ q[i] = q2[j] /\ (s \o t)[i] = t[j]
      BY <2>2, <1>3
    <3>2. q[i - 1] = q2[j - 1]
      <4>1. CASE j = 1
        BY <4>1, <1>1, <1>2, <1>3
      <4>2. CASE j # 1
        BY <4>2, <3>1, <1>3
      <4> QED
        BY <4>1, <4>2
    <3> HIDE DEF q, j
    <3> QED
      BY <3>1, <3>2, <1>2
  <2> QED
    BY <2>1, <2>2, <1>3
<1> HIDE DEF q
<1> QED
  BY <1>4, <1>5, <1>6, <1>7 DEF Parse

LEMMA ParseHead ==
  ASSUME NEW tr, NEW E, NEW S, NEW s \in Seq(S), s # <<>>, NEW a, NEW b,
         Parse(tr, E, s, a, b)
  PROVE  \E c \in PState : Step(tr, E, a, Head(s), c) /\ Parse(tr, E, Tail(s), c, b)
<1>1. PICK q \in [0 .. Len(s) -> PState] :
        /\ q[0] = a /\ q[Len(s)] = b
        /\ \A i \in 1 .. Len(s) : Step(tr, E, q[i - 1], s[i], q[i])
  BY DEF Parse
<1>2. /\ Len(s) \in Nat \ {0} /\ Head(s) = s[1] /\ Len(Tail(s)) = Len(s) - 1
      /\ \A i \in 1 .. Len(s) - 1 : Tail(s)[i] = s[i + 1]
  OBVIOUS
<1>3. q[1] \in PState /\ Step(tr, E, a, Head(s), q[1])
  <2>1. 1 \in 1 .. Len(s) /\ 1 - 1 = 0
    BY <1>2
  <2> QED
    BY <1>1, <1>2, <2>1
<1> DEFINE p == [i \in 0 .. Len(Tail(s)) |-> q[i + 1]]
<1>4. p \in [0 .. Len(Tail(s)) -> PState] /\ p[0] = q[1] /\ p[Len(Tail(s))] = b
  BY <1>1, <1>2
<1>5. ASSUME NEW i \in 1 .. Len(Tail(s))
      PROVE  Step(tr, E, p[i - 1], Tail(s)[i], p[i])
  <2>1. /\ i + 1 \in 1 .. Len(s) /\ p[i - 1] = q[(i + 1) - 1] /\ p[i] = q[i + 1]
        /\ Tail(s)[i] = s[i + 1]
    BY <1>2
  <2> HIDE DEF p
  <2> QED
    BY <2>1, <1>1
<1> HIDE DEF p
<1>6. Parse(tr, E, Tail(s), q[1], b)
  BY <1>4, <1>5 DEF Parse
<1> QED
  BY <1>3, <1>6

LEMMA ParsePrefix ==
  ASSUME NEW tr, NEW E, NEW S, NEW s \in Seq(S), NEW k \in 0 .. Len(s), NEW a, NEW b,
         Parse(tr, E, s, a, b)
  PROVE  \E c \in PState : Parse(tr, E, SubSeq(s, 1, k), a, c)
<1>1. PICK q \in [0 .. Len(s) -> PState] :
        /\ q[0] = a /\ q[Len(s)] = b
        /\ \A i \in 1 .. Len(s) : Step(tr, E, q[i - 1], s[i], q[i])
  BY DEF Parse
<1> DEFINE t == SubSeq(s, 1, k)
           p == [i \in 0 .. Len(t) |-> q[i]]
<1>2. Len(t) = k /\ Len(s) \in Nat /\ \A i \in 1 .. k : t[i] = s[i]
  OBVIOUS
<1> HIDE DEF t
<1>3. p \in [0 .. Len(t) -> PState] /\ p[0] = a /\ p[Len(t)] = q[k]
  BY <1>1, <1>2
<1>4. ASSUME NEW i \in 1 .. Len(t) PROVE Step(tr, E, p[i - 1], t[i], p[i])
  <2>1. i \in 1 .. Len(s) /\ p[i - 1] = q[i - 1] /\ p[i] = q[i] /\ t[i] = s[i]
    BY <1>2
  <2> HIDE DEF p
  <2> QED
    BY <2>1, <1>1
<1> HIDE DEF p
<1>5. Parse(tr, E, t, a, q[k]) /\ q[k] \in PState
  BY <1>1, <1>2, <1>3, <1>4 DEF Parse
<1> QED
  BY <1>5 DEF t

\* A later end of a frame takes nothing away.
LEMMA ParseMono ==
  ASSUME NEW tr, NEW E, NEW F, E \subseteq F, NEW s, NEW a, NEW b,
         Parse(tr, E, s, a, b)
  PROVE  Parse(tr, F, s, a, b)
<1>1. \A x, e, y : Step(tr, E, x, e, y) => Step(tr, F, x, e, y)
  BY DEF Step, ByteStep
<1> QED
  BY <1>1 DEF Parse

-----------------------------------------------------------------------------
(* What Write puts on the wire *)

LEMMA FrameFacts ==
  ASSUME written \in Nat, NEW n \in 1 .. MaxWrite, NEW pad \in PadLens,
         written + n <= MaxBytes
  PROVE  \E f \in Seq(Byte) :
         /\ f = Frame(n, pad) /\ Len(f) = 2 + n + pad /\ n \in Nat /\ pad \in Nat
         /\ f[1].kind = "len" /\ f[1].val = n
         /\ f[2].kind = "padLen" /\ f[2].val = pad
         /\ \A i \in 1 .. n : f[2 + i].kind = "data" /\ f[2 + i].val = written + i
         /\ \A i \in 1 .. pad : f[2 + n + i].kind = "padding"
<1>1. n \in Nat /\ pad \in Nat /\ n < LenSpace /\ pad < LenSpace
  BY MaxWriteAssumption, PaddingAssumption DEF PadLens
<1>2. Uint16(n) = n /\ Uint16(pad) = pad
  BY <1>1, PaddingAssumption DEF Uint16
<1> DEFINE D(i) == [kind |-> "data", val |-> written + i]
           P == [kind |-> "padding", val |-> 0]
<1>3. PICK h : h = <<[kind |-> "len", val |-> n], [kind |-> "padLen", val |-> pad]>>
  OBVIOUS
<1>4. PICK x : x = [i \in 1 .. n |-> D(i)]
  OBVIOUS
<1>5. PICK y : y = [i \in 1 .. pad |-> P]
  OBVIOUS
<1>6. PICK g : g = h \o x
  OBVIOUS
<1>7. PICK f : f = g \o y
  OBVIOUS
<1>8. f = Frame(n, pad)
  BY <1>2, <1>3, <1>4, <1>5, <1>6, <1>7 DEF Frame
<1>9. /\ h \in Seq(Byte) /\ Len(h) = 2
      /\ h[1].kind = "len" /\ h[1].val = n /\ h[2].kind = "padLen" /\ h[2].val = pad
  BY <1>1, <1>3, PaddingAssumption, MaxBytesAssumption DEF Byte
<1>10. /\ \A i \in 1 .. n : D(i) \in Byte /\ D(i).kind = "data" /\ D(i).val = written + i
       /\ P \in Byte /\ P.kind = "padding"
  BY <1>1, PaddingAssumption, MaxBytesAssumption DEF Byte
<1> HIDE DEF D, P
<1>11. /\ x \in Seq(Byte) /\ Len(x) = n
       /\ \A i \in 1 .. n : x[i].kind = "data" /\ x[i].val = written + i
  BY <1>1, <1>4, <1>10
<1>12. y \in Seq(Byte) /\ Len(y) = pad /\ \A i \in 1 .. pad : y[i].kind = "padding"
  BY <1>1, <1>5, <1>10
<1>13. h \in Seq(Byte) /\ x \in Seq(Byte) /\ y \in Seq(Byte)
  BY <1>9, <1>11, <1>12
<1>14. g \in Seq(Byte) /\ Len(g) = Len(h) + Len(x)
  BY <1>6, <1>13
<1>15. g \in Seq(Byte)
  BY <1>14
<1>16. \A i \in 1 .. Len(h) : g[i] = h[i]
  BY <1>6, <1>13
<1>17. \A i \in 1 .. Len(x) : g[Len(h) + i] = x[i]
  BY <1>6, <1>13
<1>18. f \in Seq(Byte) /\ Len(f) = Len(g) + Len(y)
  BY <1>7, <1>13, <1>15
<1>19. \A i \in 1 .. Len(g) : f[i] = g[i]
  BY <1>7, <1>13, <1>15
<1>20. \A i \in 1 .. Len(y) : f[Len(g) + i] = y[i]
  BY <1>7, <1>13, <1>15
<1>21. Len(h) = 2 /\ Len(x) = n /\ Len(y) = pad /\ Len(g) = 2 + n /\ Len(f) = 2 + n + pad
  BY <1>9, <1>11, <1>12, <1>14, <1>18
<1>22. f[1] = g[1] /\ f[2] = g[2] /\ \A i \in 1 .. n : f[2 + i] = g[2 + i]
  BY <1>1, <1>19, <1>21
<1>23. \A i \in 1 .. n : f[2 + i].kind = "data" /\ f[2 + i].val = written + i
  <2> TAKE i \in 1 .. n
  <2>1. f[2 + i] = g[2 + i] /\ g[2 + i] = x[i]
    BY <1>1, <1>17, <1>22, <1>21
  <2> QED
    BY <1>11, <2>1
<1>24. \A i \in 1 .. pad : f[2 + n + i].kind = "padding"
  BY <1>1, <1>12, <1>20, <1>21
<1>25. /\ f[1].kind = "len" /\ f[1].val = n
       /\ f[2].kind = "padLen" /\ f[2].val = pad
  BY <1>9, <1>16, <1>22, <1>21
<1> QED
  BY <1>1, <1>8, <1>18, <1>23, <1>24, <1>25, <1>21

\* A frame takes the automaton from one boundary to the next.
LEMMA ParseFrame ==
  ASSUME written \in Nat, NEW n \in 1 .. MaxWrite, NEW pad \in PadLens,
         written + n <= MaxBytes,
         NEW E, written + n \in E, NEW tr,
         NEW m \in {"in", "out"}, tr = "ws" => m = "in"
  PROVE  Parse(tr, E, Frame(n, pad), At("body", 0, 0, written, m),
               At("body", 0, 0, written + n, m))
<1>1. PICK f \in Seq(Byte) :
        /\ f = Frame(n, pad) /\ Len(f) = 2 + n + pad /\ n \in Nat /\ pad \in Nat
        /\ f[1].kind = "len" /\ f[1].val = n
        /\ f[2].kind = "padLen" /\ f[2].val = pad
        /\ \A i \in 1 .. n : f[2 + i].kind = "data" /\ f[2 + i].val = written + i
        /\ \A i \in 1 .. pad : f[2 + n + i].kind = "padding"
  BY FrameFacts
<1>2. /\ \A i \in 1 .. n : f[2 + i].kind = "data" /\ f[2 + i].val = written + i
      /\ \A i \in 1 .. pad : f[2 + n + i].kind = "padding"
  BY <1>1
<1>3. Len(f) = 2 + n + pad /\ n \in Nat /\ n # 0 /\ pad \in Nat
  BY <1>1, MaxWriteAssumption
<1> DEFINE S(i) == IF i = 0 THEN At("body", 0, 0, written, m)
                   ELSE IF i = 1 THEN At("padLen", n, 0, written, m)
                   ELSE IF i <= 2 + n
                        THEN At("body", n - (i - 2), pad, written + (i - 2), m)
                   ELSE At("body", 0, pad - (i - 2 - n), written + n, m)
<1>4. /\ S(0) = At("body", 0, 0, written, m)
      /\ S(1) = At("padLen", n, 0, written, m)
      /\ S(2) = At("body", n, pad, written, m)
  BY <1>3
<1>5. \A j \in 0 .. n : S(2 + j) = At("body", n - j, pad, written + j, m)
  BY <1>3
<1>6. \A j \in 0 .. pad : S(2 + n + j) = At("body", 0, pad - j, written + n, m)
  BY <1>3
<1> HIDE DEF S
<1>7. ASSUME NEW i \in 1 .. Len(f) PROVE Step(tr, E, S(i - 1), f[i], S(i))
  <2>1. CASE i = 1
    BY <2>1, <1>1, <1>4 DEF Step, ByteStep, IsMark, Boundary, At
  <2>2. CASE i = 2
    BY <2>2, <1>1, <1>4 DEF Step, ByteStep, IsMark, Boundary, At
  <2>3. ASSUME NEW j \in 1 .. n, i = 2 + j PROVE Step(tr, E, S(i - 1), f[i], S(i))
    <3>1. S(i) = At("body", n - j, pad, (written + (j - 1)) + 1, m)
      BY <1>3, <1>5, <2>3
    <3>2. S(i - 1) = At("body", n - (j - 1), pad, written + (j - 1), m)
      <4>1. j - 1 \in 0 .. n /\ i - 1 = 2 + (j - 1)
        BY <1>3, <2>3
      <4> QED
        BY <1>5, <4>1
    <3>3. f[i].kind = "data" /\ f[i].val = (written + (j - 1)) + 1
      BY <1>2, <1>3, <2>3
    <3>4. n - j = n - (j - 1) - 1 /\ n - (j - 1) > 0
      BY <1>3
    <3> QED
      BY <3>1, <3>2, <3>3, <3>4 DEF Step, ByteStep, IsMark, At
  <2>4. ASSUME NEW j \in 1 .. pad, i = 2 + n + j PROVE Step(tr, E, S(i - 1), f[i], S(i))
    <3>1. S(i) = At("body", 0, pad - j, written + n, m)
      BY <1>3, <1>6, <2>4
    <3>2. S(i - 1) = At("body", 0, pad - (j - 1), written + n, m)
      <4>1. j - 1 \in 0 .. pad /\ i - 1 = 2 + n + (j - 1)
        BY <1>3, <2>4
      <4> QED
        BY <1>6, <4>1
    <3>3. f[i].kind = "padding"
      BY <1>2, <1>3, <2>4
    <3>4. pad - j = pad - (j - 1) - 1 /\ pad - (j - 1) > 0
      BY <1>3
    <3> QED
      BY <3>1, <3>2, <3>3, <3>4 DEF Step, ByteStep, IsMark, At
  <2>5. \/ i = 1 \/ i = 2 \/ i - 2 \in 1 .. n \/ i - 2 - n \in 1 .. pad
    BY <1>3
  <2>6. i = 2 + (i - 2) /\ i = 2 + n + (i - 2 - n)
    BY <1>3
  <2> QED
    BY <2>1, <2>2, <2>3, <2>4, <2>5, <2>6
<1>8. ASSUME NEW i \in 0 .. Len(f) PROVE S(i) \in PState
  <2>1. CASE i = 0 \/ i = 1
    BY <2>1, <1>3, <1>4 DEF At, PState
  <2>2. ASSUME NEW j \in 0 .. n, i = 2 + j PROVE S(i) \in PState
    <3>1. n - j \in Nat /\ written + j \in Nat
      BY <1>3
    <3>2. S(i) = At("body", n - j, pad, written + j, m)
      BY <1>5, <2>2
    <3> QED
      BY <1>3, <3>1, <3>2 DEF At, PState
  <2>3. ASSUME NEW j \in 0 .. pad, i = 2 + n + j PROVE S(i) \in PState
    <3>1. pad - j \in Nat /\ written + n \in Nat
      BY <1>3
    <3>2. S(i) = At("body", 0, pad - j, written + n, m)
      BY <1>6, <2>3
    <3> QED
      BY <1>3, <3>1, <3>2 DEF At, PState
  <2>4. \/ i = 0 \/ i = 1 \/ i - 2 \in 0 .. n \/ i - 2 - n \in 0 .. pad
    BY <1>3
  <2>5. i = 2 + (i - 2) /\ i = 2 + n + (i - 2 - n)
    BY <1>3
  <2> QED
    BY <2>1, <2>2, <2>3, <2>4, <2>5
<1>9. S(Len(f)) = At("body", 0, 0, written + n, m)
  BY <1>3, <1>6
<1> DEFINE q == [i \in 0 .. Len(f) |-> S(i)]
<1>10. /\ q \in [0 .. Len(f) -> PState]
      /\ q[0] = At("body", 0, 0, written, m) /\ q[Len(f)] = At("body", 0, 0, written + n, m)
      /\ \A i \in 1 .. Len(f) : Step(tr, E, q[i - 1], f[i], q[i])
  BY <1>3, <1>4, <1>7, <1>8, <1>9
<1> HIDE DEF q
<1>11. Parse(tr, E, f, At("body", 0, 0, written, m), At("body", 0, 0, written + n, m))
  BY <1>10 DEF Parse
<1> QED
  BY <1>1, <1>11

LEMMA MessageType ==
  ASSUME written \in Nat, NEW n \in 1 .. MaxWrite, NEW pad \in PadLens,
         written + n <= MaxBytes
  PROVE  Message(Frame(n, pad)) \in Seq(Byte \cup Mark)
<1>1. PICK f \in Seq(Byte) : f = Frame(n, pad)
  BY FrameFacts
<1>2. f \in Seq(Byte \cup Mark)
  OBVIOUS
<1>3. <<[kind |-> "binary", val |-> 0]>> \in Seq(Byte \cup Mark)
  BY DEF Mark
<1>4. <<[kind |-> "binary", val |-> 0]>> \o f \in Seq(Byte \cup Mark)
  <2>1. PICK h : h = <<[kind |-> "binary", val |-> 0]>>
    OBVIOUS
  <2> QED
    BY <1>2, <1>3, <2>1
<1> QED
  BY <1>1, <1>2, <1>4 DEF Message

-----------------------------------------------------------------------------
(* Type correctness *)

\* Every variable of the writer, the connection and the reader keeps its type;
\* lengths stay below the width of their two bytes plus what a confused reader
\* could take for one.
THEOREM TypeCorrect == Spec => []TypeOK
<1> USE MaxWriteAssumption, PaddingAssumption, ReadSizesAssumption, MaxBytesAssumption
<1>1. Init => TypeOK
  <2>1. \A S : <<>> \in Seq(S)
    OBVIOUS
  <2>2. Init => wire \in Seq(Byte \cup Mark) /\ \A s \in {data, readBuf, out} : s \in Seq(Nat)
    BY <2>1 DEF Init
  <2>3. Init => msg \in BOOLEAN
    BY Zenon DEF Init
  <2> QED
    BY <2>2, <2>3 DEF Init, TypeOK
<1>2. TypeOK /\ [Next]_vars => TypeOK'
  <2> SUFFICES ASSUME TypeOK, [Next]_vars PROVE TypeOK'
    OBVIOUS
  <2> USE DEF TypeOK, frameVars
  <2>1. ASSUME NEW n \in 1 .. MaxWrite, NEW pad \in PadLens, Write(n, pad) PROVE TypeOK'
    <3>1. Message(Frame(n, pad)) \in Seq(Byte \cup Mark)
      BY <2>1, MessageType DEF Write
    <3>2. wire' \in Seq(Byte \cup Mark)
      BY <2>1, <3>1 DEF Write
    <3>3. written' \in 0 .. MaxBytes /\ ends' \subseteq 1 .. MaxBytes
      BY <2>1 DEF Write
    <3> QED
      BY <2>1, <3>2, <3>3 DEF Write
  <2>2. \A e \in Byte \cup Mark : e.val \in 0 .. LenSpace + MaxBytes
    BY DEF Byte, Mark
  <2>3. ASSUME wire # <<>>
        PROVE  /\ Tail(wire) \in Seq(Byte \cup Mark)
               /\ Head(wire) \in Byte \cup Mark
               /\ Head(wire).val \in 0 .. LenSpace + MaxBytes
    BY <2>2, <2>3
  <2>4. ASSUME NextReader PROVE TypeOK'
    <3>1. msg' \in BOOLEAN
      BY <2>4, Zenon DEF NextReader
    <3> QED
      BY <2>3, <2>4, <3>1 DEF NextReader
  <2>5. ASSUME MessageEnds PROVE TypeOK'
    BY <2>5 DEF MessageEnds
  <2>6. ASSUME NEW n \in ReadSizes, NEW s \in Seq(Nat), CopyOut(n, s)
        PROVE  out' \in Seq(Nat) /\ readBuf' \in Seq(Nat)
    <3> DEFINE k == Least(n, Len(s))
    <3>1. k \in Nat /\ k <= Len(s)
      BY DEF Least
    <3>2. out' = out \o SubSeq(s, 1, k) /\ readBuf' = SubSeq(s, k + 1, Len(s))
      BY <2>6 DEF CopyOut
    <3> HIDE DEF k
    <3>3. SubSeq(s, 1, k) \in Seq(Nat)
      BY <3>1
    <3>4. SubSeq(s, k + 1, Len(s)) \in Seq(Nat)
      BY <3>1
    <3>5. out \in Seq(Nat)
      OBVIOUS
    <3>6. out \o SubSeq(s, 1, k) \in Seq(Nat)
      BY ONLY <3>3, <3>5, ConcatProperties
    <3> QED
      BY ONLY <3>2, <3>4, <3>6
  <2>7. ASSUME NEW n \in ReadSizes, ReadBuffered(n) \/ ReadBegins(n) PROVE TypeOK'
    BY <2>6, <2>7 DEF ReadBuffered, ReadBegins
  <2>8. ASSUME ReadByte PROVE TypeOK'
    <3> DEFINE v == Head(wire).val
    <3>1. v \in 0 .. LenSpace + MaxBytes /\ v \in Nat /\ Tail(wire) \in Seq(Byte \cup Mark)
      BY <2>3, <2>8 DEF ReadByte, HasByte
    <3>2. Append(data, v) \in Seq(Nat)
      BY <3>1
    <3> HIDE DEF v
    <3>3. /\ dataLen' \in {dataLen, v} /\ padLen' \in {padLen, v}
          /\ data' \in {data, Append(data, v)} /\ skipped' \in {skipped, skipped + 1}
          /\ stage' \in {"padLen", "data", "padding"}
      <4> HIDE DEF TypeOK
      <4> QED
        BY <2>8 DEF ReadByte, v
    <3>4. dataLen' \in 0 .. LenSpace + MaxBytes /\ padLen' \in 0 .. LenSpace + MaxBytes
      BY <3>1, <3>3
    <3>5. data' \in Seq(Nat)
      BY <3>2, <3>3, Zenon
    <3>6. skipped' \in Nat
      BY <3>3
    <3> QED
      BY <2>8, <3>1, <3>3, <3>4, <3>5, <3>6 DEF ReadByte
  <2>9. ASSUME DataComplete PROVE TypeOK'
    BY <2>9 DEF DataComplete
  <2>10. ASSUME ReadReturns PROVE TypeOK'
    <3>1. out' \in Seq(Nat) /\ readBuf' \in Seq(Nat)
      BY <2>10 DEF ReadReturns, CopyOut, Least
    <3> QED
      BY <2>10, <3>1 DEF ReadReturns, Forget
  <2>11. ASSUME ReadFails PROVE TypeOK'
    BY <2>11 DEF ReadFails, Forget
  <2>12. ASSUME ConnFails PROVE TypeOK'
    BY <2>12 DEF ConnFails
  <2>13. ASSUME TextMessage PROVE TypeOK'
    <3>1. [kind |-> "text", val |-> 0] \in Byte \cup Mark
      BY DEF Mark
    <3> QED
      BY <2>13, <3>1 DEF TextMessage
  <2>14. ASSUME UNCHANGED vars PROVE TypeOK'
    BY <2>14 DEF vars
  <2> HIDE DEF TypeOK
  <2> QED
    BY <2>1, <2>4, <2>5, <2>7, <2>8, <2>9, <2>10, <2>11, <2>12, <2>13, <2>14
       DEF Next, Read
<1> QED
  BY <1>1, <1>2, PTL DEF Spec

-----------------------------------------------------------------------------
(* The invariant *)

M == IF msg THEN "in" ELSE "out"

\* Where the reader is, as a state of the automaton.
Cur ==
  IF stage = "padLen" THEN At("padLen", dataLen, 0, Len(Received), M)
  ELSE IF stage = "data"
       THEN At("body", dataLen - Len(data), padLen, Len(Received) + Len(data), M)
  ELSE IF stage = "padding"
       THEN At("body", 0, padLen - skipped, Len(Received) + dataLen, M)
  ELSE At("body", 0, 0, Len(Received), M)

\* The frame being read continues the stream and ends where a Write ended.
ReaderInv ==
  /\ stage # "idle" => readBuf = <<>>
  /\ stage = "error" => conn = "failed"
  /\ \A i \in 1 .. Len(data) : data[i] = Len(Received) + i
  /\ stage \in {"idle", "len", "padLen", "error"} => data = <<>>
  /\ stage # "padding" => skipped = 0
  /\ stage = "data" => Len(data) <= dataLen
  /\ stage = "padding" => Len(data) = dataLen /\ skipped <= padLen
  /\ stage \in {"padLen", "data", "padding"} => Len(Received) + dataLen \in ends

StreamInv ==
  /\ ends \subseteq 1 .. written
  /\ WholeFrames
  /\ \A i \in 1 .. Len(Received) : Received[i] = i

\* What is in flight is well-formed from where the reader is to where the writer is.
WireInv ==
  stage # "error" =>
    \E b \in PState :
      /\ Parse(transport, ends, wire, Cur, b)
      /\ conn = "up" => Boundary(b) /\ b.pos = written

IInv == ReaderInv /\ StreamInv /\ WireInv

LEMMA ReceivedFacts ==
  ASSUME TypeOK
  PROVE  /\ Received \in Seq(Nat) /\ Len(Received) \in Nat
         /\ readBuf = <<>> => Received = out
  BY DEF TypeOK, Received

\* Copying out of s and keeping the rest is appending s to the stream.
LEMMA CopyOutFacts ==
  ASSUME out \in Seq(Nat), NEW s \in Seq(Nat), NEW n \in Nat, CopyOut(n, s)
  PROVE  Received' = out \o s
<1>1. PICK k \in 0 .. Len(s) :
        out' = out \o SubSeq(s, 1, k) /\ readBuf' = SubSeq(s, k + 1, Len(s))
  <2>1. Least(n, Len(s)) \in 0 .. Len(s)
    BY DEF Least
  <2> QED
    BY <2>1 DEF CopyOut
<1> DEFINE u == SubSeq(s, 1, k)
           v == SubSeq(s, k + 1, Len(s))
<1>2. Len(s) \in Nat /\ 1 \in 1 .. Len(s) + 1 /\ k \in 1 - 1 .. Len(s) /\ Len(s) \in k .. Len(s)
  OBVIOUS
<1>3. u \o v = SubSeq(s, 1, Len(s))
  BY ONLY <1>2, s \in Seq(Nat), ConcatAdjacentSubSeq
<1>4. u \o v = s
  <2>1. SubSeq(s, 1, Len(s)) = s
    BY ONLY s \in Seq(Nat), SubSeqFull
  <2> QED
    BY <1>3, <2>1, Zenon
<1>5. u \in Seq(Nat) /\ v \in Seq(Nat)
  BY <1>2
<1> HIDE DEF u, v
<1>6. (out \o u) \o v = out \o (u \o v)
  BY <1>5
<1> QED
  BY <1>1, <1>4, <1>6 DEF Received, u, v

\* Where the reader is, in each of its stages.
LEMMA CurFacts ==
  ASSUME TypeOK, ReaderInv
  PROVE  /\ Cur \in PState /\ Cur.m = M
         /\ stage = "padLen" => /\ Cur.phase = "padLen" /\ Cur.d = dataLen
                                /\ Cur.r = 0 /\ Cur.pos = Len(Received)
         /\ stage = "data" => /\ Cur.phase = "body" /\ Cur.d = dataLen - Len(data)
                              /\ Cur.r = padLen /\ Cur.pos = Len(Received) + Len(data)
         /\ stage = "padding" => /\ Cur.phase = "body" /\ Cur.d = 0
                                 /\ Cur.r = padLen - skipped
                                 /\ Cur.pos = Len(Received) + dataLen
         /\ stage \in {"idle", "len", "error"} => Boundary(Cur) /\ Cur.pos = Len(Received)
<1>1. Len(Received) \in Nat /\ Len(data) \in Nat
  BY ReceivedFacts DEF TypeOK
<1>2. M \in {"in", "out"}
  BY DEF M
<1>3. dataLen \in Nat /\ padLen \in Nat /\ skipped \in Nat
  BY PaddingAssumption, MaxBytesAssumption DEF TypeOK
<1>4. CASE stage = "padLen"
  BY <1>1, <1>2, <1>3, <1>4 DEF Cur, At, PState
<1>5. CASE stage = "data"
  BY <1>1, <1>2, <1>3, <1>5 DEF Cur, At, PState, ReaderInv
<1>6. CASE stage = "padding"
  BY <1>1, <1>2, <1>3, <1>6 DEF Cur, At, PState, ReaderInv
<1>7. CASE stage \in {"idle", "len", "error"}
  BY <1>1, <1>2, <1>3, <1>7 DEF Cur, At, PState, Boundary
<1> QED
  BY <1>4, <1>5, <1>6, <1>7 DEF TypeOK

LEMMA BoundaryState ==
  ASSUME NEW a \in PState, Boundary(a)
  PROVE  a = At("body", 0, 0, a.pos, a.m) /\ a.pos \in Nat /\ a.m \in {"in", "out"}
  BY DEF PState, Boundary, At

LEMMA AtType ==
  ASSUME NEW pos \in Nat, NEW m \in {"in", "out"}
  PROVE  LET a == At("body", 0, 0, pos, m) IN
         a \in PState /\ Boundary(a) /\ a.pos = pos /\ a.m = m
  BY DEF PState, Boundary, At

\* What a Write sends takes the automaton from the writer's place to its next one.
LEMMA ParseMessage ==
  ASSUME written \in Nat, NEW n \in 1 .. MaxWrite, NEW pad \in PadLens,
         written + n <= MaxBytes, NEW E, written + n \in E,
         NEW b \in PState, Boundary(b), b.pos = written
  PROVE  \E c \in PState :
           /\ Boundary(c) /\ c.pos = written + n
           /\ Parse(transport, E, Message(Frame(n, pad)), b, c)
<1>1. b = At("body", 0, 0, written, b.m) /\ b.m \in {"in", "out"}
  BY BoundaryState
<1>2. written + n \in Nat
  BY MaxWriteAssumption
<1>3. CASE transport # "ws"
  <2> DEFINE c == At("body", 0, 0, written + n, b.m)
  <2>1. c \in PState /\ Boundary(c) /\ c.pos = written + n
    BY <1>1, <1>2, AtType
  <2>2. Parse(transport, E, Frame(n, pad), b, c)
    BY <1>1, <1>3, ParseFrame
  <2>3. Message(Frame(n, pad)) = Frame(n, pad)
    BY <1>3 DEF Message
  <2> HIDE DEF c
  <2> QED
    BY <2>1, <2>2, <2>3
<1>4. CASE transport = "ws"
  <2> DEFINE c == At("body", 0, 0, written + n, "in")
             o == At("body", 0, 0, written, "in")
             e == [kind |-> "binary", val |-> 0]
  <2>1. c \in PState /\ Boundary(c) /\ c.pos = written + n /\ o \in PState
    BY <1>2, AtType
  <2>2. Step(transport, E, b, e, o)
    BY <1>4 DEF Step, MarkStep, IsMark
  <2>3. Parse(transport, E, <<e>>, b, o)
    BY <2>1, <2>2, ParseOne
  <2>4. Parse(transport, E, Frame(n, pad), o, c)
    BY ParseFrame
  <2>5. <<e>> \in Seq(Byte \cup Mark) /\ Frame(n, pad) \in Seq(Byte \cup Mark)
    <3>1. Frame(n, pad) \in Seq(Byte)
      BY FrameFacts
    <3> QED
      BY <3>1 DEF Mark
  <2>6. Message(Frame(n, pad)) = <<e>> \o Frame(n, pad)
    BY <1>4 DEF Message
  <2> HIDE DEF c, o, e
  <2>7. Parse(transport, E, <<e>> \o Frame(n, pad), b, c)
    BY <2>3, <2>4, <2>5, ParseConcat
  <2> QED
    BY <2>1, <2>6, <2>7
<1> QED
  BY <1>3, <1>4

LEMMA IInvInit == Init => IInv
<1> SUFFICES ASSUME Init PROVE IInv
  OBVIOUS
<1>1. Received = <<>> /\ Len(Received) = 0
  BY DEF Init, Received
<1>2. ReaderInv /\ StreamInv
  BY <1>1 DEF Init, ReaderInv, StreamInv, WholeFrames
<1>3. Cur = At("body", 0, 0, 0, "out")
  BY <1>1 DEF Init, Cur, M
<1>4. Cur \in PState /\ Boundary(Cur) /\ Cur.pos = 0
  BY <1>3 DEF PState, Boundary, At
<1>5. Parse(transport, ends, wire, Cur, Cur)
  BY <1>4, ParseEmpty DEF Init
<1>6. WireInv
  BY <1>4, <1>5 DEF WireInv, Init
<1> QED
  BY <1>2, <1>6 DEF IInv

\* The writer, the network and the proxy leave the reader alone.
LEMMA QuietStep ==
  ASSUME UNCHANGED <<msg, stage, room, frameVars, readBuf, out>>
  PROVE  Received' = Received /\ Cur' = Cur
  BY DEF frameVars, Received, Cur, M

LEMMA WriteStep ==
  ASSUME TypeOK, IInv, NEW n \in 1 .. MaxWrite, NEW pad \in PadLens, Write(n, pad)
  PROVE  IInv'
<1>1. Received' = Received /\ Cur' = Cur
  BY QuietStep DEF Write
<1>2. /\ written \in Nat /\ written + n <= MaxBytes /\ n \in Nat /\ n > 0
      /\ ends' = ends \cup {written + n} /\ written' = written + n
  BY MaxWriteAssumption, MaxBytesAssumption DEF TypeOK, Write
<1>3. ReaderInv'
  BY <1>1, <1>2 DEF IInv, ReaderInv, Write, frameVars
<1>4. StreamInv'
  BY <1>1, <1>2 DEF IInv, StreamInv, WholeFrames
<1>5. WireInv'
  <2> SUFFICES ASSUME stage' # "error"
               PROVE  \E c \in PState : /\ Parse(transport', ends', wire', Cur', c)
                                        /\ Boundary(c) /\ c.pos = written'
    BY DEF WireInv
  <2>1. PICK b \in PState : /\ Parse(transport, ends, wire, Cur, b)
                            /\ Boundary(b) /\ b.pos = written
    BY DEF IInv, WireInv, Write
  <2>2. PICK c \in PState : /\ Boundary(c) /\ c.pos = written + n
                            /\ Parse(transport, ends', Message(Frame(n, pad)), b, c)
    BY <1>2, <2>1, ParseMessage
  <2>3. Parse(transport, ends', wire, Cur, b)
    BY <1>2, <2>1, ParseMono
  <2>4. Message(Frame(n, pad)) \in Seq(Byte \cup Mark) /\ wire \in Seq(Byte \cup Mark)
    BY <1>2, MessageType DEF TypeOK
  <2>5. Parse(transport, ends', wire \o Message(Frame(n, pad)), Cur, c)
    BY <2>2, <2>3, <2>4, ParseConcat
  <2> QED
    BY <1>1, <1>2, <2>2, <2>5 DEF Write
<1> QED
  BY <1>3, <1>4, <1>5 DEF IInv

LEMMA ConnFailsStep ==
  ASSUME TypeOK, IInv, ConnFails
  PROVE  IInv'
<1>1. Received' = Received /\ Cur' = Cur
  BY QuietStep DEF ConnFails
<1>2. ReaderInv'
  BY <1>1 DEF IInv, ReaderInv, ConnFails, frameVars
<1>3. StreamInv'
  BY <1>1 DEF IInv, StreamInv, WholeFrames, ConnFails
<1>4. WireInv'
  <2> SUFFICES ASSUME stage' # "error"
               PROVE  \E c \in PState : Parse(transport', ends', wire', Cur', c)
    BY DEF WireInv, ConnFails
  <2>1. PICK b \in PState : Parse(transport, ends, wire, Cur, b)
    BY DEF IInv, WireInv, ConnFails
  <2>2. PICK k \in 0 .. Len(wire) : wire' = SubSeq(wire, 1, k)
    BY DEF ConnFails
  <2>3. \E c \in PState : Parse(transport, ends, SubSeq(wire, 1, k), Cur, c)
    BY <2>1, ParsePrefix DEF TypeOK
  <2> QED
    BY <1>1, <2>2, <2>3 DEF ConnFails
<1> QED
  BY <1>2, <1>3, <1>4 DEF IInv

LEMMA TextMessageStep ==
  ASSUME TypeOK, IInv, TextMessage
  PROVE  IInv'
<1>1. Received' = Received /\ Cur' = Cur
  BY QuietStep DEF TextMessage
<1>2. ReaderInv'
  BY <1>1 DEF IInv, ReaderInv, TextMessage, frameVars
<1>3. StreamInv'
  BY <1>1 DEF IInv, StreamInv, WholeFrames, TextMessage
<1>4. WireInv'
  <2> SUFFICES ASSUME stage' # "error"
               PROVE  \E c \in PState : /\ Parse(transport', ends', wire', Cur', c)
                                        /\ Boundary(c) /\ c.pos = written'
    BY DEF WireInv
  <2>1. PICK b \in PState : /\ Parse(transport, ends, wire, Cur, b)
                            /\ Boundary(b) /\ b.pos = written
    BY DEF IInv, WireInv, TextMessage
  <2> DEFINE e == [kind |-> "text", val |-> 0]
             c == At("body", 0, 0, b.pos, "out")
  <2>2. c \in PState /\ Boundary(c) /\ c.pos = written
    BY <2>1, BoundaryState, AtType
  <2>3. Step(transport, ends, b, e, c)
    BY <2>1 DEF Step, MarkStep, IsMark, TextMessage
  <2>4. e \in Byte \cup Mark /\ <<e>> \in Seq(Byte \cup Mark)
    BY DEF Mark
  <2> HIDE DEF c
  <2>5. Parse(transport, ends, <<e>>, b, c)
    BY <2>2, <2>3, ParseOne
  <2>6. wire' = Append(wire, e)
    BY DEF TextMessage
  <2> HIDE DEF e
  <2>7. wire \in Seq(Byte \cup Mark)
    BY DEF TypeOK
  <2>8. wire' = wire \o <<e>>
    BY <2>4, <2>6, <2>7
  <2>9. Parse(transport, ends, wire \o <<e>>, Cur, c)
    BY <2>1, <2>4, <2>5, <2>7, ParseConcat
  <2> QED
    BY <1>1, <2>2, <2>8, <2>9 DEF TextMessage
<1> QED
  BY <1>2, <1>3, <1>4 DEF IInv

\* The reader takes one element off the wire and so does the automaton.
LEMMA TakeOne ==
  ASSUME TypeOK, IInv, stage # "error", wire # <<>>
  PROVE  \E c \in PState, b \in PState :
           /\ Step(transport, ends, Cur, Head(wire), c)
           /\ Parse(transport, ends, Tail(wire), c, b)
           /\ conn = "up" => Boundary(b) /\ b.pos = written
<1>1. PICK b \in PState : /\ Parse(transport, ends, wire, Cur, b)
                          /\ conn = "up" => Boundary(b) /\ b.pos = written
  BY DEF IInv, WireInv
<1>2. wire \in Seq(Byte \cup Mark)
  BY DEF TypeOK
<1>3. PICK c \in PState : /\ Step(transport, ends, Cur, Head(wire), c)
                          /\ Parse(transport, ends, Tail(wire), c, b)
  BY <1>1, <1>2, ParseHead
<1> QED
  BY <1>1, <1>3

\* A mark can only be next where a frame begins.
LEMMA MarkAtBoundary ==
  ASSUME TypeOK, ReaderInv, Wanting, NEW e, NEW c,
         MarkStep(transport, Cur, e, c)
  PROVE  stage = "len"
<1>1. Boundary(Cur)
  BY DEF MarkStep
<1>2. Len(data) \in Nat /\ skipped \in Nat /\ dataLen \in Nat /\ padLen \in Nat
  BY PaddingAssumption, MaxBytesAssumption DEF TypeOK
<1> QED
  BY <1>1, <1>2, CurFacts DEF Boundary, Wanting

LEMMA NextReaderStep ==
  ASSUME TypeOK, IInv, NextReader
  PROVE  IInv'
<1>1. Received' = Received
  BY DEF NextReader, Received
<1>2. ReaderInv' /\ StreamInv'
  BY <1>1 DEF IInv, ReaderInv, StreamInv, WholeFrames, NextReader, frameVars
<1>3. wire # <<>> /\ stage # "error" /\ Cur.m = "out"
  BY CurFacts DEF NextReader, Wanting, IInv, M
<1>4. PICK c \in PState, b \in PState :
        /\ Step(transport, ends, Cur, Head(wire), c)
        /\ Parse(transport, ends, Tail(wire), c, b)
        /\ conn = "up" => Boundary(b) /\ b.pos = written
  BY <1>3, TakeOne
<1>5. MarkStep(transport, Cur, Head(wire), c)
  BY <1>3, <1>4 DEF Step, ByteStep, NextReader
<1>6. stage = "len"
  BY <1>5, MarkAtBoundary DEF IInv, NextReader
<1>7. c = At("body", 0, 0, Len(Received), IF Head(wire).kind = "binary" THEN "in" ELSE "out")
  BY <1>5, <1>6, CurFacts DEF MarkStep, IInv
<1>8. Cur' = At("body", 0, 0, Len(Received), M')
  BY <1>1, <1>6 DEF Cur, NextReader
<1>9. M' = IF Head(wire).kind = "binary" THEN "in" ELSE "out"
  BY DEF M, NextReader
<1>10. WireInv'
  BY <1>4, <1>7, <1>8, <1>9 DEF WireInv, NextReader
<1> QED
  BY <1>2, <1>10 DEF IInv

LEMMA MessageEndsStep ==
  ASSUME TypeOK, TypeOK', IInv, MessageEnds
  PROVE  IInv'
<1>1. Received' = Received
  BY DEF MessageEnds, Received
<1>2. ReaderInv' /\ StreamInv'
  BY <1>1 DEF IInv, ReaderInv, StreamInv, WholeFrames, MessageEnds, frameVars
<1>3. stage # "error" /\ Cur \in PState
  BY CurFacts DEF MessageEnds, Wanting, IInv
<1>4. /\ Cur' \in PState /\ Cur'.pos = Cur.pos
      /\ Boundary(Cur) => Boundary(Cur')
  <2> DEFINE At1(a, m) == At(a.phase, a.d, a.r, a.pos, m)
  <2>1. Cur' = At1(Cur, "out")
    BY <1>1 DEF Cur, At, M, MessageEnds, frameVars
  <2> QED
    BY <1>3, <2>1 DEF PState, At, Boundary
<1>5. CASE wire = <<>>
  <2>1. conn = "up" => Boundary(Cur) /\ Cur.pos = written
    BY <1>3, <1>5, ParseEmpty DEF IInv, WireInv
  <2>2. Parse(transport, ends, wire, Cur', Cur')
    BY <1>4, <1>5, ParseEmpty
  <2> QED
    BY <1>2, <1>4, <2>1, <2>2 DEF IInv, WireInv, MessageEnds
<1>6. CASE wire # <<>>
  <2>1. PICK c \in PState, b \in PState :
          /\ Step(transport, ends, Cur, Head(wire), c)
          /\ Parse(transport, ends, Tail(wire), c, b)
          /\ conn = "up" => Boundary(b) /\ b.pos = written
    BY <1>3, <1>6, TakeOne
  <2>2. MarkStep(transport, Cur, Head(wire), c)
    BY <1>6, <2>1 DEF Step, ByteStep, IsMark, MessageEnds, AtMark
  <2>3. Step(transport, ends, Cur', Head(wire), c)
    BY <1>4, <2>2 DEF Step, MarkStep
  <2>4. Parse(transport, ends, <<Head(wire)>>, Cur', c)
    BY <1>4, <2>3, ParseOne
  <2>5. /\ <<Head(wire)>> \in Seq(Byte \cup Mark) /\ Tail(wire) \in Seq(Byte \cup Mark)
        /\ wire = <<Head(wire)>> \o Tail(wire)
    BY <1>6 DEF TypeOK
  <2>6. Parse(transport, ends, <<Head(wire)>> \o Tail(wire), Cur', b)
    BY <2>1, <2>4, <2>5, ParseConcat
  <2> QED
    BY <1>2, <2>1, <2>5, <2>6 DEF IInv, WireInv, MessageEnds
<1> QED
  BY <1>5, <1>6

LEMMA ReadByteStep ==
  ASSUME TypeOK, IInv, ReadByte
  PROVE  IInv'
<1> DEFINE v == Head(wire).val
<1>1. Received' = Received /\ M' = M
  BY DEF ReadByte, Received, M
<1>2. StreamInv'
  BY <1>1 DEF IInv, StreamInv, WholeFrames, ReadByte
<1>3. wire # <<>> /\ stage # "error"
  BY DEF ReadByte, Wanting, HasByte
<1>4. PICK c \in PState, b \in PState :
        /\ Step(transport, ends, Cur, Head(wire), c)
        /\ Parse(transport, ends, Tail(wire), c, b)
        /\ conn = "up" => Boundary(b) /\ b.pos = written
  BY <1>3, TakeOne
<1>5. ByteStep(transport, ends, Cur, Head(wire), c)
  BY <1>4 DEF Step, MarkStep, IsMark, ReadByte, HasByte, AtMark
<1>6. Len(Received) \in Nat /\ data \in Seq(Nat) /\ Len(data) \in Nat
  BY ReceivedFacts DEF TypeOK
<1>7. dataLen \in Nat /\ padLen \in Nat /\ skipped \in Nat
  BY PaddingAssumption, MaxBytesAssumption DEF TypeOK
<1>8. /\ readBuf' = <<>> /\ UNCHANGED <<transport, written, ends, conn>>
      /\ wire' = Tail(wire)
  BY DEF ReadByte, Wanting, IInv, ReaderInv
<1>9. v \in Nat
  <2>1. \A e \in Byte \cup Mark : e.val \in Nat
    BY PaddingAssumption, MaxBytesAssumption DEF Byte, Mark
  <2>2. Head(wire) \in Byte \cup Mark
    BY <1>3 DEF TypeOK
  <2> QED
    BY <2>1, <2>2
\* It remains to show that the reader and the automaton agree afterwards.
<1>10. SUFFICES ReaderInv' /\ Cur' = c
  BY <1>2, <1>4, <1>8 DEF IInv, WireInv
<1>11. CASE stage = "len"
  <2>1. dataLen' = v /\ stage' = "padLen" /\ UNCHANGED <<padLen, data, skipped>>
    BY <1>11 DEF ReadByte
  <2>2. Boundary(Cur) /\ Cur.pos = Len(Received) /\ Cur.m = M
    BY <1>11, CurFacts DEF IInv
  <2>3. c = At("padLen", v, 0, Len(Received), M) /\ Len(Received) + v \in ends
    BY <1>5, <2>2 DEF ByteStep, Boundary
  <2>4. Cur' = c
    BY <1>1, <2>1, <2>3 DEF Cur
  <2>5. ReaderInv'
    BY <1>1, <1>8, <1>11, <2>1, <2>3 DEF ReaderInv, IInv
  <2> QED
    BY <2>4, <2>5
<1>12. CASE stage = "padLen"
  <2>1. padLen' = v /\ stage' = "data" /\ UNCHANGED <<dataLen, data, skipped>>
    BY <1>12 DEF ReadByte
  <2>2. /\ Cur.phase = "padLen" /\ Cur.d = dataLen /\ Cur.pos = Len(Received) /\ Cur.m = M
        /\ data = <<>> /\ Len(data) = 0
    BY <1>12, CurFacts DEF IInv, ReaderInv
  <2>3. c = At("body", dataLen, v, Len(Received), M)
    BY <1>5, <2>2 DEF ByteStep, Boundary
  <2>4. Cur' = c
    BY <1>1, <1>6, <1>7, <2>1, <2>2, <2>3 DEF Cur
  <2>5. ReaderInv'
    BY <1>1, <1>7, <1>8, <1>12, <2>1, <2>2 DEF ReaderInv, IInv
  <2> QED
    BY <2>4, <2>5
<1>13. CASE stage = "data"
  <2>1. data' = Append(data, v) /\ UNCHANGED <<stage, dataLen, padLen, skipped>>
    BY <1>13 DEF ReadByte
  <2>2. Len(data) < dataLen
    BY <1>13 DEF ReadByte, Wanting
  <2>3. /\ Cur.phase = "body" /\ Cur.d = dataLen - Len(data) /\ Cur.r = padLen
        /\ Cur.pos = Len(Received) + Len(data) /\ Cur.m = M
    BY <1>13, CurFacts DEF IInv
  <2>4. /\ v = Len(Received) + Len(data) + 1
        /\ c = At("body", dataLen - Len(data) - 1, padLen, Len(Received) + Len(data) + 1, M)
    BY <1>5, <1>6, <1>7, <2>2, <2>3 DEF ByteStep, Boundary
  <2>5. /\ Len(data') = Len(data) + 1
        /\ \A i \in 1 .. Len(data) : data'[i] = data[i]
        /\ data'[Len(data) + 1] = v
    BY <1>6, <1>9, <2>1
  <2>6. Cur' = At("body", dataLen - Len(data'), padLen, Len(Received) + Len(data'), M)
    BY <1>1, <1>13, <2>1 DEF Cur
  <2>7. Cur' = c
    <3>1. /\ dataLen - Len(data') = dataLen - Len(data) - 1
          /\ Len(Received) + Len(data') = Len(Received) + Len(data) + 1
      BY <1>6, <1>7, <2>5
    <3> QED
      BY <2>4, <2>6, <3>1
  <2>8. \A i \in 1 .. Len(data') : data'[i] = Len(Received) + i
    BY <1>6, <2>4, <2>5 DEF IInv, ReaderInv
  <2>9. ReaderInv'
    BY <1>1, <1>6, <1>7, <1>8, <1>13, <2>1, <2>2, <2>5, <2>8 DEF ReaderInv, IInv
  <2> QED
    BY <2>7, <2>9
<1>14. CASE stage = "padding"
  <2>1. skipped' = skipped + 1 /\ UNCHANGED <<stage, dataLen, padLen, data>>
    BY <1>14 DEF ReadByte
  <2>2. skipped < padLen
    BY <1>14 DEF ReadByte, Wanting
  <2>3. /\ Cur.phase = "body" /\ Cur.d = 0 /\ Cur.r = padLen - skipped
        /\ Cur.pos = Len(Received) + dataLen /\ Cur.m = M
    BY <1>14, CurFacts DEF IInv
  <2>4. c = At("body", 0, padLen - skipped - 1, Len(Received) + dataLen, M)
    BY <1>5, <1>7, <2>2, <2>3 DEF ByteStep, Boundary
  <2>5. Cur' = At("body", 0, padLen - (skipped + 1), Len(Received) + dataLen, M)
    BY <1>1, <1>14, <2>1 DEF Cur
  <2>6. padLen - (skipped + 1) = padLen - skipped - 1
    BY <1>7
  <2>7. ReaderInv'
    BY <1>1, <1>7, <1>8, <1>14, <2>1, <2>2 DEF ReaderInv, IInv
  <2> QED
    BY <2>4, <2>5, <2>6, <2>7
<1> QED
  BY <1>11, <1>12, <1>13, <1>14 DEF ReadByte

LEMMA DataCompleteStep ==
  ASSUME TypeOK, IInv, DataComplete
  PROVE  IInv'
<1>1. Received' = Received /\ M' = M
  BY DEF DataComplete, Received, M
<1>2. ReaderInv' /\ StreamInv'
  BY <1>1, PaddingAssumption, MaxBytesAssumption
     DEF IInv, ReaderInv, StreamInv, WholeFrames, DataComplete, frameVars, TypeOK
<1>3. Cur' = Cur
  <2>1. dataLen - Len(data) = 0 /\ padLen - skipped = padLen /\ Len(data) = dataLen
    BY PaddingAssumption, MaxBytesAssumption DEF DataComplete, TypeOK, IInv, ReaderInv
  <2> QED
    BY <1>1, <2>1 DEF Cur, DataComplete, frameVars
<1> QED
  BY <1>2, <1>3 DEF IInv, WireInv, DataComplete

LEMMA ReadReturnsStep ==
  ASSUME TypeOK, TypeOK', IInv, ReadReturns
  PROVE  IInv'
<1>1. stage = "padding" /\ skipped = padLen /\ Len(data) = dataLen /\ Received = out
  BY ReceivedFacts DEF ReadReturns, IInv, ReaderInv
<1>2. Received' = out \o data
  BY CopyOutFacts, ReadSizesAssumption DEF ReadReturns, TypeOK
<1>3. out \in Seq(Nat) /\ data \in Seq(Nat) /\ Len(out) \in Nat /\ dataLen \in Nat
  BY <1>1 DEF TypeOK
<1>4. Len(Received') = Len(out) + Len(data)
  BY <1>2, <1>3
<1>5. \A i \in 1 .. Len(out) : Received'[i] = out[i]
  BY <1>2, <1>3
<1>6. \A i \in 1 .. Len(data) : Received'[Len(out) + i] = data[i]
  BY <1>2, <1>3
<1>7. \A i \in 1 .. Len(Received') : Received'[i] = i
  <2> TAKE i \in 1 .. Len(Received')
  <2>1. CASE i <= Len(out)
    BY <1>1, <1>3, <1>4, <1>5, <2>1 DEF IInv, StreamInv
  <2>2. CASE i > Len(out)
    <3>1. i - Len(out) \in 1 .. Len(data) /\ i = Len(out) + (i - Len(out))
      BY <1>1, <1>3, <1>4, <2>2
    <3>2. Received'[i] = data[i - Len(out)]
      BY <1>6, <3>1
    <3>3. data[i - Len(out)] = Len(out) + (i - Len(out))
      BY <1>1, <3>1 DEF IInv, ReaderInv
    <3> QED
      BY <3>1, <3>2, <3>3
  <2> QED
    BY <1>1, <1>3, <1>4, <2>1, <2>2
<1>8. Len(Received') \in ends
  BY <1>1, <1>4 DEF IInv, ReaderInv
<1>9. StreamInv'
  BY <1>7, <1>8 DEF StreamInv, WholeFrames, IInv, ReadReturns
<1>10. ReaderInv'
  BY DEF ReaderInv, ReadReturns, Forget
<1>11. Cur' = Cur
  <2>1. Cur' = At("body", 0, 0, Len(Received'), M)
    BY DEF Cur, M, ReadReturns
  <2>2. Cur = At("body", 0, padLen - skipped, Len(Received) + dataLen, M)
    BY <1>1 DEF Cur
  <2>3. padLen - skipped = 0 /\ Len(Received') = Len(Received) + dataLen
    BY <1>1, <1>4 DEF TypeOK
  <2> QED
    BY <2>1, <2>2, <2>3
<1>12. WireInv'
  BY <1>1, <1>11 DEF IInv, WireInv, ReadReturns
<1> QED
  BY <1>9, <1>10, <1>12 DEF IInv

LEMMA IInvNext ==
  ASSUME TypeOK, TypeOK', IInv, [Next]_vars
  PROVE  IInv'
<1>1. ASSUME NEW n \in ReadSizes, ReadBuffered(n) PROVE IInv'
  <2>1. Received' = Received
    BY <1>1, CopyOutFacts, ReadSizesAssumption DEF ReadBuffered, TypeOK, Received
  <2>2. ReaderInv' /\ StreamInv'
    BY <1>1, <2>1 DEF IInv, ReaderInv, StreamInv, WholeFrames, ReadBuffered, frameVars
  <2>3. Cur' = Cur
    BY <1>1, <2>1 DEF Cur, M, ReadBuffered, frameVars
  <2> QED
    BY <1>1, <2>2, <2>3 DEF IInv, WireInv, ReadBuffered
<1>2. ASSUME NEW n \in ReadSizes, ReadBegins(n) PROVE IInv'
  <2>1. Received' = Received
    BY <1>2 DEF ReadBegins, Received
  <2>2. ReaderInv' /\ StreamInv'
    BY <1>2, <2>1 DEF IInv, ReaderInv, StreamInv, WholeFrames, ReadBegins, frameVars
  <2>3. Cur' = Cur
    BY <1>2, <2>1 DEF Cur, M, ReadBegins, frameVars
  <2> QED
    BY <1>2, <2>2, <2>3 DEF IInv, WireInv, ReadBegins
<1>3. ASSUME ReadFails PROVE IInv'
  <2>1. Received' = Received /\ readBuf' = <<>> /\ stage' = "error" /\ data' = <<>>
    BY <1>3 DEF ReadFails, Forget, Received, Wanting, IInv, ReaderInv
  <2>2. ReaderInv'
    BY <1>3, <2>1 DEF ReaderInv, ReadFails, Forget
  <2>3. StreamInv'
    BY <1>3, <2>1 DEF IInv, StreamInv, WholeFrames, ReadFails
  <2> QED
    BY <2>1, <2>2, <2>3 DEF IInv, WireInv
<1>4. ASSUME UNCHANGED vars PROVE IInv'
  <2>1. Received' = Received /\ Cur' = Cur
    BY <1>4, QuietStep DEF vars
  <2>2. ReaderInv' /\ StreamInv'
    BY <1>4, <2>1 DEF IInv, ReaderInv, StreamInv, WholeFrames, vars, frameVars
  <2> QED
    BY <1>4, <2>1, <2>2 DEF IInv, WireInv, vars
<1> QED
  BY <1>1, <1>2, <1>3, <1>4, WriteStep, ConnFailsStep, TextMessageStep, NextReaderStep,
     MessageEndsStep, ReadByteStep, DataCompleteStep, ReadReturnsStep
     DEF Next, Read

LEMMA IInvHolds == Spec => [](TypeOK /\ IInv)
<1>1. TypeOK /\ TypeOK' /\ IInv /\ [Next]_vars => IInv'
  BY IInvNext
<1> QED
  BY <1>1, IInvInit, TypeCorrect, PTL DEF Spec

-----------------------------------------------------------------------------
(* Theorems *)

\* obfsConn and wsConn keep the byte stream, whatever the sizes of writes and
\* buffers, the padding, the messages of a proxy and the moment of a failure.
THEOREM PreservesStream == Spec => []StreamPreserved
<1>1. TypeOK /\ IInv => StreamPreserved
  <2> SUFFICES ASSUME TypeOK, IInv PROVE StreamPreserved
    OBVIOUS
  <2>1. Received \in Seq(Nat)
    BY ReceivedFacts
  <2>2. Len(Received) <= written
    BY MaxBytesAssumption DEF TypeOK, IInv, StreamInv, WholeFrames
  <2>3. DOMAIN Received = 1 .. Len(Received)
    BY <2>1
  <2> QED
    BY <2>2, <2>3 DEF StreamPreserved, IInv, StreamInv
<1> QED
  BY <1>1, IInvHolds, PTL

\* A Read that fails gives nothing of the frame that was cut short.
THEOREM GivesWholeFrames == Spec => []WholeFrames
<1>1. IInv => WholeFrames
  BY DEF IInv, StreamInv
<1> QED
  BY <1>1, IInvHolds, PTL

\* While the connection is up, no byte is anywhere but on the wire or with the
\* reader: no text message, message boundary or short buffer loses one.
THEOREM LosesNothing == Spec => []NothingLost
<1>1. TypeOK /\ IInv => NothingLost
  <2> SUFFICES ASSUME TypeOK, IInv, conn = "up", wire = <<>>
               PROVE  Len(Received) + Len(data) = written
    BY DEF NothingLost
  <2>1. stage # "error" /\ Cur \in PState
    BY CurFacts DEF IInv, ReaderInv
  <2>2. Boundary(Cur) /\ Cur.pos = written
    BY <2>1, ParseEmpty DEF IInv, WireInv
  <2>3. Len(Received) \in Nat /\ data \in Seq(Nat)
    BY ReceivedFacts DEF TypeOK
  <2>4. CASE stage \in {"idle", "len"}
    BY <2>2, <2>3, <2>4, CurFacts DEF IInv, ReaderInv
  <2>5. CASE stage = "padLen"
    BY <2>2, <2>5, CurFacts DEF IInv, Boundary
  <2>6. CASE stage = "data"
    BY <2>2, <2>6, CurFacts DEF IInv
  <2>7. CASE stage = "padding"
    BY <2>2, <2>7, CurFacts DEF IInv, ReaderInv
  <2> QED
    BY <2>1, <2>4, <2>5, <2>6, <2>7 DEF TypeOK
<1> QED
  BY <1>1, IInvHolds, PTL
=============================================================================
