------------------------- MODULE HttpMessagesProofs -------------------------
(***************************************************************************)
(* Proofs about HttpMessages for contents of any length, any limit of the  *)
(* buffers and any way in which the bytes are cut into pieces: a content   *)
(* is delivered as it was sent, chunked or not.  Behind them, for messages *)
(* of any length: what one end writes before a content is what the other   *)
(* end reads.                                                              *)
(***************************************************************************)
EXTENDS HttpMessages, SequenceTheorems, WellFoundedInduction, TLAPS

\* Sequences of texts.
Texts == Seq(Seq(Int))

\* The first k texts, one behind the other.
Upto(s, k) == FlattenSeq(SubSeq(s, 1, k))

\* What the peer may send, seen as a sequence of bytes.
Shape ==
    /\ message.framing \in Framings
    /\ message.framing \in {"none", "bad_size"} => message.contents = <<>>
    /\ message.framing \in {"close", "bad_length", "bad_size"} => message.following = <<>>
    /\ Content(message) \in Seq(Int)
    /\ message.following \in Seq(Int)
    /\ message.sent \in Nat

\* What is between the header and what follows the message.
MessageBody == Body(message.framing, message.contents)

\* The header is dropped from the buffer once it was read.
Dropped == IF stage = "header" THEN 0 ELSE 5

\* The first d bytes of the message are done with; what is in the buffer and
\* what has not come are the bytes behind them.
StreamedFrom(d) ==
    /\ message.sent \in Nat
    /\ message.sent <= Len(Bytes(message))
    /\ buf \in Seq(Int)
    /\ wire \in Seq(Int)
    /\ d + Len(buf) + Len(wire) = message.sent
    /\ \A i \in 1 .. Len(buf) : buf[i] = Bytes(message)[d + i]
    /\ \A i \in 1 .. Len(wire) : wire[i] = Bytes(message)[d + Len(buf) + i]

\* The same for a message that is not chunked.
Streamed == StreamedFrom(Dropped)

\* What is still to come, by what the reader waits for.
Waits ==
    \/ stage = "header"
    \/ stage = "content" /\ message.framing = "length"
         /\ need \in Nat /\ need + Len(buf) = Len(Content(message))
    \/ stage = "rest" /\ message.framing = "close"
    \/ stage = "size" /\ message.framing = "bad_size"

\* The reader of a content that is not chunked has dropped nothing but the header.
Reading == Streamed /\ Waits /\ limit \in Nat /\ Len(buf) <= limit

\* What the peer may send in chunks.
Chunky ==
    /\ message.framing = "chunked"
    /\ message.contents \in Texts
    /\ \A i \in 1 .. Len(message.contents) : Len(message.contents[i]) \in 1 .. 9
    /\ message.following \in Seq(Int)
    /\ message.sent \in Nat
    /\ message.sent <= Len(Bytes(message))

\* The chunks but the last.
ChunkSeq == [i \in 1 .. Len(message.contents) |-> Chunk(message.contents[i])]

\* The chunk behind the first k, and where it begins.
Piece(k) == IF k < Len(message.contents) THEN message.contents[k + 1] ELSE <<>>

Before(k) == 5 + Len(Upto(ChunkSeq, k))

\* Where the reader of a chunked content is, and what it has put aside.
ChunkWaits ==
    \/ stage = "header" /\ chunks = <<>> /\ StreamedFrom(0)
    \/ \E k \in 0 .. Len(message.contents) :
         /\ chunks = Upto(message.contents, k)
         /\ Len(chunks) < limit
         /\ \/ stage = "size" /\ StreamedFrom(Before(k))
            \/ /\ stage = "chunk" /\ StreamedFrom(Before(k) + 3)
               /\ length = Len(Piece(k))
               /\ need \in Nat /\ need + Len(buf) = length + 2

\* The reader of a chunked content.
ChunkReading == limit \in Nat /\ Len(buf) <= limit /\ ChunkWaits

\* The inductive invariant: what the reader has done with comes before what is
\* in its buffer, and that before what has not come, for each way in which a
\* content ends.
IInv ==
    /\ ContentAsSent
    /\ message.framing # "chunked" => Shape /\ (outcome = "none" => Reading)
    /\ message.framing = "chunked" => Chunky /\ (outcome = "none" => ChunkReading)

-----------------------------------------------------------------------------
(* Numbers                                                                 *)

\* Every set of natural numbers that is not empty has a least.
LEMMA Least ==
    ASSUME NEW S \in SUBSET Nat, S # {}
    PROVE  \E n \in S : \A m \in S : n <= m
<1> DEFINE R == OpToRel(<, Nat)
<1>1. IsWellFoundedOn(R, Nat)
  BY NatLessThanWellFounded, Zenon
<1>2. \A x, y \in Nat : <<y, x>> \in R <=> y < x
  BY DEF OpToRel
<1> HIDE DEF R
<1>3. \E x \in S : \A y \in S : ~ (<<y, x>> \in R)
  BY <1>1, WFMin
<1>4. PICK x \in S : \A y \in S : ~ (<<y, x>> \in R)
  BY <1>3
<1>5. \A y \in S : ~(y < x)
  BY <1>2, <1>4
<1>6. \A y \in S : x <= y
  BY <1>5
<1>7. QED
  BY <1>6

\* The smaller of two numbers.
LEMMA SmallerOf ==
    ASSUME NEW l \in Nat, NEW m \in Nat
    PROVE  /\ Min({l, m}) \in Nat /\ Min({l, m}) <= l /\ Min({l, m}) <= m
           /\ Min({l, m}) = l \/ Min({l, m}) = m
<1>1. CASE l <= m
  <2>1. Min({l, m}) = l
    BY <1>1 DEF Min
  <2>2. QED
    BY <1>1, <2>1
<1>2. CASE ~(l <= m)
  <2>1. Min({l, m}) = m
    BY <1>2 DEF Min
  <2>2. QED
    BY <1>2, <2>1
<1>3. QED
  BY <1>1, <1>2

\* Induction: a set with 0 and with the next of each of its numbers has all of them.
LEMMA SetInduction ==
    ASSUME NEW S, 0 \in S, \A n \in Nat : n \in S => n + 1 \in S
    PROVE  Nat \subseteq S
<1> DEFINE T == Nat \ S
<1> SUFFICES ASSUME T # {} PROVE FALSE
  OBVIOUS
<1>1. PICK n \in T : \A m \in T : n <= m
  BY Least
<1>2. n - 1 \in Nat
  BY <1>1
<1>3. n - 1 \in S
  BY <1>1, <1>2
<1>4. QED
  BY <1>2, <1>3

-----------------------------------------------------------------------------
(* Sequences of bytes                                                      *)

\* What stands where in two sequences that follow each other.
LEMMA Parts ==
    ASSUME NEW a \in Seq(Int), NEW b \in Seq(Int)
    PROVE  /\ a \o b \in Seq(Int)
           /\ Len(a \o b) = Len(a) + Len(b)
           /\ \A i \in 1 .. Len(a) : (a \o b)[i] = a[i]
           /\ \A i \in 1 .. Len(b) : (a \o b)[Len(a) + i] = b[i]
<1>1. /\ a \o b \in Seq(Int) /\ Len(a \o b) = Len(a) + Len(b)
      /\ \A i \in 1 .. Len(a) + Len(b) : (a \o b)[i] = IF i <= Len(a) THEN a[i] ELSE b[i - Len(a)]
  BY ConcatProperties
<1>2. Len(a) \in Nat /\ Len(b) \in Nat
  BY LenProperties
<1>3. ASSUME NEW i \in 1 .. Len(a) PROVE (a \o b)[i] = a[i]
  BY <1>1, <1>2
<1>4. ASSUME NEW i \in 1 .. Len(b) PROVE (a \o b)[Len(a) + i] = b[i]
  <2>1. /\ Len(a) + i \in 1 .. Len(a) + Len(b)
        /\ ~(Len(a) + i <= Len(a))
        /\ (Len(a) + i) - Len(a) = i
    BY <1>2
  <2>2. QED
    BY <1>1, <2>1
<1>5. QED
  BY <1>1, <1>3, <1>4

\* A sequence with the same bytes in the same places is the same.
LEMMA PartsAre ==
    ASSUME NEW a \in Seq(Int), NEW b \in Seq(Int), NEW c \in Seq(Int),
           Len(c) = Len(a) + Len(b),
           \A i \in 1 .. Len(a) : c[i] = a[i],
           \A i \in 1 .. Len(b) : c[Len(a) + i] = b[i]
    PROVE  a \o b = c
<1>1. /\ a \o b \in Seq(Int) /\ Len(a \o b) = Len(a) + Len(b)
      /\ \A i \in 1 .. Len(a) + Len(b) : (a \o b)[i] = IF i <= Len(a) THEN a[i] ELSE b[i - Len(a)]
  BY ConcatProperties
<1>2. Len(a) \in Nat /\ Len(b) \in Nat
  BY LenProperties
<1>3. ASSUME NEW i \in 1 .. Len(a) + Len(b) PROVE (a \o b)[i] = c[i]
  <2>1. CASE i <= Len(a)
    BY <1>1, <1>2, <2>1
  <2>2. CASE i > Len(a)
    <3>1. i - Len(a) \in 1 .. Len(b) /\ Len(a) + (i - Len(a)) = i
      BY <1>2, <2>2
    <3>2. c[Len(a) + (i - Len(a))] = b[i - Len(a)]
      BY <3>1
    <3>3. QED
      BY <1>1, <1>2, <2>2, <3>1, <3>2
  <2>3. QED
    BY <1>2, <2>1, <2>2
<1>4. QED
  BY <1>1, <1>3, SeqEqual

\* What has a place in a sequence of bytes is a byte.
LEMMA FromIs ==
    ASSUME NEW s \in Seq(Int), NEW n \in 0 .. Len(s)
    PROVE  /\ From(s, n + 1) \in Seq(Int) /\ Len(From(s, n + 1)) = Len(s) - n
           /\ \A i \in 1 .. Len(s) - n : From(s, n + 1)[i] = s[n + i]
<1>1. Len(s) \in Nat /\ \A i \in 1 .. Len(s) : s[i] \in Int
  BY LenProperties, ElementOfSeq
<1> DEFINE m == Len(s)
           t == SubSeq(s, n + 1, m)
<1>2. \A i \in n + 1 .. m : s[i] \in Int
  BY <1>1
<1>3. /\ t \in Seq(Int)
      /\ Len(t) = IF n + 1 <= m THEN m - (n + 1) + 1 ELSE 0
      /\ \A i \in 1 .. m - (n + 1) + 1 : t[i] = s[n + 1 + i - 1]
  BY <1>1, <1>2, SubSeqProperties
<1>4. From(s, n + 1) = t
  BY DEF From
<1>5. m \in Nat /\ n \in 0 .. m
  BY <1>1
<1> HIDE DEF m, t
<1>6. Len(t) = m - n
  BY <1>3, <1>5
<1>7. ASSUME NEW i \in 1 .. m - n PROVE t[i] = s[n + i]
  <2>1. i \in 1 .. m - (n + 1) + 1 /\ n + 1 + i - 1 = n + i
    BY <1>5
  <2>2. QED
    BY <1>3, <2>1
<1>8. QED
  BY <1>3, <1>4, <1>6, <1>7 DEF m

\* The same for what a sequence begins with.
LEMMA FrontIs ==
    ASSUME NEW s \in Seq(Int), NEW n \in 0 .. Len(s)
    PROVE  /\ SubSeq(s, 1, n) \in Seq(Int) /\ Len(SubSeq(s, 1, n)) = n
           /\ \A i \in 1 .. n : SubSeq(s, 1, n)[i] = s[i]
<1>1. Len(s) \in Nat /\ \A i \in 1 .. Len(s) : s[i] \in Int
  BY LenProperties, ElementOfSeq
<1>2. n \in Nat /\ \A i \in 1 .. n : s[i] \in Int
  BY <1>1
<1>3. QED
  BY <1>2, SubSeqProperties

\* Places behind m bytes that are dropped.
LEMMA Dropping ==
    ASSUME NEW d \in Nat, NEW h \in Nat, NEW a \in Nat, NEW m \in Nat, m <= h
    PROVE  /\ h - m \in Nat
           /\ ((d + 3) + m) + (h - m) + a = d + 3 + h + a
           /\ \A i \in 1 .. h - m : m + i \in 1 .. h /\ d + 3 + (m + i) = ((d + 3) + m) + i
           /\ \A i \in 1 .. a : d + 3 + h + i = ((d + 3) + m) + (h - m) + i
  OBVIOUS

-----------------------------------------------------------------------------
(* Texts put together                                                      *)

\* The function that FlattenSeq chooses exists.
LEMMA FlattenExists ==
    ASSUME NEW s
    PROVE  \A n \in Nat : \E g : g = [i \in 1 .. n |-> IF i = 1 THEN s[i] ELSE g[i - 1] \o s[i]]
<1> DEFINE Is(n, g) == g = [i \in 1 .. n |-> IF i = 1 THEN s[i] ELSE g[i - 1] \o s[i]]
           S == {n \in Nat : \E g : Is(n, g)}
<1>1. 0 \in S
  <2> DEFINE g == [i \in 1 .. 0 |-> s[i]]
  <2>1. Is(0, g)
    OBVIOUS
  <2> HIDE DEF g, Is
  <2>2. QED
    BY <2>1
<1>2. ASSUME NEW n \in Nat, n \in S PROVE n + 1 \in S
  <2>1. PICK g : Is(n, g)
    BY <1>2
  <2> DEFINE h == [i \in 1 .. n + 1 |-> IF i = 1 THEN s[i] ELSE g[i - 1] \o s[i]]
  <2>2. ASSUME NEW i \in 1 .. n + 1, i # 1 PROVE h[i - 1] = g[i - 1]
    <3>1. i - 1 \in 1 .. n /\ i - 1 \in 1 .. n + 1
      BY <2>2
    <3>2. g[i - 1] = IF i - 1 = 1 THEN s[i - 1] ELSE g[(i - 1) - 1] \o s[i - 1]
      BY <2>1, <3>1
    <3>3. h[i - 1] = IF i - 1 = 1 THEN s[i - 1] ELSE g[(i - 1) - 1] \o s[i - 1]
      BY <3>1
    <3>4. QED
      BY <3>2, <3>3
  <2>3. h = [i \in 1 .. n + 1 |-> IF i = 1 THEN s[i] ELSE h[i - 1] \o s[i]]
    <3> DEFINE k == [i \in 1 .. n + 1 |-> IF i = 1 THEN s[i] ELSE h[i - 1] \o s[i]]
    <3>1. \A i \in 1 .. n + 1 : h[i] = k[i]
      BY <2>2
    <3>2. QED
      BY <3>1
  <2>4. Is(n + 1, h)
    BY <2>3
  <2> HIDE DEF h, Is
  <2>5. QED
    BY <2>4
<1> HIDE DEF S
<1>3. Nat \subseteq S
  BY <1>1, <1>2, SetInduction
<1>4. QED
  BY <1>3 DEF S

\* FlattenSeq puts one text behind the other.
LEMMA FlattenSteps ==
    ASSUME NEW s, Len(s) \in Nat, Len(s) # 0
    PROVE  \E f : /\ f[1] = s[1]
                  /\ \A i \in 2 .. Len(s) : f[i] = f[i - 1] \o s[i]
                  /\ FlattenSeq(s) = f[Len(s)]
<1> DEFINE Eq(n, g) == g = [i \in 1 .. n |-> IF i = 1 THEN s[i] ELSE g[i - 1] \o s[i]]
           f == CHOOSE g : Eq(Len(s), g)
<1>1. \E g : Eq(Len(s), g)
  BY FlattenExists, Zenon
<1>2. Eq(Len(s), f)
  BY <1>1, Zenon
<1>3. FlattenSeq(s) = f[Len(s)]
  BY DEF FlattenSeq
<1> HIDE DEF f
<1>4. f[1] = s[1] /\ \A i \in 2 .. Len(s) : f[i] = f[i - 1] \o s[i]
  <2>1. 1 \in 1 .. Len(s)
    OBVIOUS
  <2>2. \A i \in 2 .. Len(s) : i \in 1 .. Len(s) /\ i # 1
    OBVIOUS
  <2>3. QED
    BY <1>2, <2>1, <2>2
<1>5. QED
  BY <1>3, <1>4

\* f[i] is what the first i texts make, up to the n-th.
Flattens(f, s, n) == f[1] = s[1] /\ \A i \in 2 .. n : f[i] = f[i - 1] \o s[i]

\* Two such functions agree as far as what they put together does.
LEMMA FlattenUnique ==
    ASSUME NEW s, NEW t, NEW n \in Nat, NEW f, NEW g,
           Flattens(f, s, n), Flattens(g, t, n),
           \A i \in 1 .. n : s[i] = t[i]
    PROVE  \A i \in 1 .. n : f[i] = g[i]
<1> DEFINE S == {k \in Nat : k \in 1 .. n => f[k] = g[k]}
<1>1. 0 \in S
  OBVIOUS
<1>2. ASSUME NEW k \in Nat, k \in S PROVE k + 1 \in S
  <2>1. CASE k = 0
    BY <2>1 DEF Flattens
  <2>2. CASE k # 0 /\ k + 1 \in 1 .. n
    <3>1. k \in 1 .. n /\ k + 1 \in 2 .. n /\ (k + 1) - 1 = k
      BY <2>2
    <3>2. f[k] = g[k]
      BY <1>2, <3>1
    <3>3. f[k + 1] = f[(k + 1) - 1] \o s[k + 1] /\ g[k + 1] = g[(k + 1) - 1] \o t[k + 1]
      BY <3>1 DEF Flattens
    <3>4. f[k + 1] = g[k + 1]
      BY <2>2, <3>1, <3>2, <3>3
    <3>5. QED
      BY <3>4
  <2>3. QED
    BY <2>1, <2>2
<1> HIDE DEF S
<1>3. Nat \subseteq S
  BY <1>1, <1>2, SetInduction
<1>4. QED
  BY <1>3 DEF S

\* Each text goes behind those before it.
LEMMA UptoSteps ==
    ASSUME NEW s \in Texts
    PROVE  /\ Upto(s, 0) = <<>>
           /\ \A k \in 1 .. Len(s) : Upto(s, k) = Upto(s, k - 1) \o s[k]
           /\ Upto(s, Len(s)) = FlattenSeq(s)
           /\ \A k \in 0 .. Len(s) : Upto(s, k) \in Seq(Int)
<1> DEFINE front(k) == SubSeq(s, 1, k)
<1>1. Len(s) \in Nat /\ \A i \in 1 .. Len(s) : s[i] \in Seq(Int)
  BY LenProperties, ElementOfSeq DEF Texts
<1>2. ASSUME NEW k \in 0 .. Len(s)
      PROVE  /\ front(k) \in Texts /\ Len(front(k)) = k
             /\ \A i \in 1 .. k : front(k)[i] = s[i]
  <2>1. \A i \in 1 .. k : s[i] \in Seq(Int)
    BY <1>1
  <2>2. QED
    BY <1>1, <2>1, SubSeqProperties DEF Texts
<1>3. Upto(s, 0) = <<>>
  <2>1. front(0) = <<>>
    BY <1>1, <1>2, EmptySeq DEF Texts
  <2>2. FlattenSeq(<<>>) = <<>>
    BY DEF FlattenSeq
  <2>3. QED
    BY <2>1, <2>2 DEF Upto
<1>4. front(Len(s)) = s
  BY <1>1, <1>2, SeqEqual DEF Texts
<1>5. ASSUME NEW k \in 1 .. Len(s) PROVE Upto(s, k) = Upto(s, k - 1) \o s[k]
  <2>1. PICK f : /\ f[1] = front(k)[1]
                 /\ \A i \in 2 .. k : f[i] = f[i - 1] \o front(k)[i]
                 /\ FlattenSeq(front(k)) = f[k]
    <3>1. Len(front(k)) = k /\ k \in Nat /\ k # 0
      BY <1>2
    <3> HIDE DEF front
    <3>2. QED
      BY <3>1, FlattenSteps
  <2>2. CASE k = 1
    <3>1. Upto(s, k) = s[1]
      BY <1>2, <2>1, <2>2 DEF Upto
    <3>2. <<>> \o s[1] = s[1]
      BY <1>1, <2>2, ConcatEmptySeq
    <3>3. k - 1 = 0
      BY <2>2
    <3>4. QED
      BY <1>3, <2>2, <3>1, <3>2, <3>3
  <2>3. CASE k # 1
    <3>1. k - 1 \in 1 .. Len(s) /\ k - 1 \in Nat /\ k - 1 # 0
      BY <1>1, <2>3
    <3>2. Len(front(k - 1)) = k - 1
      BY <1>2, <3>1
    <3>3. PICK g : /\ g[1] = front(k - 1)[1]
                   /\ \A i \in 2 .. k - 1 : g[i] = g[i - 1] \o front(k - 1)[i]
                   /\ FlattenSeq(front(k - 1)) = g[k - 1]
      <4> HIDE DEF front
      <4>1. QED
        BY <3>1, <3>2, FlattenSteps
    <3>4. \A i \in 1 .. k - 1 : front(k)[i] = front(k - 1)[i]
      <4>1. \A i \in 1 .. k - 1 : front(k - 1)[i] = s[i]
        BY <1>2, <3>1
      <4>2. \A i \in 1 .. k : front(k)[i] = s[i]
        BY <1>2
      <4>3. QED
        BY <4>1, <4>2
    <3>5. f[k - 1] = g[k - 1]
      <4>1. \A i \in 2 .. k - 1 : f[i] = f[i - 1] \o front(k)[i]
        <5>1. \A i \in 2 .. k - 1 : i \in 2 .. k
          BY <1>1
        <5>2. QED
          BY <2>1, <5>1
      <4>2. k - 1 \in 1 .. k - 1
        BY <3>1
      <4> DEFINE a == front(k)
                 b == front(k - 1)
                 n == k - 1
      <4>3. /\ n \in Nat /\ f[1] = a[1] /\ g[1] = b[1]
            /\ Flattens(f, a, n) /\ Flattens(g, b, n)
            /\ \A i \in 1 .. n : a[i] = b[i]
        BY <2>1, <3>1, <3>3, <3>4, <4>1 DEF Flattens
      <4> HIDE DEF a, b, n
      <4>4. \A i \in 1 .. n : f[i] = g[i]
        BY <4>3, FlattenUnique
      <4>5. QED
        BY <4>2, <4>4 DEF n
    <3>6. f[k] = f[k - 1] \o front(k)[k]
      <4>1. k \in 2 .. k
        BY <1>1, <2>3
      <4>2. QED
        BY <2>1, <4>1
    <3>7. front(k)[k] = s[k]
      BY <1>2
    <3>8. QED
      BY <2>1, <3>3, <3>5, <3>6, <3>7 DEF Upto
  <2>4. QED
    BY <2>2, <2>3
<1>6. \A k \in 0 .. Len(s) : Upto(s, k) \in Seq(Int)
  <2> DEFINE S == {k \in Nat : k <= Len(s) => Upto(s, k) \in Seq(Int)}
  <2>1. 0 \in S
    BY <1>3, EmptySeq
  <2>2. ASSUME NEW k \in Nat, k \in S PROVE k + 1 \in S
    <3>1. CASE k + 1 <= Len(s)
      <4>1. k + 1 \in 1 .. Len(s) /\ (k + 1) - 1 = k
        BY <1>1, <3>1
      <4>2. Upto(s, k) \in Seq(Int)
        BY <1>1, <2>2, <3>1
      <4>3. Upto(s, k + 1) = Upto(s, k) \o s[k + 1]
        BY <1>5, <4>1
      <4>4. Upto(s, k + 1) \in Seq(Int)
        BY <1>1, <4>1, <4>2, <4>3, ConcatProperties
      <4>5. QED
        BY <4>4
    <3>2. QED
      BY <3>1
  <2> HIDE DEF S
  <2>3. Nat \subseteq S
    BY <2>1, <2>2, SetInduction
  <2>4. QED
    BY <2>3 DEF S
<1>7. QED
  BY <1>3, <1>4, <1>5, <1>6 DEF Upto

\* The first texts begin all of them.
LEMMA UptoBegins ==
    ASSUME NEW s \in Texts, NEW n \in 0 .. Len(s), NEW k \in 0 .. n
    PROVE  /\ Len(Upto(s, k)) <= Len(Upto(s, n))
           /\ \A j \in 1 .. Len(Upto(s, k)) : Upto(s, n)[j] = Upto(s, k)[j]
<1> DEFINE Good(m) == /\ Len(Upto(s, k)) <= Len(Upto(s, m))
                      /\ \A j \in 1 .. Len(Upto(s, k)) : Upto(s, m)[j] = Upto(s, k)[j]
           S == {d \in Nat : k + d <= Len(s) => Good(k + d)}
<1>1. Len(s) \in Nat /\ n \in Nat /\ k \in Nat /\ \A i \in 1 .. Len(s) : s[i] \in Seq(Int)
  BY LenProperties, ElementOfSeq DEF Texts
<1>2. \A m \in 0 .. Len(s) : Upto(s, m) \in Seq(Int) /\ Len(Upto(s, m)) \in Nat
  BY UptoSteps, LenProperties
<1>3. 0 \in S
  <2>1. k + 0 = k /\ k \in 0 .. Len(s)
    BY <1>1
  <2>2. Good(k)
    BY <1>2, <2>1
  <2>3. QED
    BY <2>1, <2>2
<1>4. ASSUME NEW d \in Nat, d \in S PROVE d + 1 \in S
  <2> SUFFICES ASSUME k + (d + 1) <= Len(s) PROVE Good(k + (d + 1))
    OBVIOUS
  <2>1. k + (d + 1) \in 1 .. Len(s) /\ (k + (d + 1)) - 1 = k + d /\ k + d \in 0 .. Len(s)
    BY <1>1
  <2>2. Good(k + d)
    BY <1>1, <1>4, <2>1
  <2>3. Upto(s, k + (d + 1)) = Upto(s, k + d) \o s[k + (d + 1)]
    BY <2>1, UptoSteps
  <2> DEFINE a == Upto(s, k + d)
             b == s[k + (d + 1)]
             c == Upto(s, k)
  <2>4. a \in Seq(Int) /\ b \in Seq(Int) /\ Len(a) \in Nat /\ Len(b) \in Nat
    BY <1>1, <1>2, <2>1, LenProperties
  <2>5. Len(c) \in Nat /\ Len(c) <= Len(a) /\ \A j \in 1 .. Len(c) : a[j] = c[j]
    <3>1. k \in 0 .. Len(s)
      BY <1>1
    <3>2. QED
      BY <1>2, <2>2, <3>1
  <2> HIDE DEF a, b, c
  <2>6. /\ Len(a \o b) = Len(a) + Len(b)
        /\ \A i \in 1 .. Len(a) : (a \o b)[i] = a[i]
    BY <2>4, Parts
  <2>7. Len(c) <= Len(a \o b) /\ \A j \in 1 .. Len(c) : (a \o b)[j] = c[j]
    <3>1. \A j \in 1 .. Len(c) : j \in 1 .. Len(a)
      BY <2>4, <2>5
    <3>2. QED
      BY <2>4, <2>5, <2>6, <3>1
  <2>8. QED
    BY <2>3, <2>7 DEF a, b, c
<1> HIDE DEF S
<1>5. Nat \subseteq S
  BY <1>3, <1>4, SetInduction
<1>6. n - k \in Nat /\ k + (n - k) = n /\ n <= Len(s)
  BY <1>1
<1>7. QED
  BY <1>5, <1>6 DEF S

\* Where the k-th text is in all of them.
LEMMA FlattenAt ==
    ASSUME NEW s \in Texts, NEW k \in 1 .. Len(s)
    PROVE  /\ Len(Upto(s, k)) = Len(Upto(s, k - 1)) + Len(s[k])
           /\ Len(Upto(s, k)) <= Len(FlattenSeq(s))
           /\ \A i \in 1 .. Len(s[k]) : FlattenSeq(s)[Len(Upto(s, k - 1)) + i] = s[k][i]
<1> DEFINE a == Upto(s, k - 1)
           b == s[k]
           c == Upto(s, k)
           f == FlattenSeq(s)
<1>1. Len(s) \in Nat /\ k - 1 \in 0 .. Len(s) /\ k \in 0 .. Len(s) /\ Len(s) \in 0 .. Len(s)
  BY LenProperties DEF Texts
<1>2. a \in Seq(Int) /\ c \in Seq(Int) /\ b \in Seq(Int) /\ c = a \o b /\ f = Upto(s, Len(s))
  BY <1>1, UptoSteps, ElementOfSeq DEF Texts
<1>3. Len(c) <= Len(f) /\ \A j \in 1 .. Len(c) : f[j] = c[j]
  BY <1>1, <1>2, UptoBegins, ZenonT(40)
<1> HIDE DEF a, b, c, f
<1>4. /\ Len(a \o b) = Len(a) + Len(b)
      /\ \A i \in 1 .. Len(b) : (a \o b)[Len(a) + i] = b[i]
  BY <1>2, Parts
<1>5. Len(a) \in Nat /\ Len(b) \in Nat
  BY <1>2, LenProperties
<1>6. \A i \in 1 .. Len(b) : Len(a) + i \in 1 .. Len(c)
  BY <1>2, <1>4, <1>5
<1>7. \A i \in 1 .. Len(b) : f[Len(a) + i] = b[i]
  BY <1>2, <1>3, <1>4, <1>6
<1>8. QED
  BY <1>2, <1>3, <1>4, <1>7 DEF a, b, c, f

-----------------------------------------------------------------------------
(* The bytes of a message                                                  *)

\* The empty line at the end of a header.
LEMMA EndOfHeaderIs == EndOfHeader = <<13, 10, 13, 10>>
<1> DEFINE l == <<13, 10>>
           m == <<13, 10, 13, 10>>
<1>1. l \in Seq(Int) /\ m \in Seq(Int) /\ Len(l) = 2 /\ Len(m) = 4
  OBVIOUS
<1>2. m[1] = 13 /\ m[2] = 10 /\ m[3] = 13 /\ m[4] = 10 /\ l[1] = 13 /\ l[2] = 10
  OBVIOUS
<1> HIDE DEF l, m
<1>3. \A i \in 1 .. Len(l) : m[i] = l[i]
  BY <1>1, <1>2
<1>4. \A i \in 1 .. Len(l) : m[Len(l) + i] = l[i]
  BY <1>1, <1>2
<1>5. Len(m) = Len(l) + Len(l)
  BY <1>1
<1>6. l \o l = m
  BY <1>1, <1>3, <1>4, <1>5, PartsAre
<1>7. QED
  BY <1>6 DEF l, m, EndOfHeader, Line, CR, LF

\* The header, which is one byte and an empty line.
LEMMA HeaderIs == HeaderLines \o EndOfHeader = <<72, 13, 10, 13, 10>>
<1> DEFINE h == <<72>>
           l == <<13, 10, 13, 10>>
           m == <<72, 13, 10, 13, 10>>
<1>1. h \in Seq(Int) /\ l \in Seq(Int) /\ m \in Seq(Int) /\ Len(h) = 1 /\ Len(l) = 4 /\ Len(m) = 5
  OBVIOUS
<1>2. /\ m[1] = 72 /\ m[2] = 13 /\ m[3] = 10 /\ m[4] = 13 /\ m[5] = 10
      /\ h[1] = 72 /\ l[1] = 13 /\ l[2] = 10 /\ l[3] = 13 /\ l[4] = 10
  OBVIOUS
<1> HIDE DEF h, l, m
<1>3. \A i \in 1 .. Len(h) : m[i] = h[i]
  BY <1>1, <1>2
<1>4. \A i \in 1 .. Len(l) : m[Len(h) + i] = l[i]
  BY <1>1, <1>2, SMTT(30)
<1>5. Len(m) = Len(h) + Len(l)
  BY <1>1
<1>6. h \o l = m
  BY <1>1, <1>3, <1>4, <1>5, PartsAre
<1>7. QED
  BY <1>6, EndOfHeaderIs DEF h, l, m, HeaderLines

\* A line that is no size.
LEMMA BadSizeIs == <<90>> \o Line = <<90, 13, 10>>
<1>1. \A i \in 1 .. Len(<<90>>) : <<90, 13, 10>>[i] = <<90>>[i]
  OBVIOUS
<1>2. \A i \in 1 .. Len(<<13, 10>>) : <<90, 13, 10>>[Len(<<90>>) + i] = <<13, 10>>[i]
  OBVIOUS
<1>3. <<90>> \in Seq(Int) /\ <<13, 10>> \in Seq(Int) /\ <<90, 13, 10>> \in Seq(Int)
  OBVIOUS
<1>4. Len(<<90, 13, 10>>) = Len(<<90>>) + Len(<<13, 10>>)
  OBVIOUS
<1>5. <<90>> \o <<13, 10>> = <<90, 13, 10>>
  BY <1>1, <1>2, <1>3, <1>4, PartsAre, ZenonT(40)
<1>6. QED
  BY <1>5 DEF Line, CR, LF

\* No chunks, no bytes.
LEMMA EmptyContent == FlattenSeq(<<>>) = <<>>
  BY DEF FlattenSeq

\* A message is its header of five bytes, its body, and what follows.
LEMMA BytesAre ==
    ASSUME Shape, message.framing # "chunked"
    PROVE  /\ Bytes(message) \in Seq(Int)
           /\ MessageBody \in Seq(Int)
           /\ Len(Bytes(message)) = 5 + Len(MessageBody) + Len(message.following)
           /\ \A i \in 1 .. 5 : Bytes(message)[i] = <<72, 13, 10, 13, 10>>[i]
           /\ \A i \in 1 .. Len(MessageBody) : Bytes(message)[5 + i] = MessageBody[i]
           /\ \A i \in 1 .. Len(message.following) :
                 Bytes(message)[5 + Len(MessageBody) + i] = message.following[i]
           /\ message.framing # "bad_size" => MessageBody = Content(message)
           /\ message.framing = "bad_size" => MessageBody = <<90, 13, 10>>
<1> DEFINE body == MessageBody
           behind == message.following
           head == <<72, 13, 10, 13, 10>>
           front == head \o body
<1>1. Bytes(message) = front \o behind
  BY HeaderIs DEF Bytes, MessageBody
<1>2. message.framing = "bad_size" => body = <<90, 13, 10>>
  BY BadSizeIs DEF Body, MessageBody
<1>3. message.framing # "bad_size" => body = Content(message)
  BY DEF Body, Content, MessageBody
<1>4. body \in Seq(Int)
  <2>1. <<90, 13, 10>> \in Seq(Int)
    OBVIOUS
  <2>2. QED
    BY <1>2, <1>3, <2>1 DEF Shape
<1>5. behind \in Seq(Int) /\ head \in Seq(Int)
  BY DEF Shape
<1>6. Len(head) = 5 /\ head[1] = 72 /\ head[2] = 13 /\ head[3] = 10 /\ head[4] = 13 /\ head[5] = 10
  OBVIOUS
<1> HIDE DEF body, head, behind
<1>7. /\ front \in Seq(Int)
      /\ Len(front) = Len(head) + Len(body)
      /\ \A i \in 1 .. Len(head) : front[i] = head[i]
      /\ \A i \in 1 .. Len(body) : front[Len(head) + i] = body[i]
  BY <1>4, <1>5, Parts
<1> HIDE DEF front
<1>8. /\ front \o behind \in Seq(Int)
      /\ Len(front \o behind) = Len(front) + Len(behind)
      /\ \A i \in 1 .. Len(front) : (front \o behind)[i] = front[i]
      /\ \A i \in 1 .. Len(behind) : (front \o behind)[Len(front) + i] = behind[i]
  BY <1>5, <1>7, Parts
<1>9. Len(body) \in Nat /\ Len(behind) \in Nat
  BY <1>4, <1>5, LenProperties
<1>10. ASSUME NEW i \in 1 .. Len(body) PROVE Bytes(message)[5 + i] = body[i]
  <2>1. 5 + i \in 1 .. Len(front)
    BY <1>6, <1>7, <1>9
  <2>2. (front \o behind)[5 + i] = front[5 + i] /\ front[5 + i] = body[i]
    BY <1>6, <1>7, <1>8, <2>1
  <2>3. QED
    BY <1>1, <2>2
<1>11. ASSUME NEW i \in 1 .. Len(behind) PROVE Bytes(message)[5 + Len(body) + i] = behind[i]
  <2>1. Len(front) + i = 5 + Len(body) + i
    BY <1>6, <1>7, <1>9
  <2>2. QED
    BY <1>1, <1>8, <2>1
<1>12. Bytes(message) \in Seq(Int) /\ Len(Bytes(message)) = 5 + Len(body) + Len(behind)
  BY <1>1, <1>6, <1>7, <1>8
<1>13. ASSUME NEW i \in 1 .. 5 PROVE Bytes(message)[i] = head[i]
  <2>1. i \in 1 .. Len(front)
    BY <1>6, <1>7, <1>9, SMTT(30)
  <2>2. QED
    BY <1>1, <1>6, <1>7, <1>8, <2>1
<1>14. QED
  BY <1>2, <1>3, <1>4, <1>10, <1>11, <1>12, <1>13 DEF body, behind, head

\* A chunk is its size, a line's end, its bytes and another line's end.
LEMMA ChunkIs ==
    ASSUME NEW d \in Seq(Int), Len(d) \in 0 .. 9
    PROVE  /\ Chunk(d) \in Seq(Int) /\ Len(Chunk(d)) = Len(d) + 5
           /\ Chunk(d)[1] = 48 + Len(d) /\ Chunk(d)[2] = 13 /\ Chunk(d)[3] = 10
           /\ \A i \in 1 .. Len(d) : Chunk(d)[3 + i] = d[i]
           /\ Chunk(d)[4 + Len(d)] = 13 /\ Chunk(d)[5 + Len(d)] = 10
<1> DEFINE l == <<13, 10>>
           n == Len(d)
           g == <<48 + n>>
           gl == g \o l
           gld == gl \o d
<1>1. Chunk(d) = gld \o l
  BY DEF Chunk, Digits, Line, CR, LF
<1>2. n \in Nat /\ n \in 0 .. 9
  OBVIOUS
<1>3. l \in Seq(Int) /\ Len(l) = 2 /\ l[1] = 13 /\ l[2] = 10
  OBVIOUS
<1>4. g \in Seq(Int) /\ Len(g) = 1 /\ g[1] = 48 + n
  BY <1>2
<1> HIDE DEF l, g
<1>5. /\ gl \in Seq(Int) /\ Len(gl) = 3
      /\ gl[1] = 48 + n /\ gl[2] = 13 /\ gl[3] = 10
  <2>1. /\ gl \in Seq(Int) /\ Len(gl) = Len(g) + Len(l)
        /\ \A i \in 1 .. Len(g) : gl[i] = g[i]
        /\ \A i \in 1 .. Len(l) : gl[Len(g) + i] = l[i]
    BY <1>3, <1>4, Parts
  <2>2. gl[1 + 1] = l[1] /\ gl[1 + 2] = l[2]
    BY <1>3, <1>4, <2>1
  <2>3. QED
    BY <1>3, <1>4, <2>1, <2>2
<1> HIDE DEF gl
<1>6. /\ gld \in Seq(Int) /\ Len(gld) = 3 + n
      /\ \A i \in 1 .. 3 : gld[i] = gl[i]
      /\ \A i \in 1 .. n : gld[3 + i] = d[i]
  <2>1. /\ gld \in Seq(Int) /\ Len(gld) = Len(gl) + Len(d)
        /\ \A i \in 1 .. Len(gl) : gld[i] = gl[i]
        /\ \A i \in 1 .. Len(d) : gld[Len(gl) + i] = d[i]
    BY <1>5, Parts, ZenonT(40)
  <2> HIDE DEF gld
  <2>2. QED
    BY <1>5, <2>1
<1> HIDE DEF gld
<1>7. /\ gld \o l \in Seq(Int) /\ Len(gld \o l) = Len(gld) + 2
      /\ \A i \in 1 .. Len(gld) : (gld \o l)[i] = gld[i]
      /\ \A i \in 1 .. 2 : (gld \o l)[Len(gld) + i] = l[i]
  <2>1. /\ gld \o l \in Seq(Int) /\ Len(gld \o l) = Len(gld) + Len(l)
        /\ \A i \in 1 .. Len(gld) : (gld \o l)[i] = gld[i]
        /\ \A i \in 1 .. Len(l) : (gld \o l)[Len(gld) + i] = l[i]
    BY <1>3, <1>6, Parts, ZenonT(60)
  <2>2. Len(l) = 2
    BY <1>3
  <2> HIDE DEF l
  <2>3. QED
    BY <2>1, <2>2
<1>8. \A i \in 1 .. n : 3 + i \in 1 .. Len(gld)
  BY <1>2, <1>6
<1>9. 1 \in 1 .. Len(gld) /\ 2 \in 1 .. Len(gld) /\ 3 \in 1 .. Len(gld)
  BY <1>2, <1>6
<1>10. Len(gld) + 1 = 4 + n /\ Len(gld) + 2 = 5 + n
  BY <1>2, <1>6
<1>11. (gld \o l)[Len(gld) + 1] = 13 /\ (gld \o l)[Len(gld) + 2] = 10
  BY <1>3, <1>7
<1> DEFINE all == gld \o l
<1>12. /\ all[1] = 48 + n /\ all[2] = 13 /\ all[3] = 10
  BY <1>5, <1>6, <1>7, <1>9
<1>13. \A i \in 1 .. n : all[3 + i] = d[i]
  BY <1>6, <1>7, <1>8
<1>14. Len(all) = n + 5
  BY <1>2, <1>6, <1>7
<1>15. all \in Seq(Int) /\ all[4 + n] = 13 /\ all[5 + n] = 10
  BY <1>7, <1>10, <1>11
<1>16. Chunk(d) = all
  BY <1>1
<1> HIDE DEF all
<1>17. QED
  BY <1>12, <1>13, <1>14, <1>15, <1>16

\* The chunks are texts, and only the last has no bytes.
LEMMA ChunkSeqIs ==
    ASSUME Chunky
    PROVE  /\ ChunkSeq \in Texts /\ Len(ChunkSeq) = Len(message.contents)
           /\ Len(ChunkSeq) \in Nat
           /\ \A k \in 1 .. Len(ChunkSeq) : ChunkSeq[k] = Chunk(Piece(k - 1))
           /\ \A k \in 0 .. Len(ChunkSeq) :
                Piece(k) \in Seq(Int) /\ Len(Piece(k)) \in 0 .. 9
                /\ (Len(Piece(k)) = 0 <=> k = Len(ChunkSeq))
<1> DEFINE c == message.contents
           n == Len(message.contents)
<1>1. n \in Nat /\ \A i \in 1 .. n : c[i] \in Seq(Int) /\ Len(c[i]) \in 1 .. 9
  BY LenProperties, ElementOfSeq DEF Chunky, Texts
<1>2. \A i \in 1 .. n : Chunk(c[i]) \in Seq(Int)
  BY <1>1, ChunkIs
<1>3. ChunkSeq \in Texts /\ Len(ChunkSeq) = n
  <2>1. ChunkSeq \in [1 .. n -> Seq(Int)]
    BY <1>2 DEF ChunkSeq
  <2>2. ChunkSeq \in Seq(Seq(Int))
    BY <1>1, <2>1
  <2>3. Len(ChunkSeq) = n
    BY <1>1 DEF ChunkSeq
  <2>4. QED
    BY <2>2, <2>3 DEF Texts
<1>4. ASSUME NEW k \in 1 .. n PROVE ChunkSeq[k] = Chunk(Piece(k - 1))
  <2>1. k - 1 < n /\ (k - 1) + 1 = k
    BY <1>1
  <2>2. QED
    BY <2>1 DEF ChunkSeq, Piece
<1>5. ASSUME NEW k \in 0 .. n
      PROVE  Piece(k) \in Seq(Int) /\ Len(Piece(k)) \in 0 .. 9 /\ (Len(Piece(k)) = 0 <=> k = n)
  <2>1. CASE k < n
    <3>1. k + 1 \in 1 .. n /\ k # n
      <4> HIDE DEF n
      <4>1. QED
        BY <1>1, <2>1
    <3>2. Piece(k) = c[k + 1]
      BY <2>1 DEF Piece
    <3>3. Len(Piece(k)) \in 1 .. 9 /\ Piece(k) \in Seq(Int)
      BY <1>1, <3>1, <3>2
    <3>4. k # n
      BY <3>1
    <3> DEFINE p == Len(Piece(k))
    <3>5. p \in 1 .. 9
      BY <3>3
    <3> HIDE DEF n, p
    <3>6. p \in 0 .. 9 /\ p # 0
      BY <3>5
    <3>7. QED
      BY <3>3, <3>4, <3>6 DEF p
  <2>2. CASE ~(k < n)
    <3>1. k = n /\ Piece(k) = <<>>
      BY <1>1, <2>2 DEF Piece
    <3>2. QED
      BY <3>1, EmptySeq
  <2>3. QED
    BY <2>1, <2>2
<1>6. QED
  BY <1>1, <1>3, <1>4, <1>5

\* What is where in a chunked message.
LEMMA ChunkedBytes ==
    ASSUME Chunky
    PROVE  /\ Bytes(message) \in Seq(Int)
           /\ Len(Bytes(message)) \in Nat
           /\ \A i \in 1 .. 5 : Bytes(message)[i] = <<72, 13, 10, 13, 10>>[i]
           /\ \A k \in 0 .. Len(ChunkSeq) :
                /\ Before(k) \in Nat /\ Before(k) >= 5
                /\ Before(k) + Len(Piece(k)) + 5 <= Len(Bytes(message))
                /\ \A i \in 1 .. Len(Piece(k)) + 5 : Bytes(message)[Before(k) + i] = Chunk(Piece(k))[i]
                /\ k < Len(ChunkSeq) => Before(k + 1) = Before(k) + Len(Piece(k)) + 5
           /\ Before(0) = 5
           /\ Len(Bytes(message)) = Before(Len(ChunkSeq)) + 5 + Len(message.following)
           /\ \A i \in 1 .. Len(message.following) :
                 Bytes(message)[Before(Len(ChunkSeq)) + 5 + i] = message.following[i]
<1> DEFINE f == FlattenSeq(ChunkSeq)
           z == Chunk(<<>>)
           fz == f \o z
           h == <<72, 13, 10, 13, 10>>
           hfz == h \o fz
           w == message.following
           n == Len(ChunkSeq)
<1>1. Bytes(message) = hfz \o w
  BY HeaderIs DEF Bytes, Body, ChunkSeq, Chunky
<1>2. ChunkSeq \in Texts /\ n \in Nat
  BY ChunkSeqIs
<1>3. f \in Seq(Int) /\ Upto(ChunkSeq, n) = f /\ Upto(ChunkSeq, 0) = <<>>
  <2>1. n \in 0 .. n
    BY <1>2
  <2>2. QED
    BY <1>2, <2>1, UptoSteps
<1>4. z \in Seq(Int) /\ Len(z) = 5
  <2>1. <<>> \in Seq(Int) /\ Len(<<>>) = 0 /\ 0 \in 0 .. 9
    BY EmptySeq
  <2>2. Chunk(<<>>) \in Seq(Int) /\ Len(Chunk(<<>>)) = Len(<<>>) + 5
    BY <2>1, ChunkIs
  <2>3. QED
    BY <2>1, <2>2
<1>5. h \in Seq(Int) /\ Len(h) = 5 /\ w \in Seq(Int)
  BY DEF Chunky
<1>6. /\ \A k \in 0 .. n : Before(k) \in Nat /\ Before(k) >= 5
      /\ Before(0) = 5 /\ Before(n) = 5 + Len(f)
  <2>1. \A k \in 0 .. n : Len(Upto(ChunkSeq, k)) \in Nat
    BY <1>2, UptoSteps, LenProperties
  <2>2. Len(<<>>) = 0
    OBVIOUS
  <2> HIDE DEF n, f
  <2>3. QED
    BY <1>2, <1>3, <2>1, <2>2 DEF Before
<1>7. ASSUME NEW k \in 0 .. n, k < n
      PROVE  /\ Before(k + 1) = Before(k) + Len(Piece(k)) + 5
             /\ Before(k) + Len(Piece(k)) <= Len(f)
             /\ \A i \in 1 .. Len(Piece(k)) + 5 : f[(Before(k) - 5) + i] = Chunk(Piece(k))[i]
  <2>1. k + 1 \in 1 .. n /\ (k + 1) - 1 = k
    BY <1>2, <1>7
  <2>2. /\ Len(Upto(ChunkSeq, k + 1)) = Len(Upto(ChunkSeq, k)) + Len(ChunkSeq[k + 1])
        /\ Len(Upto(ChunkSeq, k + 1)) <= Len(f)
        /\ \A i \in 1 .. Len(ChunkSeq[k + 1]) :
              f[Len(Upto(ChunkSeq, k)) + i] = ChunkSeq[k + 1][i]
    <3>1. \A j \in 1 .. n :
            /\ Len(Upto(ChunkSeq, j)) = Len(Upto(ChunkSeq, j - 1)) + Len(ChunkSeq[j])
            /\ Len(Upto(ChunkSeq, j)) <= Len(f)
            /\ \A i \in 1 .. Len(ChunkSeq[j]) :
                  f[Len(Upto(ChunkSeq, j - 1)) + i] = ChunkSeq[j][i]
      BY <1>2, FlattenAt
    <3> DEFINE j == k + 1
    <3>2. j \in 1 .. n /\ j - 1 = k
      BY <2>1
    <3> HIDE DEF n, f, j
    <3>3. QED
      BY <3>1, <3>2 DEF j
  <2>3. ChunkSeq[k + 1] = Chunk(Piece(k))
    BY <2>1, ChunkSeqIs
  <2>4. Len(Chunk(Piece(k))) = Len(Piece(k)) + 5 /\ Len(Piece(k)) \in Nat
    BY ChunkSeqIs, ChunkIs
  <2>5. Before(k) - 5 = Len(Upto(ChunkSeq, k)) /\ Len(Upto(ChunkSeq, k)) \in Nat
    <3>1. Len(Upto(ChunkSeq, k)) \in Nat
      BY <1>2, UptoSteps, LenProperties
    <3>2. QED
      BY <3>1 DEF Before
  <2> HIDE DEF n, f
  <2>6. Len(Upto(ChunkSeq, k + 1)) = Before(k + 1) - 5
    <3>1. k + 1 \in 0 .. n
      BY <1>2, <2>1
    <3>2. Len(Upto(ChunkSeq, k + 1)) \in Nat
      BY <1>2, <3>1, UptoSteps, LenProperties DEF n
    <3>3. QED
      BY <3>2 DEF Before
  <2>7. Before(k) \in Nat /\ Before(k + 1) \in Nat /\ Len(f) \in Nat
    BY <1>2, <1>3, <1>6, <2>1, LenProperties
  <2>8. /\ Before(k + 1) - 5 = (Before(k) - 5) + (Len(Piece(k)) + 5)
        /\ Before(k + 1) - 5 <= Len(f)
    BY <2>2, <2>3, <2>4, <2>5, <2>6
  <2>9. \A i \in 1 .. Len(Piece(k)) + 5 : f[(Before(k) - 5) + i] = Chunk(Piece(k))[i]
    BY <2>2, <2>3, <2>4, <2>5
  <2> DEFINE x == Before(k)
             y == Before(k + 1)
             p == Len(Piece(k))
             m == Len(f)
  <2>10. y - 5 = (x - 5) + (p + 5) /\ y - 5 <= m /\ x \in Nat /\ y \in Nat /\ p \in Nat /\ m \in Nat
    BY <2>4, <2>7, <2>8
  <2> HIDE DEF x, y, p, m
  <2>11. y = x + p + 5 /\ x + p <= m
    BY <2>10
  <2>12. QED
    BY <2>9, <2>11 DEF x, y, p, m
<1>8. Len(f) \in Nat /\ Len(w) \in Nat
  BY <1>3, <1>5, LenProperties
<1> HIDE DEF f, z, h, w, n
<1>9. /\ fz \in Seq(Int) /\ Len(fz) = Len(f) + 5
      /\ \A i \in 1 .. Len(f) : fz[i] = f[i]
      /\ \A i \in 1 .. 5 : fz[Len(f) + i] = z[i]
  <2>1. /\ fz \in Seq(Int) /\ Len(fz) = Len(f) + Len(z)
        /\ \A i \in 1 .. Len(f) : fz[i] = f[i]
        /\ \A i \in 1 .. Len(z) : fz[Len(f) + i] = z[i]
    BY <1>3, <1>4, Parts
  <2> HIDE DEF fz
  <2>2. QED
    BY <1>4, <2>1
<1> HIDE DEF fz
<1>10. /\ hfz \in Seq(Int) /\ Len(hfz) = 5 + Len(fz)
       /\ \A i \in 1 .. 5 : hfz[i] = h[i]
       /\ \A i \in 1 .. Len(fz) : hfz[5 + i] = fz[i]
  <2>1. /\ hfz \in Seq(Int) /\ Len(hfz) = Len(h) + Len(fz)
        /\ \A i \in 1 .. Len(h) : hfz[i] = h[i]
        /\ \A i \in 1 .. Len(fz) : hfz[Len(h) + i] = fz[i]
    BY <1>5, <1>9, Parts, Zenon
  <2> HIDE DEF hfz
  <2>2. QED
    BY <1>5, <2>1
<1> HIDE DEF hfz
<1>11. /\ hfz \o w \in Seq(Int) /\ Len(hfz \o w) = Len(hfz) + Len(w)
       /\ \A i \in 1 .. Len(hfz) : (hfz \o w)[i] = hfz[i]
       /\ \A i \in 1 .. Len(w) : (hfz \o w)[Len(hfz) + i] = w[i]
  BY <1>5, <1>10, Parts, ZenonT(40)
<1>12. Len(hfz) = 10 + Len(f)
  BY <1>8, <1>9, <1>10
<1>13. /\ Bytes(message) \in Seq(Int) /\ Len(Bytes(message)) = 10 + Len(f) + Len(w)
       /\ Len(Bytes(message)) \in Nat
  BY <1>1, <1>8, <1>11, <1>12
<1>14. \A i \in 1 .. 5 : Bytes(message)[i] = h[i]
  <2>1. \A i \in 1 .. 5 : i \in 1 .. Len(hfz)
    BY <1>8, <1>12
  <2>2. QED
    BY <1>1, <1>10, <1>11, <2>1
<1>15. \A i \in 1 .. Len(f) + 5 : Bytes(message)[5 + i] = fz[i]
  <2>1. \A i \in 1 .. Len(f) + 5 : 5 + i \in 1 .. Len(hfz) /\ i \in 1 .. Len(fz)
    BY <1>8, <1>9, <1>12
  <2>2. QED
    BY <1>1, <1>10, <1>11, <2>1
<1>16. ASSUME NEW k \in 0 .. n, k < n, NEW i \in 1 .. Len(Piece(k)) + 5
       PROVE  Bytes(message)[Before(k) + i] = Chunk(Piece(k))[i]
  <2>1. Len(Piece(k)) \in Nat /\ Before(k) \in Nat /\ Before(k) >= 5
    BY <1>6, ChunkSeqIs DEF n
  <2>2. (Before(k) - 5) + i \in 1 .. Len(f) /\ 5 + ((Before(k) - 5) + i) = Before(k) + i
    BY <1>7, <1>8, <1>16, <2>1
  <2>3. (Before(k) - 5) + i \in 1 .. Len(f) + 5
    BY <1>8, <2>2
  <2>4. Bytes(message)[5 + ((Before(k) - 5) + i)] = fz[(Before(k) - 5) + i]
    BY <1>15, <2>3
  <2>5. fz[(Before(k) - 5) + i] = f[(Before(k) - 5) + i]
    BY <1>9, <2>2
  <2>6. QED
    BY <1>7, <1>16, <2>2, <2>4, <2>5
<1>17. ASSUME NEW i \in 1 .. 5 PROVE Bytes(message)[Before(n) + i] = z[i]
  <2>1. Before(n) + i = 5 + (Len(f) + i) /\ Len(f) + i \in 1 .. Len(f) + 5
    BY <1>6, <1>8
  <2>2. QED
    BY <1>9, <1>15, <2>1
<1>18. Len(Piece(n)) = 0 /\ Piece(n) = <<>>
  <2>1. n \in 0 .. n /\ ~(n < n) /\ n = Len(message.contents)
    BY <1>2, ChunkSeqIs DEF n
  <2>2. QED
    BY <2>1 DEF Piece
<1>19. \A i \in 1 .. Len(w) : Bytes(message)[Before(n) + 5 + i] = w[i]
  <2>1. Before(n) + 5 = Len(hfz)
    BY <1>6, <1>8, <1>12
  <2>2. QED
    BY <1>1, <1>11, <2>1
<1>20. ASSUME NEW k \in 0 .. n
       PROVE  /\ Before(k) + Len(Piece(k)) + 5 <= Len(Bytes(message))
              /\ \A i \in 1 .. Len(Piece(k)) + 5 : Bytes(message)[Before(k) + i] = Chunk(Piece(k))[i]
  <2>0. Len(Piece(k)) \in Nat /\ Before(k) \in Nat
    BY <1>6, ChunkSeqIs DEF n
  <2>1. CASE k < n
    <3>1. Before(k) + Len(Piece(k)) + 5 <= Len(Bytes(message))
      BY <1>7, <1>8, <1>13, <2>0, <2>1
    <3>2. QED
      BY <1>16, <2>1, <3>1
  <2>2. CASE ~(k < n)
    <3>1. k = n
      BY <1>2, <2>2
    <3>2. Before(n) + Len(Piece(n)) + 5 <= Len(Bytes(message))
      BY <1>6, <1>8, <1>13, <1>18
    <3>3. \A i \in 1 .. Len(Piece(n)) + 5 : Bytes(message)[Before(n) + i] = Chunk(Piece(n))[i]
      BY <1>17, <1>18 DEF z
    <3>4. QED
      BY <3>1, <3>2, <3>3
  <2>3. QED
    BY <2>1, <2>2
<1>21. Len(Bytes(message)) = Before(n) + 5 + Len(w)
  BY <1>6, <1>8, <1>13
<1>22. QED
  BY <1>6, <1>7, <1>13, <1>14, <1>19, <1>20, <1>21 DEF n, w, h

\* What is known of the chunks, counted by the content's.
LEMMA PieceIs ==
    ASSUME Chunky
    PROVE  /\ Len(message.contents) \in Nat
           /\ \A k \in 0 .. Len(message.contents) :
                /\ k \in 0 .. Len(ChunkSeq)
                /\ Piece(k) \in Seq(Int) /\ Len(Piece(k)) \in 0 .. 9
                /\ Len(Piece(k)) = 0 <=> k = Len(message.contents)
                /\ Before(k) \in Nat /\ Before(k) >= 5
                /\ Before(k) + Len(Piece(k)) + 5 <= Len(Bytes(message))
                /\ k < Len(message.contents) => Before(k + 1) = Before(k) + Len(Piece(k)) + 5
<1>1. Len(ChunkSeq) = Len(message.contents) /\ Len(ChunkSeq) \in Nat
  BY ChunkSeqIs
<1>2. ASSUME NEW k \in 0 .. Len(ChunkSeq)
      PROVE  /\ Piece(k) \in Seq(Int) /\ Len(Piece(k)) \in 0 .. 9
             /\ Len(Piece(k)) = 0 <=> k = Len(ChunkSeq)
             /\ Before(k) \in Nat /\ Before(k) >= 5
             /\ Before(k) + Len(Piece(k)) + 5 <= Len(Bytes(message))
             /\ k < Len(ChunkSeq) => Before(k + 1) = Before(k) + Len(Piece(k)) + 5
  <2>1. Piece(k) \in Seq(Int) /\ Len(Piece(k)) \in 0 .. 9 /\ (Len(Piece(k)) = 0 <=> k = Len(ChunkSeq))
    BY ChunkSeqIs
  <2>2. /\ Before(k) \in Nat /\ Before(k) >= 5
        /\ Before(k) + Len(Piece(k)) + 5 <= Len(Bytes(message))
        /\ k < Len(ChunkSeq) => Before(k + 1) = Before(k) + Len(Piece(k)) + 5
    BY ChunkedBytes
  <2>3. QED
    BY <2>1, <2>2
<1>3. QED
  BY <1>1, <1>2

\* What was put aside is not longer than what was read.
LEMMA AsideBefore ==
    ASSUME Chunky
    PROVE  \A k \in 0 .. Len(message.contents) :
              /\ Upto(message.contents, k) \in Seq(Int)
              /\ Len(Upto(message.contents, k)) \in Nat
              /\ Len(Upto(message.contents, k)) <= Before(k)
              /\ k < Len(message.contents) =>
                   Upto(message.contents, k + 1) = Upto(message.contents, k) \o Piece(k)
<1> DEFINE c == message.contents
           n == Len(message.contents)
           S == {k \in Nat : k <= n => Len(Upto(c, k)) <= Before(k)}
<1>1. c \in Texts /\ n \in Nat /\ n = Len(ChunkSeq)
  BY ChunkSeqIs, LenProperties DEF Chunky, Texts
<1>2. \A k \in 0 .. n : Upto(c, k) \in Seq(Int) /\ Len(Upto(c, k)) \in Nat
  BY <1>1, UptoSteps, LenProperties
<1>3. ASSUME NEW k \in 0 .. n, k < n
      PROVE  Upto(c, k + 1) = Upto(c, k) \o Piece(k)
  <2> DEFINE j == k + 1
  <2>1. j \in 1 .. n /\ j - 1 = k
    BY <1>1, <1>3
  <2>2. Piece(k) = c[j]
    BY <1>3 DEF Piece
  <2> HIDE DEF c, n, j
  <2>3. Upto(c, j) = Upto(c, j - 1) \o c[j]
    BY <1>1, <2>1, UptoSteps DEF n, c
  <2>4. QED
    BY <2>1, <2>2, <2>3 DEF j
<1>4. \A k \in 0 .. n : Piece(k) \in Seq(Int) /\ Len(Piece(k)) \in Nat /\ Before(k) \in Nat
  BY <1>1, ChunkSeqIs, ChunkedBytes
<1>5. 0 \in S
  <2>1. Upto(c, 0) = <<>> /\ Before(0) = 5
    BY <1>1, UptoSteps, ChunkedBytes
  <2>2. QED
    BY <2>1
<1>6. ASSUME NEW k \in Nat, k \in S PROVE k + 1 \in S
  <2> SUFFICES ASSUME k + 1 <= n PROVE Len(Upto(c, k + 1)) <= Before(k + 1)
    OBVIOUS
  <2>1. k \in 0 .. n /\ k < n /\ k <= n
    BY <1>1
  <2>2. Len(Upto(c, k)) <= Before(k)
    BY <1>6, <2>1
  <2>3. Upto(c, k + 1) = Upto(c, k) \o Piece(k)
    BY <1>3, <2>1
  <2>4. Len(Upto(c, k) \o Piece(k)) = Len(Upto(c, k)) + Len(Piece(k))
    BY <1>2, <1>4, <2>1, Parts
  <2>5. Before(k + 1) = Before(k) + Len(Piece(k)) + 5
    BY <1>1, <2>1, ChunkedBytes
  <2>6. Len(Upto(c, k)) \in Nat /\ Len(Piece(k)) \in Nat /\ Before(k) \in Nat
    BY <1>2, <1>4, <2>1
  <2>7. QED
    BY <2>2, <2>3, <2>4, <2>5, <2>6
<1> HIDE DEF S
<1>7. Nat \subseteq S
  BY <1>5, <1>6, SetInduction
<1>8. \A k \in 0 .. n : Len(Upto(c, k)) <= Before(k)
  <2>1. \A k \in 0 .. n : k \in S /\ k <= n
    BY <1>1, <1>7
  <2>2. QED
    BY <2>1 DEF S
<1>9. QED
  BY <1>2, <1>3, <1>8

-----------------------------------------------------------------------------
(* What arrives, and where a delimiter ends                                *)

\* Nothing has come yet, and nothing is known of the message.
LEMMA IInvInit == Init => IInv
<1> SUFFICES ASSUME Init PROVE IInv
  OBVIOUS
<1>1. /\ wire = SubSeq(Bytes(message), 1, message.sent)
      /\ stage = "header" /\ buf = <<>> /\ chunks = <<>> /\ outcome = "none"
  BY DEF Init, FramingInit
<1>2. Max(Limits) \in Limits
  <2>1. \E longest \in Limits : \A other \in Limits : longest >= other
    BY SizesAssumption
  <2>2. QED
    BY <2>1 DEF Max
<1>3. limit \in Nat
  BY <1>2, SizesAssumption DEF Init, FramingInit
<1>4. message \in Messages \/ message = Silence
  BY DEF Init, FramingInit
<1>5. message = Silence => /\ message.framing = "none" /\ message.contents = <<>>
                          /\ message.following = <<>> /\ message.sent = 0
  BY DEF Silence
<1>6. /\ message.framing \in Framings
      /\ message.framing \in {"none", "bad_size"} => message.contents = <<>>
      /\ message.framing \in {"close", "bad_length", "bad_size"} => message.following = <<>>
  <2>1. CASE message \in Messages
    BY <2>1 DEF Messages
  <2>2. CASE message = Silence
    BY <1>5, <2>2 DEF Framings
  <2>3. QED
    BY <1>4, <2>1, <2>2
<1>7. /\ message.contents \in Texts
      /\ \A i \in 1 .. Len(message.contents) : Len(message.contents[i]) \in 1 .. 9
      /\ message.following \in Seq(Int)
      /\ message.sent \in Nat
  <2>1. CASE message \in Messages
    <3>1. message.contents \in Contents /\ message.following \in Pipelined /\ message.sent \in 0 .. MaxSent
      BY <2>1 DEF Messages
    <3>2. QED
      BY <3>1, ContentsAssumption, PipelinedAssumption, SizesAssumption DEF Texts
  <2>2. CASE message = Silence
    <3>1. <<>> \in Texts /\ <<>> \in Seq(Int) /\ Len(<<>>) = 0
      BY EmptySeq DEF Texts
    <3>2. /\ message.contents = <<>> /\ Len(message.contents) = 0
          /\ message.following = <<>> /\ message.sent = 0
      BY <1>5, <2>2, <3>1
    <3>3. \A i \in 1 .. Len(message.contents) : Len(message.contents[i]) \in 1 .. 9
      BY <3>2
    <3>4. message.contents \in Texts /\ message.following \in Seq(Int) /\ message.sent \in Nat
      BY <3>1, <3>2
    <3>5. QED
      BY <3>3, <3>4
  <2>3. QED
    BY <1>4, <2>1, <2>2
<1>8. Content(message) \in Seq(Int)
  <2>1. Len(message.contents) \in 0 .. Len(message.contents)
    BY <1>7, LenProperties DEF Texts
  <2>2. QED
    BY <1>7, <2>1, UptoSteps DEF Content
<1>9. Shape
  BY <1>6, <1>7, <1>8 DEF Shape
<1>10. message.sent <= Len(Bytes(message))
  <2>1. CASE message \in Messages
    BY <2>1 DEF Messages
  <2>2. CASE message = Silence
    <3>1. message.framing # "chunked" /\ message.sent = 0
      BY <1>5, <2>2
    <3>2. Len(Bytes(message)) \in Nat
      BY <1>9, <3>1, BytesAre, LenProperties
    <3>3. QED
      BY <3>1, <3>2
  <2>3. QED
    BY <1>4, <2>1, <2>2
<1>11. message.framing = "chunked" => Chunky
  BY <1>7, <1>10 DEF Chunky
<1>12. Bytes(message) \in Seq(Int)
  BY <1>9, <1>11, BytesAre, ChunkedBytes
<1>13. StreamedFrom(0)
  <2>1. message.sent \in 0 .. Len(Bytes(message))
    BY <1>7, <1>10, <1>12, LenProperties
  <2>2. /\ wire \in Seq(Int) /\ Len(wire) = message.sent
        /\ \A i \in 1 .. message.sent : wire[i] = Bytes(message)[i]
    BY <1>1, <1>12, <2>1, FrontIs
  <2>3. buf \in Seq(Int) /\ Len(buf) = 0
    BY <1>1, EmptySeq
  <2>4. 0 + 0 + Len(wire) = message.sent /\ \A i \in 1 .. Len(wire) : wire[i] = Bytes(message)[0 + 0 + i]
    BY <1>7, <2>2
  <2>5. QED
    BY <1>7, <1>10, <2>2, <2>3, <2>4 DEF StreamedFrom
<1>14. Len(buf) <= limit
  BY <1>1, <1>3
<1>15. Reading /\ ChunkReading
  BY <1>1, <1>3, <1>13, <1>14 DEF Reading, Streamed, Waits, Dropped, ChunkReading, ChunkWaits
<1>16. ContentAsSent
  BY <1>1 DEF ContentAsSent
<1>17. QED
  BY <1>9, <1>11, <1>15, <1>16 DEF IInv

\* A piece that arrives goes from the wire to the end of the buffer.
LEMMA ArrivesStreams ==
    ASSUME NEW d \in Nat, StreamedFrom(d), limit \in Nat, Len(buf) <= limit, Arrives
    PROVE  /\ StreamedFrom(d)' /\ Len(buf') <= limit
           /\ stage \in {"content", "chunk"} /\ need \in Nat =>
                need' \in Nat /\ need' + Len(buf') = need + Len(buf)
<1>1. PICK n \in 1 .. Len(wire) :
        /\ n <= limit - Len(buf)
        /\ stage \in {"content", "chunk"} => n <= need
        /\ buf' = buf \o SubSeq(wire, 1, n)
        /\ wire' = From(wire, n + 1)
        /\ need' = IF stage \in {"content", "chunk"} THEN need - n ELSE need
  BY DEF Arrives
<1> DEFINE piece == SubSeq(wire, 1, n)
<1>2. message' = message /\ Bytes(message)' = Bytes(message)
  BY DEF Arrives, Bytes, Body
<1>3. buf \in Seq(Int) /\ wire \in Seq(Int) /\ Len(buf) \in Nat /\ Len(wire) \in Nat
  BY LenProperties DEF StreamedFrom
<1>4. n \in 0 .. Len(wire)
  BY <1>3
<1>5. piece \in Seq(Int) /\ Len(piece) = n /\ \A i \in 1 .. n : piece[i] = wire[i]
  BY <1>3, <1>4, FrontIs
<1> HIDE DEF piece
<1>6. /\ wire' \in Seq(Int) /\ Len(wire') = Len(wire) - n
      /\ \A i \in 1 .. Len(wire) - n : wire'[i] = wire[n + i]
  BY <1>1, <1>3, <1>4, FromIs
<1>7. /\ buf' \in Seq(Int) /\ Len(buf') = Len(buf) + n
      /\ \A i \in 1 .. Len(buf) : buf'[i] = buf[i]
      /\ \A i \in 1 .. n : buf'[Len(buf) + i] = piece[i]
  BY <1>1, <1>3, <1>5, Parts DEF piece
<1>8. ASSUME NEW i \in 1 .. Len(buf') PROVE buf'[i] = Bytes(message)[d + i]
  <2>1. CASE i <= Len(buf)
    <3>1. i \in 1 .. Len(buf)
      BY <1>3, <2>1
    <3>2. buf'[i] = buf[i] /\ buf[i] = Bytes(message)[d + i]
      BY <1>7, <3>1 DEF StreamedFrom
    <3>3. QED
      BY <3>2
  <2>2. CASE i > Len(buf)
    <3>1. PICK k \in 1 .. n : i = Len(buf) + k
      <4>1. i - Len(buf) \in 1 .. n /\ i = Len(buf) + (i - Len(buf))
        BY <1>3, <1>7, <2>2
      <4>2. QED
        BY <4>1
    <3>2. buf'[i] = wire[k] /\ k \in 1 .. Len(wire)
      <4>1. k \in 1 .. Len(wire)
        BY <1>3
      <4>2. buf'[Len(buf) + k] = piece[k] /\ piece[k] = wire[k]
        BY <1>5, <1>7
      <4>3. QED
        BY <3>1, <4>1, <4>2
    <3>3. wire[k] = Bytes(message)[d + Len(buf) + k]
      BY <3>2 DEF StreamedFrom
    <3>4. d + Len(buf) + k = d + i
      BY <1>3, <3>1
    <3>5. QED
      BY <3>2, <3>3, <3>4
  <2>3. QED
    BY <1>3, <1>7, <2>1, <2>2
<1>9. ASSUME NEW i \in 1 .. Len(wire') PROVE wire'[i] = Bytes(message)[d + Len(buf') + i]
  <2>1. n + i \in 1 .. Len(wire) /\ wire'[i] = wire[n + i]
    <3>1. i \in 1 .. Len(wire) - n
      BY <1>6
    <3>2. n + i \in 1 .. Len(wire)
      BY <1>3, <3>1
    <3>3. QED
      BY <1>6, <3>1, <3>2
  <2>2. wire[n + i] = Bytes(message)[d + Len(buf) + (n + i)]
    BY <2>1 DEF StreamedFrom
  <2>3. d + Len(buf) + (n + i) = d + Len(buf') + i
    BY <1>3, <1>6, <1>7
  <2>4. QED
    BY <2>1, <2>2, <2>3
<1>10. d + Len(buf') + Len(wire') = message.sent
  BY <1>3, <1>6, <1>7 DEF StreamedFrom
<1>11. StreamedFrom(d)'
  BY <1>2, <1>6, <1>7, <1>8, <1>9, <1>10 DEF StreamedFrom
<1>12. Len(buf') <= limit
  BY <1>1, <1>3, <1>7
<1>13. ASSUME stage \in {"content", "chunk"}, need \in Nat
       PROVE  need' \in Nat /\ need' + Len(buf') = need + Len(buf)
  BY <1>1, <1>3, <1>7, <1>13
<1>14. QED
  BY <1>11, <1>12, <1>13

\* The empty line is found behind the first byte and nowhere before.
LEMMA HeaderDelimited ==
    ASSUME buf \in Seq(Int), stage = "header",
           \A i \in 1 .. 5 : i <= Len(buf) => buf[i] = <<72, 13, 10, 13, 10>>[i]
    PROVE  /\ Len(buf) >= 5 => Ends # {}
           /\ Ends # {} => Len(buf) >= 5 /\ Min(Ends) = 5
<1> DEFINE e == <<13, 10, 13, 10>>
           at(i) == SubSeq(buf, i - 4 + 1, i)
<1>1. e \in Seq(Int) /\ Len(e) = 4 /\ e[1] = 13 /\ e[2] = 10 /\ e[3] = 13 /\ e[4] = 10
  OBVIOUS
<1>2. Delimiter = e
  BY EndOfHeaderIs DEF Delimiter
<1> HIDE DEF e
<1>3. Ends = {i \in 4 .. Len(buf) : at(i) = e}
  BY <1>1, <1>2 DEF Ends
<1>4. buf \in Seq(Int) /\ Len(buf) \in Nat /\ \A i \in 1 .. Len(buf) : buf[i] \in Int
  BY LenProperties, ElementOfSeq
<1>5. ASSUME Len(buf) >= 5 PROVE at(5) = e
  <2>1. \A i \in 2 .. 5 : buf[i] \in Int
    BY <1>4, <1>5, SMTT(30)
  <2>2. /\ at(5) \in Seq(Int) /\ Len(at(5)) = 4
        /\ \A i \in 1 .. 4 : at(5)[i] = buf[2 + i - 1]
    BY <2>1, SubSeqProperties
  <2>3. buf[2] = 13 /\ buf[3] = 10 /\ buf[4] = 13 /\ buf[5] = 10
    BY <1>4, <1>5
  <2>4. \A i \in 1 .. 4 : at(5)[i] = e[i]
    BY <1>1, <2>2, <2>3, SMTT(30)
  <2>5. QED
    BY <1>1, <2>2, <2>4, SeqEqual, SMTT(30)
<1>6. ASSUME Len(buf) >= 4 PROVE at(4) # e
  <2>1. \A i \in 1 .. 4 : buf[i] \in Int
    BY <1>4, <1>6
  <2>2. \A i \in 1 .. 4 : at(4)[i] = buf[1 + i - 1]
    BY <2>1, SubSeqProperties
  <2>3. at(4)[1] = 72
    BY <1>4, <1>6, <2>2
  <2>4. QED
    BY <1>1, <2>3
<1> HIDE DEF at
<1>a. ASSUME Len(buf) >= 5 PROVE 5 \in Ends
  <2>1. 5 \in 4 .. Len(buf)
    BY <1>4, <1>a
  <2>2. QED
    BY <1>3, <1>5, <1>a, <2>1
<1>b. 4 \notin Ends
  <2>1. ASSUME 4 \in Ends PROVE FALSE
    <3>1. 4 \in 4 .. Len(buf) /\ at(4) = e
      BY <1>3, <2>1
    <3>2. Len(buf) >= 4
      BY <1>4, <3>1
    <3>3. QED
      BY <1>6, <3>1, <3>2
  <2>2. QED
    BY <2>1
<1>7. ASSUME Ends # {} PROVE Len(buf) >= 5 /\ Min(Ends) = 5
  <2>1. \A i \in Ends : i >= 5 /\ i \in Int /\ i <= Len(buf)
    BY <1>3, <1>4, <1>b
  <2>2. Len(buf) >= 5
    BY <1>4, <1>7, <2>1
  <2>3. 5 \in Ends
    BY <1>a, <2>2
  <2>4. \A x \in Ends : (\A y \in Ends : x =< y) => x = 5
    BY <2>1, <2>3
  <2>5. QED
    BY <2>1, <2>2, <2>3, <2>4 DEF Min
<1>8. QED
  BY <1>a, <1>7

\* A line of one byte ends with the third.
LEMMA SizeDelimited ==
    ASSUME buf \in Seq(Int), stage = "size",
           Len(buf) >= 1 => buf[1] # 13,
           Len(buf) >= 2 => buf[2] = 13,
           Len(buf) >= 3 => buf[3] = 10
    PROVE  /\ Len(buf) >= 3 => Ends # {}
           /\ Ends # {} => Len(buf) >= 3 /\ Min(Ends) = 3
<1> DEFINE e == <<13, 10>>
           at(i) == SubSeq(buf, i - 2 + 1, i)
<1>1. e \in Seq(Int) /\ Len(e) = 2 /\ e[1] = 13 /\ e[2] = 10
  OBVIOUS
<1>2. Delimiter = e
  BY DEF Delimiter, Line, CR, LF
<1> HIDE DEF e
<1>3. Ends = {i \in 2 .. Len(buf) : at(i) = e}
  BY <1>1, <1>2 DEF Ends
<1>4. buf \in Seq(Int) /\ Len(buf) \in Nat /\ \A i \in 1 .. Len(buf) : buf[i] \in Int
  BY LenProperties, ElementOfSeq
<1>5. Len(buf) >= 3 => 3 \in Ends
  <2> SUFFICES ASSUME Len(buf) >= 3 PROVE at(3) = e
    BY <1>3, <1>4
  <2>1. \A i \in 2 .. 3 : buf[i] \in Int
    BY <1>4
  <2>2. /\ at(3) \in Seq(Int) /\ Len(at(3)) = 2
        /\ \A i \in 1 .. 2 : at(3)[i] = buf[2 + i - 1]
    BY <2>1, SubSeqProperties
  <2>3. buf[2] = 13 /\ buf[3] = 10
    BY <1>4
  <2>4. \A i \in 1 .. 2 : at(3)[i] = e[i]
    BY <1>1, <2>2, <2>3
  <2>5. QED
    BY <1>1, <2>2, <2>4, SeqEqual
<1>6. 2 \notin Ends
  <2> SUFFICES ASSUME Len(buf) >= 2, at(2) = e PROVE FALSE
    BY <1>3, <1>4
  <2>1. \A i \in 1 .. 2 : buf[i] \in Int
    BY <1>4
  <2>2. \A i \in 1 .. 2 : at(2)[i] = buf[1 + i - 1]
    BY <2>1, SubSeqProperties
  <2>3. at(2)[1] = buf[1]
    BY <1>4, <2>2
  <2>4. QED
    BY <1>1, <1>4, <2>3
<1> HIDE DEF at
<1>7. ASSUME Ends # {} PROVE Len(buf) >= 3 /\ Min(Ends) = 3
  <2>1. \A i \in Ends : i >= 3 /\ i \in Int /\ i <= Len(buf)
    BY <1>3, <1>4, <1>6
  <2>2. Len(buf) >= 3
    BY <1>4, <1>7, <2>1
  <2>3. 3 \in Ends
    BY <1>5, <2>2
  <2>4. \A x \in Ends : (\A y \in Ends : x =< y) => x = 3
    BY <2>1, <2>3
  <2>5. QED
    BY <2>1, <2>2, <2>3, <2>4 DEF Min
<1>8. QED
  BY <1>5, <1>7

\* A piece of a message that is not chunked arrives.
LEMMA ArrivesStep ==
    ASSUME Reading, Arrives
    PROVE  Reading'
<1>1. /\ UNCHANGED <<message, limit, stage>>
      /\ Content(message)' = Content(message)
      /\ Dropped' = Dropped
  BY DEF Arrives, Content, Dropped
<1>2. PICK d \in Nat : d = Dropped
  BY DEF Dropped
<1>3. StreamedFrom(d) /\ limit \in Nat /\ Len(buf) <= limit
  BY <1>2 DEF Reading, Streamed
<1>4. /\ StreamedFrom(d)' /\ Len(buf') <= limit
      /\ stage \in {"content", "chunk"} /\ need \in Nat =>
           need' \in Nat /\ need' + Len(buf') = need + Len(buf)
  BY <1>3, ArrivesStreams
<1>5. Streamed'
  BY <1>1, <1>2, <1>4 DEF Streamed, StreamedFrom
<1>6. Waits'
  BY <1>1, <1>4 DEF Reading, Waits
<1>7. QED
  BY <1>1, <1>3, <1>4, <1>5, <1>6 DEF Reading

\* The header's end is found in a message that is not chunked.
LEMMA HeaderEnds ==
    ASSUME Shape, Reading, message.framing # "chunked", stage = "header"
    PROVE  /\ Len(buf) >= 5 => Ends # {}
           /\ Ends # {} => Len(buf) >= 5 /\ Min(Ends) = 5
<1>1. buf \in Seq(Int) /\ Len(buf) \in Nat /\ \A i \in 1 .. Len(buf) : buf[i] = Bytes(message)[0 + i]
  BY LenProperties DEF Reading, Streamed, StreamedFrom, Dropped
<1>2. \A i \in 1 .. 5 : Bytes(message)[i] = <<72, 13, 10, 13, 10>>[i]
  BY BytesAre
<1>3. ASSUME NEW i \in 1 .. 5, i <= Len(buf) PROVE buf[i] = Bytes(message)[i]
  <2>1. i \in 1 .. Len(buf) /\ 0 + i = i
    BY <1>1, <1>3
  <2>2. QED
    BY <1>1, <2>1
<1>4. \A i \in 1 .. 5 : i <= Len(buf) => buf[i] = <<72, 13, 10, 13, 10>>[i]
  BY <1>2, <1>3
<1>5. QED
  BY <1>1, <1>4, HeaderDelimited

\* The line that is no size begins with a "Z".
LEMMA SizeEnds ==
    ASSUME Shape, Reading, stage = "size"
    PROVE  /\ Dropped + Len(buf) = Len(Bytes(message)) => Ends # {}
           /\ Ends # {} => buf[1] = 90
<1>1. message.framing = "bad_size"
  BY DEF Reading, Waits
<1>2. /\ buf \in Seq(Int) /\ Len(buf) \in Nat
      /\ \A i \in 1 .. Len(buf) : buf[i] = Bytes(message)[5 + i]
  BY LenProperties DEF Reading, Streamed, StreamedFrom, Dropped
<1>3. MessageBody = <<90, 13, 10>> /\ Len(message.following) = 0
  BY <1>1, BytesAre, EmptySeq DEF Shape
<1>4. Len(MessageBody) = 3 /\ MessageBody[1] = 90 /\ MessageBody[2] = 13 /\ MessageBody[3] = 10
  BY <1>3
<1>5. /\ Len(Bytes(message)) = 8
      /\ \A i \in 1 .. 3 : Bytes(message)[5 + i] = MessageBody[i]
  BY <1>1, <1>3, <1>4, BytesAre
<1>6. /\ Len(buf) >= 1 => buf[1] = 90
      /\ Len(buf) >= 2 => buf[2] = 13
      /\ Len(buf) >= 3 => buf[3] = 10
  BY <1>2, <1>4, <1>5
<1>7. /\ Len(buf) >= 3 => Ends # {}
      /\ Ends # {} => Len(buf) >= 3
  BY <1>2, <1>6, SizeDelimited
<1>8. 5 + Len(buf) = 8 => Len(buf) >= 3
  BY <1>2
<1>9. Len(buf) >= 3 => Len(buf) >= 1
  BY <1>2
<1>10. QED
  BY <1>5, <1>6, <1>7, <1>8, <1>9 DEF Dropped

-----------------------------------------------------------------------------
(* What is delivered                                                       *)

\* Bytes of the message behind its header that are as many at least as the
\* content are the content with the beginning of what follows.
LEMMA ContentFirst ==
    ASSUME Shape, message.framing \in {"length", "none"}, NEW b \in Seq(Int),
           5 + Len(b) <= Len(Bytes(message)), Len(Content(message)) <= Len(b),
           \A i \in 1 .. Len(b) : b[i] = Bytes(message)[5 + i]
    PROVE  \E k \in 0 .. Len(message.following) :
              /\ SubSeq(message.following, 1, k) \in Seq(Int)
              /\ b = Content(message) \o SubSeq(message.following, 1, k)
<1> DEFINE c == Content(message)
           f == message.following
           k == Len(b) - Len(c)
           e == SubSeq(f, 1, k)
<1>1. /\ c \in Seq(Int) /\ f \in Seq(Int)
      /\ Len(c) \in Nat /\ Len(f) \in Nat /\ Len(b) \in Nat
  BY LenProperties DEF Shape
<1>2. MessageBody = c
  BY BytesAre
<1>3. /\ Len(Bytes(message)) = 5 + Len(c) + Len(f)
      /\ \A i \in 1 .. Len(c) : Bytes(message)[5 + i] = c[i]
      /\ \A i \in 1 .. Len(f) : Bytes(message)[5 + Len(c) + i] = f[i]
  BY <1>2, BytesAre
<1>4. k \in 0 .. Len(f)
  <2>1. 5 + Len(b) <= 5 + Len(c) + Len(f)
    BY <1>3
  <2>2. Len(c) <= Len(b)
    OBVIOUS
  <2> HIDE DEF c, f
  <2>3. QED
    BY <1>1, <2>1, <2>2
<1>5. /\ e \in Seq(Int) /\ Len(e) = k
      /\ \A i \in 1 .. k : e[i] = f[i]
  <2>1. \A i \in 1 .. k : f[i] \in Int
    BY <1>1, <1>4, ElementOfSeq, SMTT(30)
  <2>2. QED
    BY <1>4, <2>1, SubSeqProperties
<1> HIDE DEF c, f, e
<1>6. Len(b) = Len(c) + Len(e)
  BY <1>1, <1>5
<1>7. ASSUME NEW i \in 1 .. Len(c) PROVE b[i] = c[i]
  <2>1. i \in 1 .. Len(b)
    BY <1>1, <1>4
  <2>2. QED
    BY <1>3, <2>1
<1>8. ASSUME NEW i \in 1 .. Len(e) PROVE b[Len(c) + i] = e[i]
  <2>1. /\ Len(c) + i \in 1 .. Len(b) /\ i \in 1 .. k /\ i \in 1 .. Len(f)
        /\ 5 + (Len(c) + i) = 5 + Len(c) + i
    <3>1. i \in 1 .. k
      BY <1>5
    <3>2. k \in Nat /\ k <= Len(f)
      BY <1>1, <1>4
    <3>3. i \in 1 .. Len(f)
      BY <1>1, <3>1, <3>2
    <3>4. Len(c) + i \in 1 .. Len(b)
      BY <1>1, <3>1
    <3>5. QED
      BY <1>1, <3>1, <3>3, <3>4
  <2>2. b[Len(c) + i] = Bytes(message)[5 + (Len(c) + i)]
    BY <2>1
  <2>3. QED
    BY <1>3, <1>5, <2>1, <2>2
<1>9. c \o e = b
  BY <1>1, <1>5, <1>6, <1>7, <1>8, PartsAre
<1>10. QED
  BY <1>4, <1>5, <1>9 DEF c, f, e

\* Bytes behind the header of a message that ends with the connection begin its
\* content, and are all of it if there are as many.
LEMMA ContentBegins ==
    ASSUME Shape, message.framing = "close", NEW b \in Seq(Int),
           5 + Len(b) <= Len(Bytes(message)),
           \A i \in 1 .. Len(b) : b[i] = Bytes(message)[5 + i]
    PROVE  /\ IsPrefix(b, Content(message))
           /\ 5 + Len(b) = Len(Bytes(message)) => b = Content(message)
<1> DEFINE c == Content(message)
<1>1. c \in Seq(Int) /\ Len(c) \in Nat /\ Len(b) \in Nat /\ Len(message.following) = 0
  BY LenProperties, EmptySeq DEF Shape
<1>2. MessageBody = c
  BY BytesAre
<1>3. /\ Len(Bytes(message)) = 5 + Len(c)
      /\ \A i \in 1 .. Len(c) : Bytes(message)[5 + i] = c[i]
  BY <1>1, <1>2, BytesAre
<1> HIDE DEF c
<1>4. Len(b) <= Len(c)
  BY <1>1, <1>3
<1>5. ASSUME NEW i \in 1 .. Len(b) PROVE b[i] = c[i] /\ b[i] \in Int /\ c[i] \in Int
  <2>1. i \in 1 .. Len(c)
    BY <1>1, <1>4
  <2>2. QED
    BY <1>1, <1>3, <2>1, ElementOfSeq
<1>6. /\ SubSeq(b, 1, Len(b)) \in Seq(Int) /\ SubSeq(c, 1, Len(b)) \in Seq(Int)
      /\ Len(SubSeq(b, 1, Len(b))) = Len(b) /\ Len(SubSeq(c, 1, Len(b))) = Len(b)
      /\ \A i \in 1 .. Len(b) : SubSeq(b, 1, Len(b))[i] = b[i] /\ SubSeq(c, 1, Len(b))[i] = c[i]
  BY <1>1, <1>5, SubSeqProperties
<1>7. SubSeq(b, 1, Len(b)) = SubSeq(c, 1, Len(b))
  BY <1>5, <1>6, SeqEqual
<1>8. Len(b) = Len(c) => b = c
  BY <1>1, <1>5, SeqEqual
<1>9. 5 + Len(b) = Len(Bytes(message)) => Len(b) = Len(c)
  BY <1>1, <1>3
<1>10. QED
  BY <1>4, <1>7, <1>8, <1>9 DEF c, IsPrefix

\* What may have been read of the bytes that follow the message.
Extras == {SubSeq(message.following, 1, k) : k \in 0 .. Len(message.following)}

\* The same as ContentAsSent has it.
LEMMA ContentAndExtras ==
    ASSUME Shape, message.framing \in {"length", "none"}, NEW b \in Seq(Int),
           5 + Len(b) <= Len(Bytes(message)), Len(Content(message)) <= Len(b),
           \A i \in 1 .. Len(b) : b[i] = Bytes(message)[5 + i]
    PROVE  /\ message.framing = "length" => b \in {Content(message) \o e : e \in Extras}
           /\ message.framing = "none" => b \in Extras
<1>1. PICK k \in 0 .. Len(message.following) :
         /\ SubSeq(message.following, 1, k) \in Seq(Int)
         /\ b = Content(message) \o SubSeq(message.following, 1, k)
  BY ContentFirst
<1>2. message.framing = "none" => Content(message) = <<>>
  BY EmptyContent DEF Shape, Content
<1>3. message.framing = "none" => b = SubSeq(message.following, 1, k)
  BY <1>1, <1>2, ConcatEmptySeq
<1>4. QED
  BY <1>1, <1>3 DEF Extras

\* A content has no bytes if there is none.
LEMMA NoContent == Shape /\ message.framing = "none" => Len(Content(message)) = 0
  BY EmptyContent, EmptySeq DEF Shape, Content

-----------------------------------------------------------------------------
(* The reader of a content that is not chunked                             *)

\* A message that is refused for its size fills the buffer.
LEMMA TooLargeStep ==
    ASSUME Shape, Reading, message.framing # "chunked", TooLarge
    PROVE  ContentAsSent'
<1>1. Len(buf) = limit /\ outcome' = "too_large" /\ UNCHANGED <<message, limit, buf>>
  BY DEF TooLarge, Full
<1>2. Len(buf) \in Nat /\ Len(wire) \in Nat /\ Dropped \in Nat /\ Len(Bytes(message)) \in Nat
  BY BytesAre, LenProperties DEF Reading, Streamed, StreamedFrom, Dropped
<1>3. limit <= Len(Bytes(message))
  BY <1>1, <1>2 DEF Reading, Streamed, StreamedFrom, Shape
<1>4. QED
  BY <1>1, <1>2, <1>3 DEF ContentAsSent, Reading

\* A connection that ends brings what the message lacks to an end, or is the end
\* of its content; a message that is there is not waited for.
LEMMA EofStep ==
    ASSUME Shape, Reading, message.framing # "chunked", Eof
    PROVE  ContentAsSent'
<1>1. /\ wire = <<>> /\ ~Complete
      /\ outcome' = IF stage = "rest" THEN "delivered" ELSE "failed"
      /\ UNCHANGED <<message, limit, buf>>
  BY DEF Eof
<1>2. Len(wire) = 0
  BY <1>1, EmptySeq
<1>3. buf \in Seq(Int) /\ Len(buf) \in Nat /\ Dropped + Len(buf) = message.sent
  BY <1>2, LenProperties DEF Reading, Streamed, StreamedFrom, Dropped
<1>4. CASE stage = "rest"
  <2>1. message.framing = "close"
    BY <1>4 DEF Reading, Waits
  <2>2. /\ 5 + Len(buf) = message.sent /\ message.sent <= Len(Bytes(message))
        /\ \A i \in 1 .. Len(buf) : buf[i] = Bytes(message)[5 + i]
    BY <1>3, <1>4 DEF Reading, Streamed, StreamedFrom, Dropped
  <2>3. 5 + Len(buf) <= Len(Bytes(message))
    BY <2>2
  <2>4. /\ IsPrefix(buf, Content(message))
        /\ 5 + Len(buf) = Len(Bytes(message)) => buf = Content(message)
    BY <1>3, <2>1, <2>2, <2>3, ContentBegins
  <2>5. Whole(message) => buf = Content(message)
    BY <2>2, <2>4 DEF Whole
  <2>6. QED
    BY <1>1, <1>4, <2>1, <2>4, <2>5 DEF ContentAsSent
<1>5. CASE stage # "rest"
  <2>1. ASSUME Whole(message) PROVE FALSE
    <3>1. Dropped + Len(buf) = Len(Bytes(message))
      BY <1>3, <2>1 DEF Whole
    <3>2. ~Delimited /\ ~Transferred
      BY <1>1 DEF Complete
    <3>3. CASE stage = "header"
      <4>1. Len(buf) >= 5
        <5> DEFINE all == Len(Bytes(message))
                   inside == Len(MessageBody)
                   behind == Len(message.following)
                   here == Len(buf)
        <5>1. inside \in Nat /\ behind \in Nat /\ here \in Nat
          BY <1>3, BytesAre, LenProperties DEF Shape
        <5>2. all = 5 + inside + behind
          BY BytesAre
        <5>3. 0 + here = all
          BY <3>1, <3>3 DEF Dropped
        <5> HIDE DEF all, inside, behind, here
        <5>4. here >= 5
          BY <5>1, <5>2, <5>3
        <5>5. QED
          BY <5>4 DEF here
      <4>2. QED
        BY <3>2, <3>3, <4>1, HeaderEnds DEF Delimited
    <3>4. CASE stage = "content"
      <4>1. /\ message.framing = "length"
            /\ need \in Nat /\ need + Len(buf) = Len(Content(message))
        BY <3>4 DEF Reading, Waits
      <4>2. MessageBody = Content(message)
        BY <4>1, BytesAre
      <4>3. /\ 5 + Len(buf) = 5 + Len(Content(message)) + Len(message.following)
            /\ Len(message.following) \in Nat
        BY <3>1, <3>4, <4>2, BytesAre, LenProperties DEF Dropped, Shape
      <4>4. need = 0
        <5> DEFINE content == Len(Content(message))
                   behind == Len(message.following)
        <5>1. need \in Nat /\ Len(buf) \in Nat /\ behind \in Nat
          BY <1>3, <4>1, <4>3
        <5>2. need + Len(buf) = content /\ 5 + Len(buf) = 5 + content + behind
          BY <4>1, <4>3
        <5> HIDE DEF content, behind
        <5>3. QED
          BY <5>1, <5>2
      <4>5. QED
        BY <3>2, <3>4, <4>4 DEF Transferred
    <3>5. CASE stage = "size"
      BY <3>1, <3>2, <3>5, SizeEnds DEF Delimited
    <3>6. QED
      BY <1>5, <3>3, <3>4, <3>5 DEF Reading, Waits
  <2>2. QED
    BY <1>1, <1>5, <2>1 DEF ContentAsSent, Whole
<1>6. QED
  BY <1>4, <1>5

\* The header goes from the buffer; what came behind it is already content.
LEMMA HeaderReadStep ==
    ASSUME Shape, Reading, message.framing # "chunked", outcome = "none", HeaderRead
    PROVE  ContentAsSent' /\ (outcome' = "none" => Reading')
<1> DEFINE content == Content(message)
           missing == Len(content) - Len(buf')
<1>1. /\ stage = "header" /\ ~Full /\ Ends # {}
      /\ UNCHANGED <<message, limit, wire>>
      /\ buf' = From(buf, Min(Ends) + 1)
  BY DEF HeaderRead, Handles, Delimited, Transferred
<1>2. Len(buf) >= 5 /\ Min(Ends) = 5
  BY <1>1, HeaderEnds
<1>3. /\ buf \in Seq(Int) /\ wire \in Seq(Int)
      /\ Len(buf) \in Nat /\ Len(wire) \in Nat
      /\ Len(buf) + Len(wire) = message.sent
      /\ message.sent \in Nat
      /\ \A i \in 1 .. Len(buf) : buf[i] = Bytes(message)[i] /\ buf[i] \in Int
      /\ \A i \in 1 .. Len(wire) : wire[i] = Bytes(message)[Len(buf) + i]
  BY <1>1, LenProperties, ElementOfSeq, SMTT(30) DEF Reading, Streamed, StreamedFrom, Dropped, Shape
<1>4. Len(buf) < limit /\ limit \in Nat
  BY <1>1, <1>3 DEF Full, Reading
<1>5. /\ buf' \in Seq(Int) /\ Len(buf') = Len(buf) - 5
      /\ \A i \in 1 .. Len(buf') : buf'[i] = Bytes(message)[5 + i]
  <2>1. \A i \in 6 .. Len(buf) : buf[i] \in Int
    BY <1>3
  <2>2. /\ SubSeq(buf, 6, Len(buf)) \in Seq(Int)
        /\ Len(SubSeq(buf, 6, Len(buf))) = IF 6 <= Len(buf) THEN Len(buf) - 6 + 1 ELSE 0
        /\ \A i \in 1 .. Len(buf) - 6 + 1 : SubSeq(buf, 6, Len(buf))[i] = buf[6 + i - 1]
    BY <1>3, <2>1, SubSeqProperties
  <2>3. buf' = SubSeq(buf, 6, Len(buf))
    BY <1>1, <1>2 DEF From
  <2>4. Len(buf') = Len(buf) - 5
    <3> DEFINE before == Len(buf)
               after == Len(buf')
    <3>1. after = IF 6 <= before THEN before - 6 + 1 ELSE 0
      BY <2>2, <2>3
    <3>2. before \in Nat /\ before >= 5
      BY <1>2, <1>3
    <3> HIDE DEF before, after
    <3>3. after = before - 5
      BY <3>1, <3>2
    <3>4. QED
      BY <3>3 DEF before, after
  <2>5. ASSUME NEW i \in 1 .. Len(buf') PROVE buf'[i] = Bytes(message)[5 + i]
    <3>1. i \in 1 .. Len(buf) - 5
      BY <2>4
    <3>2. i \in 1 .. Len(buf) - 6 + 1 /\ 6 + i - 1 = 5 + i /\ 5 + i \in 1 .. Len(buf)
      BY <1>3, <3>1
    <3>3. buf'[i] = buf[6 + i - 1]
      BY <2>2, <2>3, <3>2
    <3>4. QED
      BY <1>3, <3>2, <3>3
  <2>6. QED
    BY <2>2, <2>3, <2>4, <2>5
<1>6. /\ Len(buf') \in Nat /\ Len(buf') < limit
      /\ 5 + Len(buf') + Len(wire) = message.sent
      /\ 5 + Len(buf') <= Len(Bytes(message))
  <2> DEFINE before == Len(buf)
             after == Len(buf')
             ahead == Len(wire)
             all == Len(Bytes(message))
  <2>1. /\ before \in Nat /\ before >= 5 /\ after = before - 5 /\ ahead \in Nat
        /\ before + ahead = message.sent /\ before < limit
    BY <1>2, <1>3, <1>4, <1>5
  <2>2. message.sent <= all /\ all \in Nat
    BY BytesAre, LenProperties DEF Reading, Streamed, StreamedFrom
  <2> HIDE DEF before, after, ahead, all
  <2>3. /\ after \in Nat /\ after < limit /\ 5 + after + ahead = message.sent
        /\ 5 + after <= all
    BY <1>3, <1>4, <2>1, <2>2
  <2>4. QED
    BY <2>3 DEF after, ahead, all
<1>7. ASSUME NEW i \in 1 .. Len(wire) PROVE wire[i] = Bytes(message)[5 + Len(buf') + i]
  <2>1. Len(buf) + i = 5 + Len(buf') + i
    BY <1>3, <1>5, <1>6
  <2>2. QED
    BY <1>3, <2>1
<1>8. content \in Seq(Int) /\ Len(content) \in Nat
  BY LenProperties DEF Shape
<1>9. ASSUME stage' # "header" PROVE Streamed'
  <2>1. Dropped' = 5
    BY <1>9 DEF Dropped
  <2>2. message.sent <= Len(Bytes(message))
    BY DEF Reading, Streamed, StreamedFrom
  <2>3. QED
    BY <1>1, <1>3, <1>5, <1>6, <1>7, <2>1, <2>2 DEF Streamed, StreamedFrom
<1>10. CASE message.framing = "length" /\ missing > 0
  <2>1. Awaits("content", missing)
    <3>1. ~(missing <= 0)
      BY <1>6, <1>8, <1>10
    <3>2. QED
      BY <1>10, <3>1, Zenon DEF HeaderRead
  <2>2. stage' = "content" /\ need' = missing /\ outcome' = "none"
    BY <2>1 DEF Awaits
  <2>3. missing \in Nat /\ missing + Len(buf') = Len(content)
    BY <1>6, <1>8, <1>10
  <2>4. QED
    BY <1>1, <1>4, <1>6, <1>9, <1>10, <2>2, <2>3 DEF Reading, Waits, ContentAsSent
<1>11. CASE message.framing \in {"length", "none"} /\ missing <= 0
  <2>1. Outcome("delivered")
    <3>1. ~(missing > 0)
      BY <1>6, <1>8, <1>11
    <3>2. QED
      BY <1>11, <3>1, Zenon DEF HeaderRead
  <2>2. outcome' = "delivered"
    BY <2>1 DEF Outcome
  <2>3. Len(content) <= Len(buf')
    BY <1>6, <1>8, <1>11
  <2>4. Len(content) < limit
    BY <1>4, <1>6, <1>8, <2>3
  <2>5. /\ message.framing = "length" => buf' \in {content \o e : e \in Extras}
        /\ message.framing = "none" => buf' \in Extras
    BY <1>5, <1>6, <1>11, <2>3, ContentAndExtras
  <2>6. QED
    BY <1>1, <1>11, <2>2, <2>4, <2>5 DEF ContentAsSent, Extras
<1>12. CASE message.framing = "none" /\ missing > 0
  BY <1>6, <1>8, <1>12, NoContent
<1>13. CASE message.framing = "bad_length"
  <2>1. outcome' = "protocol"
    BY <1>13 DEF HeaderRead, Outcome
  <2>2. QED
    BY <1>1, <1>13, <2>1 DEF ContentAsSent
<1>14. CASE message.framing = "bad_size"
  <2>1. stage' = "size" /\ outcome' = "none"
    BY <1>14 DEF HeaderRead, Awaits
  <2>2. QED
    BY <1>1, <1>4, <1>6, <1>9, <1>14, <2>1 DEF Reading, Waits, ContentAsSent
<1>15. CASE message.framing = "close"
  <2>1. stage' = "rest" /\ outcome' = "none"
    BY <1>15 DEF HeaderRead, Awaits
  <2>2. QED
    BY <1>1, <1>4, <1>6, <1>9, <1>15, <2>1 DEF Reading, Waits, ContentAsSent
<1>16. missing > 0 \/ missing <= 0
  BY <1>6, <1>8
<1>17. QED
  BY <1>10, <1>11, <1>12, <1>13, <1>14, <1>15, <1>16 DEF Shape, Framings

\* A content is complete when nothing is lacking.
LEMMA ContentReadStep ==
    ASSUME Shape, Reading, message.framing # "chunked", ContentRead
    PROVE  ContentAsSent' /\ outcome' # "none"
<1>1. /\ stage = "content" /\ ~Full /\ need = 0
      /\ outcome' = "delivered" /\ UNCHANGED <<message, limit, buf>>
  BY DEF ContentRead, Handles, Delimited, Transferred, Outcome
<1>2. message.framing = "length" /\ Len(buf) = Len(Content(message))
  <2>1. /\ message.framing = "length" /\ 0 + Len(buf) = Len(Content(message))
    BY <1>1 DEF Reading, Waits
  <2>2. Len(buf) \in Nat
    BY LenProperties DEF Reading, Streamed, StreamedFrom
  <2>3. QED
    BY <2>1, <2>2
<1>3. /\ buf \in Seq(Int) /\ Len(buf) \in Nat /\ Len(buf) < limit
      /\ \A i \in 1 .. Len(buf) : buf[i] = Bytes(message)[5 + i]
  BY <1>1, LenProperties DEF Reading, Streamed, StreamedFrom, Dropped, Full
<1>4. 5 + Len(buf) <= Len(Bytes(message))
  <2> DEFINE all == Len(Bytes(message))
             ahead == Len(wire)
             here == Len(buf)
  <2>1. /\ all \in Nat /\ ahead \in Nat /\ here \in Nat /\ message.sent \in Nat
        /\ 5 + here + ahead = message.sent /\ message.sent <= all
    BY <1>1, <1>3, BytesAre, LenProperties DEF Reading, Streamed, StreamedFrom, Dropped, Shape
  <2> HIDE DEF all, ahead, here
  <2>2. 5 + here <= all
    BY <2>1
  <2>3. QED
    BY <2>2 DEF all, here
<1>5. buf \in {Content(message) \o e : e \in Extras}
  BY <1>2, <1>3, <1>4, ContentAndExtras
<1>6. QED
  BY <1>1, <1>2, <1>3, <1>5 DEF ContentAsSent, Extras

\* A line that is no size is refused.
LEMMA SizeReadStep ==
    ASSUME Shape, Reading, message.framing # "chunked", SizeRead
    PROVE  ContentAsSent' /\ outcome' # "none"
<1>1. stage = "size" /\ Ends # {} /\ UNCHANGED message
  BY DEF SizeRead, Handles, Delimited, Transferred
<1>2. message.framing = "bad_size"
  BY <1>1 DEF Reading, Waits
<1>3. buf[1] = 90
  BY <1>1, SizeEnds
<1>4. HexValue(buf[1]) < 0
  BY <1>3 DEF HexValue, Lower
<1>5. outcome' = "protocol"
  BY <1>4 DEF SizeRead, Outcome
<1>6. QED
  BY <1>1, <1>2, <1>5 DEF ContentAsSent

-----------------------------------------------------------------------------
(* The reader of a chunked content                                         *)

\* The line of a chunk is found and says how long it is.
LEMMA ChunkSizeRead ==
    ASSUME Chunky, stage = "size",
           NEW k \in 0 .. Len(message.contents), StreamedFrom(Before(k))
    PROVE  /\ Len(buf) >= 3 => Ends # {}
           /\ Ends # {} => /\ Len(buf) >= 3 /\ Min(Ends) = 3
                           /\ HexValue(buf[1]) = Len(Piece(k))
<1> DEFINE p == Len(Piece(k))
           c == Chunk(Piece(k))
           d == Before(k)
<1>1. k \in 0 .. Len(ChunkSeq) /\ Piece(k) \in Seq(Int) /\ p \in 0 .. 9
  BY ChunkSeqIs
<1>2. c[1] = 48 + p /\ c[2] = 13 /\ c[3] = 10
  BY <1>1, ChunkIs
<1>3. \A i \in 1 .. p + 5 : Bytes(message)[d + i] = c[i]
  BY <1>1, ChunkedBytes
<1> HIDE DEF p, c
<1>4. /\ Bytes(message)[d + 1] = 48 + p
      /\ Bytes(message)[d + 2] = 13 /\ Bytes(message)[d + 3] = 10
  <2>1. 1 \in 1 .. p + 5 /\ 2 \in 1 .. p + 5 /\ 3 \in 1 .. p + 5
    BY <1>1
  <2>2. QED
    BY <1>2, <1>3, <2>1
<1> HIDE DEF d
<1>5. /\ buf \in Seq(Int) /\ Len(buf) \in Nat
      /\ \A i \in 1 .. Len(buf) : buf[i] = Bytes(message)[d + i]
  BY LenProperties DEF StreamedFrom, d
<1>6. /\ Len(buf) >= 1 => buf[1] = 48 + p
      /\ Len(buf) >= 2 => buf[2] = 13
      /\ Len(buf) >= 3 => buf[3] = 10
  BY <1>4, <1>5
<1>7. 48 + p # 13 /\ HexValue(48 + p) = p
  BY <1>1 DEF HexValue
<1>8. /\ Len(buf) >= 3 => Ends # {}
      /\ Ends # {} => Len(buf) >= 3 /\ Min(Ends) = 3
  BY <1>5, <1>6, <1>7, SizeDelimited
<1>9. Len(buf) >= 3 => Len(buf) >= 1
  BY <1>5
<1>10. QED
  BY <1>6, <1>7, <1>8, <1>9 DEF p

\* A piece of a chunked message arrives.
LEMMA ChunkedArrives ==
    ASSUME Chunky, ChunkReading, Arrives
    PROVE  outcome' = "none" /\ ChunkReading'
<1>1. UNCHANGED <<message, limit, stage, length, chunks, outcome>> /\ outcome = "none"
  BY DEF Arrives
<1>2. limit \in Nat /\ Len(buf) <= limit
  BY DEF ChunkReading
<1>3. CASE stage = "header"
  <2>1. chunks = <<>> /\ StreamedFrom(0)
    BY <1>3 DEF ChunkReading, ChunkWaits
  <2>2. 0 \in Nat
    OBVIOUS
  <2>3. StreamedFrom(0)' /\ Len(buf') <= limit
    BY <1>2, <2>1, <2>2, ArrivesStreams
  <2>4. QED
    BY <1>1, <1>2, <1>3, <2>1, <2>3 DEF ChunkReading, ChunkWaits
<1>4. CASE stage # "header"
  <2>1. PICK k \in 0 .. Len(message.contents) :
           /\ chunks = Upto(message.contents, k) /\ Len(chunks) < limit
           /\ \/ stage = "size" /\ StreamedFrom(Before(k))
              \/ /\ stage = "chunk" /\ StreamedFrom(Before(k) + 3)
                 /\ length = Len(Piece(k))
                 /\ need \in Nat /\ need + Len(buf) = length + 2
    BY <1>4 DEF ChunkReading, ChunkWaits
  <2>2. PICK d \in Nat : d = Before(k)
    BY PieceIs
  <2>3. Before(k)' = d /\ Piece(k)' = Piece(k)
    BY <1>1, <2>2 DEF Before, ChunkSeq, Piece
  <2>4. k \in 0 .. Len(message'.contents) /\ chunks' = Upto(message'.contents, k) /\ Len(chunks') < limit'
    BY <1>1, <2>1
  <2>5. CASE stage = "size"
    <3>1. StreamedFrom(d)
      BY <2>1, <2>2, <2>5
    <3>2. StreamedFrom(d)' /\ Len(buf') <= limit
      BY <1>2, <3>1, ArrivesStreams
    <3>3. StreamedFrom(Before(k))'
      BY <2>3, <3>2 DEF StreamedFrom
    <3>4. ChunkWaits'
      BY <1>1, <2>4, <2>5, <3>3 DEF ChunkWaits
    <3>5. QED
      BY <1>1, <1>2, <3>2, <3>4 DEF ChunkReading
  <2>6. CASE stage = "chunk"
    <3>1. /\ StreamedFrom(d + 3) /\ d + 3 \in Nat
          /\ length = Len(Piece(k)) /\ need \in Nat /\ need + Len(buf) = length + 2
      BY <2>1, <2>2, <2>6
    <3>2. PICK e \in Nat : e = d + 3
      BY <3>1
    <3>3. /\ StreamedFrom(e)' /\ Len(buf') <= limit
          /\ need' \in Nat /\ need' + Len(buf') = need + Len(buf)
      <4>1. stage \in {"content", "chunk"}
        BY <2>6
      <4>2. StreamedFrom(e)
        BY <3>1, <3>2
      <4>3. QED
        BY <1>2, <3>1, <4>1, <4>2, ArrivesStreams
    <3>4. StreamedFrom(Before(k) + 3)'
      BY <2>3, <3>2, <3>3 DEF StreamedFrom
    <3>5. length' = Len(Piece(k))' /\ need' + Len(buf') = length' + 2
      BY <1>1, <2>3, <3>1, <3>3
    <3>6. ChunkWaits'
      BY <1>1, <2>4, <2>6, <3>3, <3>4, <3>5 DEF ChunkWaits
    <3>7. QED
      BY <1>1, <1>2, <3>3, <3>6 DEF ChunkReading
  <2>7. QED
    BY <2>1, <2>5, <2>6
<1>5. QED
  BY <1>3, <1>4

\* The end of the connection finds an incomplete message.
LEMMA ChunkedEof ==
    ASSUME Chunky, ChunkReading, Eof
    PROVE  ContentAsSent'
<1>1. /\ wire = <<>> /\ ~Complete
      /\ outcome' = IF stage = "rest" THEN "delivered" ELSE "failed"
      /\ UNCHANGED <<message, limit, buf>>
  BY DEF Eof
<1>2. Len(wire) = 0
  BY <1>1, EmptySeq
<1>3. ~Delimited /\ ~Transferred
  BY <1>1 DEF Complete
<1>4. stage \in {"header", "size", "chunk"}
  BY DEF ChunkReading, ChunkWaits
<1>5. ASSUME Whole(message) PROVE FALSE
  <2> DEFINE all == Len(Bytes(message))
             here == Len(buf)
  <2>1. all \in Nat /\ message.sent = all
    BY <1>5, ChunkedBytes DEF Whole
  <2>2. CASE stage = "header"
    <3>1. StreamedFrom(0) /\ all >= 10
      <4>1. 0 \in 0 .. Len(ChunkSeq)
        BY ChunkSeqIs
      <4>2. Before(0) = 5 /\ Len(Piece(0)) \in Nat /\ Before(0) + Len(Piece(0)) + 5 <= all
        BY <4>1, ChunkSeqIs, ChunkedBytes
      <4>3. QED
        BY <2>1, <2>2, <4>2 DEF ChunkReading, ChunkWaits
    <3>2. /\ buf \in Seq(Int) /\ here \in Nat /\ 0 + here + 0 = all
          /\ \A i \in 1 .. here : buf[i] = Bytes(message)[0 + i]
      BY <1>2, <2>1, <3>1, LenProperties DEF StreamedFrom
    <3>3. \A i \in 1 .. 5 : i <= here => buf[i] = <<72, 13, 10, 13, 10>>[i]
      <4>1. \A i \in 1 .. 5 : Bytes(message)[i] = <<72, 13, 10, 13, 10>>[i]
        BY ChunkedBytes
      <4>2. ASSUME NEW i \in 1 .. 5, i <= here PROVE buf[i] = Bytes(message)[i]
        BY <3>2, <4>2
      <4>3. QED
        BY <4>1, <4>2
    <3>4. here >= 5
      <4> HIDE DEF here, all
      <4>1. QED
        BY <3>1, <3>2
    <3>5. Ends # {}
      BY <2>2, <3>2, <3>3, <3>4, HeaderDelimited
    <3>6. QED
      BY <1>3, <2>2, <3>5 DEF Delimited
  <2>3. CASE stage \in {"size", "chunk"}
    <3>1. PICK k \in 0 .. Len(message.contents) :
             \/ stage = "size" /\ StreamedFrom(Before(k))
             \/ /\ stage = "chunk" /\ StreamedFrom(Before(k) + 3)
                /\ length = Len(Piece(k))
                /\ need \in Nat /\ need + Len(buf) = length + 2
      BY <2>3 DEF ChunkReading, ChunkWaits
    <3> DEFINE d == Before(k)
               p == Len(Piece(k))
    <3>2. k \in 0 .. Len(ChunkSeq) /\ d \in Nat /\ p \in Nat /\ d + p + 5 <= all
      <4>1. Len(Piece(k)) \in 0 .. 9
        BY PieceIs
      <4>2. /\ k \in 0 .. Len(ChunkSeq) /\ Before(k) \in Nat
            /\ Before(k) + Len(Piece(k)) + 5 <= Len(Bytes(message))
        BY PieceIs
      <4>3. QED
        BY <4>1, <4>2
    <3>3. CASE stage = "size"
      <4>1. StreamedFrom(d)
        BY <3>1, <3>3
      <4>2. here \in Nat /\ d + here + 0 = all
        BY <1>2, <2>1, <4>1, LenProperties DEF StreamedFrom
      <4>3. Ends # {}
        <5>1. here >= 3
          <6> HIDE DEF here, all, d, p
          <6>1. QED
            BY <3>2, <4>2
        <5>2. QED
          BY <3>3, <4>1, <5>1, ChunkSizeRead
      <4>4. QED
        BY <1>3, <3>3, <4>3 DEF Delimited
    <3>4. CASE stage = "chunk"
      <4>1. StreamedFrom(d + 3) /\ need \in Nat /\ need + here = p + 2
        BY <3>1, <3>4
      <4>2. here \in Nat /\ (d + 3) + here + 0 = all
        BY <1>2, <2>1, <4>1, LenProperties DEF StreamedFrom
      <4>3. need = 0
        <5> HIDE DEF here, all, d, p
        <5>1. QED
          BY <3>2, <4>1, <4>2
      <4>4. QED
        BY <1>3, <3>4, <4>3 DEF Transferred
    <3>5. QED
      BY <2>3, <3>3, <3>4
  <2>4. QED
    BY <1>4, <2>2, <2>3
<1>6. outcome' = "failed" /\ ~Whole(message)
  BY <1>1, <1>4, <1>5
<1>7. QED
  BY <1>1, <1>6 DEF ContentAsSent, Whole

\* A message that is refused while it is read fills the buffer.
LEMMA ChunkedTooLarge ==
    ASSUME Chunky, ChunkReading, TooLarge
    PROVE  ContentAsSent'
<1>1. Len(buf) = limit /\ outcome' = "too_large" /\ UNCHANGED <<message, limit, buf>>
  BY DEF TooLarge, Full
<1> DEFINE all == Len(Bytes(message))
           here == Len(buf)
<1>2. all \in Nat
  BY ChunkedBytes
<1>3. PICK d \in Nat : StreamedFrom(d)
  <2>1. \A k \in 0 .. Len(message.contents) : Before(k) \in Nat /\ Before(k) + 3 \in Nat
    BY PieceIs
  <2>2. QED
    BY <2>1 DEF ChunkReading, ChunkWaits
<1>4. here <= all
  <2>1. here \in Nat /\ Len(wire) \in Nat /\ d + here + Len(wire) <= all
    BY <1>3, LenProperties DEF StreamedFrom
  <2> HIDE DEF all, here
  <2>2. QED
    BY <1>2, <2>1
<1>5. QED
  BY <1>1, <1>4 DEF ContentAsSent

\* The header of a chunked message goes from the buffer.
LEMMA ChunkedHeaderRead ==
    ASSUME Chunky, ChunkReading, HeaderRead
    PROVE  outcome' = "none" /\ ChunkReading'
<1>1. /\ stage = "header" /\ ~Full /\ Ends # {} /\ outcome = "none"
      /\ UNCHANGED <<message, limit, wire>>
      /\ buf' = From(buf, Min(Ends) + 1)
  BY DEF HeaderRead, Handles, Delimited, Transferred
<1>2. stage' = "size" /\ outcome' = "none" /\ chunks' = chunks
  BY <1>1 DEF HeaderRead, Awaits, Chunky
<1>3. StreamedFrom(0) /\ chunks = <<>> /\ limit \in Nat /\ Len(buf) <= limit
  BY <1>1 DEF ChunkReading, ChunkWaits
<1>4. /\ buf \in Seq(Int) /\ wire \in Seq(Int)
      /\ Len(buf) \in Nat /\ Len(wire) \in Nat
      /\ 0 + Len(buf) + Len(wire) = message.sent
      /\ \A i \in 1 .. Len(buf) : buf[i] = Bytes(message)[0 + i]
      /\ \A i \in 1 .. Len(wire) : wire[i] = Bytes(message)[0 + Len(buf) + i]
  BY <1>3, LenProperties DEF StreamedFrom
<1>5. Len(buf) >= 5 /\ Min(Ends) = 5
  <2>1. \A i \in 1 .. 5 : i <= Len(buf) => buf[i] = <<72, 13, 10, 13, 10>>[i]
    <3>1. \A i \in 1 .. 5 : Bytes(message)[i] = <<72, 13, 10, 13, 10>>[i]
      BY ChunkedBytes
    <3>2. ASSUME NEW i \in 1 .. 5, i <= Len(buf) PROVE buf[i] = Bytes(message)[i]
      <4>1. i \in 1 .. Len(buf) /\ 0 + i = i
        BY <1>4, <3>2
      <4>2. buf[i] = Bytes(message)[0 + i]
        BY <1>4, <4>1
      <4>3. QED
        BY <4>1, <4>2
    <3>3. QED
      BY <3>1, <3>2
  <2>2. QED
    BY <1>1, <1>4, <2>1, HeaderDelimited
<1>6. 5 \in 0 .. Len(buf)
  BY <1>4, <1>5
<1>7. /\ buf' \in Seq(Int) /\ Len(buf') = Len(buf) - 5
      /\ \A i \in 1 .. Len(buf) - 5 : buf'[i] = buf[5 + i]
  <2>1. /\ From(buf, 5 + 1) \in Seq(Int) /\ Len(From(buf, 5 + 1)) = Len(buf) - 5
        /\ \A i \in 1 .. Len(buf) - 5 : From(buf, 5 + 1)[i] = buf[5 + i]
    BY <1>4, <1>6, FromIs
  <2>2. buf' = From(buf, 5 + 1)
    BY <1>1, <1>5
  <2>3. QED
    BY <2>1, <2>2
<1>8. Before(0) = 5 /\ Before(0)' = 5
  <2>1. Before(0) = 5
    BY ChunkedBytes
  <2>2. Before(0)' = Before(0)
    BY <1>1 DEF Before, ChunkSeq
  <2>3. QED
    BY <2>1, <2>2
<1>9. StreamedFrom(5)'
  <2>1. Bytes(message)' = Bytes(message)
    BY <1>1
  <2>2. ASSUME NEW i \in 1 .. Len(buf') PROVE buf'[i] = Bytes(message)[5 + i]
    <3>1. i \in 1 .. Len(buf) - 5
      BY <1>7
    <3>a. 5 + i \in 1 .. Len(buf) /\ 0 + (5 + i) = 5 + i
      <4> DEFINE n == Len(buf)
      <4>1. n \in Nat /\ i \in 1 .. n - 5
        BY <1>4, <3>1
      <4> HIDE DEF n
      <4>2. 5 + i \in 1 .. n /\ 0 + (5 + i) = 5 + i
        BY <4>1
      <4>3. QED
        BY <4>2 DEF n
    <3>2. buf'[i] = buf[5 + i] /\ buf[5 + i] = Bytes(message)[0 + (5 + i)]
      BY <1>4, <1>7, <3>1, <3>a
    <3>3. QED
      BY <3>2
  <2>3. ASSUME NEW i \in 1 .. Len(wire) PROVE wire[i] = Bytes(message)[5 + Len(buf') + i]
    <3>1. 0 + Len(buf) + i = 5 + Len(buf') + i
      BY <1>4, <1>7
    <3>2. QED
      BY <1>4, <3>1
  <2>4. 5 + Len(buf') + Len(wire) = message.sent
    BY <1>4, <1>7
  <2>5. message.sent \in Nat /\ message.sent <= Len(Bytes(message))
    BY <1>3 DEF StreamedFrom
  <2>6. QED
    BY <1>1, <1>4, <1>7, <2>1, <2>2, <2>3, <2>4, <2>5 DEF StreamedFrom
<1>10. Len(buf') <= limit /\ 0 < limit
  BY <1>3, <1>4, <1>5, <1>7
<1>11. Upto(message.contents, 0) = <<>> /\ 0 \in 0 .. Len(message.contents)
  <2>1. message.contents \in Texts
    BY DEF Chunky
  <2>2. QED
    <3>1. Upto(message.contents, 0) = <<>>
      BY <2>1, UptoSteps
    <3>2. Len(message.contents) \in Nat
      BY PieceIs
    <3>3. QED
      BY <3>1, <3>2
<1>12. ChunkWaits'
  <2>1. /\ 0 \in 0 .. Len(message'.contents)
        /\ chunks' = Upto(message'.contents, 0)
        /\ Len(chunks') < limit'
    BY <1>1, <1>2, <1>3, <1>10, <1>11, EmptySeq
  <2>2. stage' = "size" /\ StreamedFrom(Before(0))'
    <3>1. StreamedFrom(Before(0))' <=> StreamedFrom(5)'
      BY <1>8 DEF StreamedFrom
    <3>2. QED
      BY <1>2, <1>9, <3>1
  <2>3. QED
    BY <2>1, <2>2 DEF ChunkWaits
<1>13. QED
  BY <1>1, <1>2, <1>3, <1>10, <1>12 DEF ChunkReading

\* The content, and what is read of what follows it.
LEMMA LastChunk ==
    ASSUME Chunky, NEW b \in Seq(Int), 2 <= Len(b),
           Before(Len(message.contents)) + 3 + Len(b) <= Len(Bytes(message)),
           \A i \in 1 .. Len(b) : b[i] = Bytes(message)[Before(Len(message.contents)) + 3 + i]
    PROVE  \E j \in 0 .. Len(message.following) : From(b, 3) = SubSeq(message.following, 1, j)
<1> DEFINE f == message.following
           d == Before(Len(message.contents))
           j == Len(b) - 2
           all == Len(Bytes(message))
<1>1. f \in Seq(Int) /\ Len(f) \in Nat /\ Len(b) \in Nat
  BY LenProperties DEF Chunky
<1>2. d \in Nat /\ all = d + 5 + Len(f) /\ \A i \in 1 .. Len(f) : Bytes(message)[d + 5 + i] = f[i]
  <2>1. Len(ChunkSeq) = Len(message.contents) /\ Len(ChunkSeq) \in 0 .. Len(ChunkSeq)
    BY ChunkSeqIs
  <2>2. Before(Len(ChunkSeq)) \in Nat
    BY <2>1, ChunkedBytes
  <2>3. /\ all = Before(Len(ChunkSeq)) + 5 + Len(f)
        /\ \A i \in 1 .. Len(f) : Bytes(message)[Before(Len(ChunkSeq)) + 5 + i] = f[i]
    BY ChunkedBytes
  <2>4. QED
    BY <2>1, <2>2, <2>3
<1>3. d + 3 + Len(b) <= all /\ \A i \in 1 .. Len(b) : b[i] = Bytes(message)[d + 3 + i]
  OBVIOUS
<1> HIDE DEF f, d, all
<1>4. j \in 0 .. Len(f)
  BY <1>1, <1>2, <1>3
<1>5. /\ From(b, 3) \in Seq(Int) /\ Len(From(b, 3)) = j
      /\ \A i \in 1 .. j : From(b, 3)[i] = b[2 + i]
  <2>1. 2 \in 0 .. Len(b)
    BY <1>1
  <2>2. /\ From(b, 2 + 1) \in Seq(Int) /\ Len(From(b, 2 + 1)) = Len(b) - 2
        /\ \A i \in 1 .. Len(b) - 2 : From(b, 2 + 1)[i] = b[2 + i]
    BY <2>1, FromIs
  <2>3. 2 + 1 = 3
    OBVIOUS
  <2>4. QED
    BY <2>2, <2>3
<1>6. /\ SubSeq(f, 1, j) \in Seq(Int) /\ Len(SubSeq(f, 1, j)) = j
      /\ \A i \in 1 .. j : SubSeq(f, 1, j)[i] = f[i]
  BY <1>1, <1>4, FrontIs
<1>7. ASSUME NEW i \in 1 .. j PROVE From(b, 3)[i] = SubSeq(f, 1, j)[i]
  <2>1. 2 + i \in 1 .. Len(b) /\ d + 3 + (2 + i) = d + 5 + i /\ i \in 1 .. Len(f)
    <3> DEFINE m == Len(b)
               l == Len(f)
    <3>1. m \in Nat /\ l \in Nat /\ i \in 1 .. m - 2 /\ m - 2 \in 0 .. l
      BY <1>1, <1>4
    <3> HIDE DEF m, l
    <3>2. 2 + i \in 1 .. m /\ i \in 1 .. l
      BY <3>1
    <3>3. d + 3 + (2 + i) = d + 5 + i
      BY <1>2, <3>1
    <3>4. QED
      BY <3>2, <3>3 DEF m, l
  <2>2. b[2 + i] = Bytes(message)[d + 3 + (2 + i)]
    BY <1>3, <2>1
  <2>3. QED
    BY <1>2, <1>5, <1>6, <2>1, <2>2
<1>8. From(b, 3) = SubSeq(f, 1, j)
  BY <1>5, <1>6, <1>7, SeqEqual
<1>9. QED
  BY <1>4, <1>8 DEF f

\* A chunk that is here with its CRLF is put aside, is too large, or is the last.
LEMMA TakesChunk ==
    ASSUME Chunky, NEW k \in 0 .. Len(message.contents),
           chunks = Upto(message.contents, k), Len(chunks) < limit, limit \in Nat,
           outcome = "none", wire \in Seq(Int),
           NEW b \in Seq(Int), Len(b) <= limit, Len(Piece(k)) + 2 <= Len(b),
           Before(k) + 3 + Len(b) + Len(wire) = message.sent,
           \A i \in 1 .. Len(b) : b[i] = Bytes(message)[Before(k) + 3 + i],
           \A i \in 1 .. Len(wire) : wire[i] = Bytes(message)[Before(k) + 3 + Len(b) + i],
           TakeChunk(b, Len(Piece(k))), UNCHANGED <<message, limit, wire>>
    PROVE  ContentAsSent' /\ (outcome' = "none" => ChunkReading')
<1> DEFINE n == Len(Piece(k))
           d == Before(k)
           all == Len(Bytes(message))
           put == Len(chunks)
<1>1. n \in 0 .. 9 /\ d \in Nat /\ d + n + 5 <= all /\ Piece(k) \in Seq(Int)
      /\ (n = 0 <=> k = Len(message.contents))
      /\ (k < Len(message.contents) => Before(k + 1) = d + n + 5)
      /\ k \in 0 .. Len(ChunkSeq) /\ Len(message.contents) \in Nat
  <2>1. Len(message.contents) \in Nat
    BY PieceIs
  <2>2. Len(Piece(k)) \in 0 .. 9 /\ (Len(Piece(k)) = 0 <=> k = Len(message.contents))
    BY PieceIs
  <2>3. /\ k \in 0 .. Len(ChunkSeq) /\ Piece(k) \in Seq(Int) /\ Before(k) \in Nat
        /\ Before(k) + Len(Piece(k)) + 5 <= Len(Bytes(message))
        /\ k < Len(message.contents) => Before(k + 1) = Before(k) + Len(Piece(k)) + 5
    BY PieceIs
  <2>4. QED
    BY <2>1, <2>2, <2>3
<1>2. Len(b) \in Nat /\ Len(wire) \in Nat /\ all \in Nat
  BY ChunkedBytes, LenProperties
<1>3. d + 3 + Len(b) + Len(wire) = message.sent /\ message.sent <= all /\ message.sent \in Nat
  BY DEF Chunky
<1>4. chunks \in Seq(Int) /\ put \in Nat /\ put <= d
  BY AsideBefore
<1>5. Bytes(message)' = Bytes(message) /\ Content(message)' = Content(message)
  OBVIOUS
<1>6. CASE n = 0
  <2> DEFINE left == From(b, 3)
             joined == left \o chunks
  <2>1. k = Len(message.contents)
    BY <1>1, <1>6
  <2>2. chunks = Content(message)
    <3>1. message.contents \in Texts
      BY DEF Chunky
    <3>2. Upto(message.contents, Len(message.contents)) = FlattenSeq(message.contents)
      BY <3>1, UptoSteps
    <3>3. QED
      BY <2>1, <3>2 DEF Content
  <2>3. outcome' = "delivered" /\ buf' = SubSeq(joined, 1, Min({limit, Len(joined)}))
    <3>1. Len(Piece(k)) = 0 /\ 0 + 3 = 3
      BY <1>6
    <3>2. TakeChunk(b, 0)
      BY <3>1
    <3>3. QED
      BY <3>1, <3>2 DEF TakeChunk
  <2>4. PICK j \in 0 .. Len(message.following) : left = SubSeq(message.following, 1, j)
    <3>1. d + 3 + Len(b) <= all
      <4> HIDE DEF d, all
      <4>1. QED
        BY <1>1, <1>2, <1>3, SMTT(30)
    <3>2. 2 <= Len(b)
      BY <1>6
    <3>3. QED
      BY <2>1, <3>1, <3>2, LastChunk
  <2> HIDE DEF left
  <2>5. /\ Len(Content(message)) < limit
        /\ buf' \in {SubSeq(e \o Content(message), 1, Min({limit, Len(e \o Content(message))})) :
                       e \in {SubSeq(message.following, 1, i) : i \in 0 .. Len(message.following)}}
    BY <2>2, <2>3, <2>4
  <2>6. message.framing = "chunked"
    BY DEF Chunky
  <2>7. QED
    BY <1>5, <2>3, <2>5, <2>6, ZenonT(40) DEF ContentAsSent
<1>7. CASE n # 0
  <2> DEFINE taken == SubSeq(chunks \o SubSeq(b, 1, n), 1, Min({limit, put + n}))
             piece == SubSeq(b, 1, n)
             size == Min({limit, put + n})
  <2>1. /\ chunks' = taken /\ stage' = "size"
        /\ Len(taken) = limit => outcome' = "too_large" /\ buf' = From(b, n + 1)
        /\ Len(taken) # limit => outcome' = "none" /\ buf' = From(b, n + 3)
    <3>1. TakeChunk(b, n)
      OBVIOUS
    <3> HIDE DEF n
    <3>2. QED
      BY <1>7, <3>1 DEF TakeChunk
  <2>2. piece = Piece(k)
    <3>1. n \in 0 .. Len(b)
      <4> DEFINE m == Len(b)
      <4>1. n + 2 <= m /\ m \in Nat /\ n \in 0 .. 9
        BY <1>1, <1>2
      <4> HIDE DEF n, m
      <4>2. n \in 0 .. m
        BY <4>1
      <4>3. QED
        BY <4>2 DEF m
    <3>2. /\ piece \in Seq(Int) /\ Len(piece) = n
          /\ \A i \in 1 .. n : piece[i] = b[i]
      BY <3>1, FrontIs
    <3>3. ASSUME NEW i \in 1 .. n PROVE b[i] = Piece(k)[i]
      <4>1. i \in 1 .. Len(b) /\ 3 + i \in 1 .. n + 5 /\ d + 3 + i = d + (3 + i)
        <5> DEFINE m == Len(b)
        <5>1. n + 2 <= m /\ m \in Nat /\ n \in 0 .. 9 /\ d \in Nat /\ i \in 1 .. n
          BY <1>1, <1>2
        <5> HIDE DEF n, d, m
        <5>2. i \in 1 .. m /\ 3 + i \in 1 .. n + 5
          BY <5>1
        <5>3. d + 3 + i = d + (3 + i)
          BY <5>1
        <5>4. QED
          BY <5>2, <5>3 DEF m
      <4>2. b[i] = Bytes(message)[d + 3 + i]
        BY <4>1
      <4>3. Bytes(message)[d + (3 + i)] = Chunk(Piece(k))[3 + i]
        BY <1>1, <4>1, ChunkedBytes
      <4>4. Chunk(Piece(k))[3 + i] = Piece(k)[i]
        BY <1>1, ChunkIs
      <4>5. QED
        BY <4>1, <4>2, <4>3, <4>4
    <3>4. QED
      BY <1>1, <3>2, <3>3, SeqEqual
  <2>3. k < Len(message.contents) /\ k + 1 \in 0 .. Len(message.contents)
    <3> DEFINE m == Len(message.contents)
    <3>1. k # m /\ m \in Nat /\ k \in 0 .. m
      BY <1>1, <1>7
    <3> HIDE DEF m
    <3>2. k < m /\ k + 1 \in 0 .. m
      BY <3>1
    <3>3. QED
      BY <3>2 DEF m
  <2>4. chunks \o piece = Upto(message.contents, k + 1)
    BY <2>2, <2>3, AsideBefore
  <2>5. chunks \o piece \in Seq(Int) /\ Len(chunks \o piece) = put + n
    <3>1. piece \in Seq(Int) /\ Len(piece) = n
      BY <1>1, <2>2
    <3> HIDE DEF piece, n
    <3>2. chunks \o piece \in Seq(Int) /\ Len(chunks \o piece) = Len(chunks) + Len(piece)
      BY <1>4, <3>1, Parts
    <3>3. QED
      BY <3>1, <3>2
  <2>6. size \in Nat /\ size <= limit /\ size <= put + n /\ (size = limit \/ size = put + n)
    <3>1. put + n \in Nat
      BY <1>1, <1>4
    <3> DEFINE m == put + n
    <3> HIDE DEF m
    <3>2. Min({limit, m}) \in Nat /\ Min({limit, m}) <= limit /\ Min({limit, m}) <= m
          /\ Min({limit, m}) \in {limit, m}
      <4>1. m \in Nat /\ limit \in Nat
        BY <3>1 DEF m
      <4>2. QED
        BY <4>1, SmallerOf
    <3>3. QED
      BY <3>2 DEF m
  <2>7. Len(taken) = size /\ (size = put + n => taken = chunks \o piece)
    <3> DEFINE s == chunks \o piece
    <3>1. s \in Seq(Int) /\ Len(s) = put + n
      BY <2>5
    <3>2. size \in 0 .. Len(s)
      <4> DEFINE m == put + n
      <4>1. m \in Nat
        <5>1. n \in Nat
          BY <1>1
        <5> HIDE DEF n, put
        <5>2. QED
          BY <1>4, <5>1
      <4>2. size \in Nat /\ size <= m /\ Len(s) = m
        BY <2>6, <3>1
      <4> HIDE DEF m, s, size
      <4>3. QED
        BY <4>1, <4>2
    <3> HIDE DEF s, size
    <3>3. /\ SubSeq(s, 1, size) \in Seq(Int) /\ Len(SubSeq(s, 1, size)) = size
          /\ \A i \in 1 .. size : SubSeq(s, 1, size)[i] = s[i]
      BY <3>1, <3>2, FrontIs
    <3>4. size = Len(s) => SubSeq(s, 1, size) = s
      BY <3>1, <3>3, SeqEqual
    <3>5. taken = SubSeq(s, 1, size)
      BY DEF s, size
    <3>6. QED
      BY <3>1, <3>3, <3>4, <3>5 DEF s
  <2>8. CASE Len(taken) = limit
    <3>1. limit <= all
      <4>1. limit <= put + n
        BY <2>6, <2>7, <2>8
      <4> HIDE DEF n, d, all, put, taken, size
      <4>2. QED
        BY <1>1, <1>2, <1>4, <4>1
    <3>2. outcome' = "too_large"
      BY <2>1, <2>8
    <3>3. QED
      BY <1>5, <3>1, <3>2 DEF ContentAsSent
  <2>9. CASE Len(taken) # limit
    <3>1. outcome' = "none" /\ buf' = From(b, n + 3)
      BY <2>1, <2>9
    <3>2. chunks' = Upto(message.contents, k + 1) /\ Len(chunks') < limit
      <4>1. size = put + n /\ size < limit
        BY <2>6, <2>7, <2>9, SMTT(30)
      <4>2. QED
        BY <2>1, <2>4, <2>7, <4>1
    <3> DEFINE m == n + 2
               here == Len(b)
               ahead == Len(wire)
    <3>3. PICK e \in Nat : e = d + n + 5
      BY <1>1
    <3>4. m \in 0 .. here /\ n + 3 = m + 1 /\ here \in Nat /\ ahead \in Nat /\ d \in Nat
      <4>1. n + 2 <= here /\ here \in Nat /\ n \in 0 .. 9
        BY <1>1, <1>2
      <4> HIDE DEF n, here
      <4>2. m \in 0 .. here /\ n + 3 = m + 1
        BY <4>1
      <4>3. QED
        BY <1>1, <1>2, <4>1, <4>2
    <3>5. e = (d + 3) + m
      BY <1>1, <3>3
    <3>6. /\ buf' \in Seq(Int) /\ Len(buf') = here - m
          /\ \A i \in 1 .. here - m : buf'[i] = b[m + i]
      <4> HIDE DEF m
      <4>1. /\ From(b, m + 1) \in Seq(Int) /\ Len(From(b, m + 1)) = Len(b) - m
            /\ \A i \in 1 .. Len(b) - m : From(b, m + 1)[i] = b[m + i]
        BY <3>4, FromIs
      <4>2. QED
        BY <3>1, <3>4, <4>1
    <3>7. d + 3 + here + ahead = message.sent
      BY <1>3
    <3>8. \A i \in 1 .. here : b[i] = Bytes(message)[d + 3 + i]
      OBVIOUS
    <3>9. \A i \in 1 .. ahead : wire[i] = Bytes(message)[d + 3 + here + i]
      OBVIOUS
    <3> HIDE DEF n, d, m, here, ahead
    <3>10. m \in Nat /\ m <= here
      BY <3>4
    <3>11. StreamedFrom(e)'
      <4>1. here - m \in Nat /\ e + (here - m) + ahead = message.sent
        BY <3>4, <3>5, <3>7, <3>10, Dropping
      <4>2. ASSUME NEW i \in 1 .. here - m PROVE buf'[i] = Bytes(message)[e + i]
        <5>1. m + i \in 1 .. here /\ d + 3 + (m + i) = e + i
          BY <3>4, <3>5, <3>10, Dropping
        <5>2. b[m + i] = Bytes(message)[d + 3 + (m + i)]
          BY <3>8, <5>1
        <5>3. QED
          BY <3>6, <5>1, <5>2
      <4>3. ASSUME NEW i \in 1 .. ahead PROVE wire[i] = Bytes(message)[e + (here - m) + i]
        <5>1. d + 3 + here + i = e + (here - m) + i
          BY <3>4, <3>5, <3>10, Dropping
        <5>2. QED
          BY <3>9, <5>1
      <4>4. message' = message /\ wire' = wire
        OBVIOUS
      <4>5. /\ message.sent \in Nat /\ message.sent <= Len(Bytes(message))
            /\ buf' \in Seq(Int) /\ wire \in Seq(Int)
            /\ e + Len(buf') + Len(wire) = message.sent
            /\ \A i \in 1 .. Len(buf') : buf'[i] = Bytes(message)[e + i]
            /\ \A i \in 1 .. Len(wire) : wire[i] = Bytes(message)[e + Len(buf') + i]
        BY <1>3, <3>6, <4>1, <4>2, <4>3 DEF ahead
      <4>6. QED
        BY <1>5, <4>4, <4>5 DEF StreamedFrom
    <3>12. StreamedFrom(Before(k + 1))'
      <4>1. Before(k + 1)' = Before(k + 1)
        BY DEF Before, ChunkSeq
      <4>2. Before(k + 1)' = e
        BY <1>1, <2>3, <3>3, <4>1
      <4>3. QED
        BY <3>11, <4>2 DEF StreamedFrom
    <3>13. Len(buf') <= limit
      <4>1. here <= limit
        BY DEF here
      <4>2. here - m <= limit
        BY <3>4, <4>1
      <4>3. QED
        BY <3>6, <4>2
    <3>14. ChunkWaits'
      <4>1. k + 1 \in 0 .. Len(message'.contents) /\ chunks' = Upto(message'.contents, k + 1)
        BY <2>3, <3>2
      <4>2. stage' = "size" /\ Len(chunks') < limit'
        BY <2>1, <3>2
      <4>3. QED
        BY <3>12, <4>1, <4>2 DEF ChunkWaits
    <3>15. ContentAsSent'
      BY <3>1 DEF ContentAsSent
    <3>16. QED
      BY <3>13, <3>14, <3>15 DEF ChunkReading
  <2>10. QED
    BY <2>8, <2>9
<1>8. QED
  BY <1>6, <1>7

\* The line before a chunk goes from the buffer; the chunk may be there already.
LEMMA ChunkedSizeRead ==
    ASSUME Chunky, ChunkReading, SizeRead
    PROVE  /\ ContentAsSent' /\ (outcome' = "none" => ChunkReading')
<1>1. /\ stage = "size" /\ ~Full /\ Ends # {} /\ outcome = "none"
      /\ UNCHANGED <<message, limit, wire>>
  BY DEF SizeRead, Handles, Delimited, Transferred
<1>2. PICK k \in 0 .. Len(message.contents) :
         chunks = Upto(message.contents, k) /\ Len(chunks) < limit /\ StreamedFrom(Before(k))
  BY <1>1 DEF ChunkReading, ChunkWaits
<1>3. Len(buf) >= 3 /\ Min(Ends) = 3 /\ HexValue(buf[1]) = Len(Piece(k))
  BY <1>1, <1>2, ChunkSizeRead
<1>4. Len(Piece(k)) \in 0 .. 9 /\ Before(k) \in Nat
  BY PieceIs
<1>5. /\ buf \in Seq(Int) /\ wire \in Seq(Int) /\ Len(buf) \in Nat /\ Len(wire) \in Nat
      /\ Before(k) + Len(buf) + Len(wire) = message.sent
      /\ message.sent \in Nat /\ message.sent <= Len(Bytes(message))
      /\ \A i \in 1 .. Len(buf) : buf[i] = Bytes(message)[Before(k) + i]
      /\ \A i \in 1 .. Len(wire) : wire[i] = Bytes(message)[Before(k) + Len(buf) + i]
  BY <1>2, LenProperties DEF StreamedFrom
<1>6. limit \in Nat /\ Len(buf) <= limit
  BY DEF ChunkReading
<1>7. PICK b : b = From(buf, 3 + 1)
  OBVIOUS
<1>8. 3 \in 0 .. Len(buf)
  BY <1>3, <1>5
<1>9. /\ b \in Seq(Int) /\ Len(b) = Len(buf) - 3
      /\ \A i \in 1 .. Len(buf) - 3 : b[i] = buf[3 + i]
  BY <1>5, <1>7, <1>8, FromIs
<1>10. PICK d \in Nat : d = Before(k)
  BY <1>4
<1>11. Len(b) \in Nat /\ d + 3 + Len(b) = d + Len(buf) /\ Len(b) <= limit
  BY <1>5, <1>6, <1>8, <1>9, SMTT(30)
<1>12. d + 3 + Len(b) + Len(wire) = message.sent
  BY <1>5, <1>10, <1>11
<1>13. ASSUME NEW i \in 1 .. Len(b) PROVE b[i] = Bytes(message)[d + 3 + i]
  <2>1. i \in 1 .. Len(buf) - 3 /\ 3 + i \in 1 .. Len(buf) /\ d + (3 + i) = d + 3 + i
    BY <1>5, <1>9
  <2>2. buf[3 + i] = Bytes(message)[d + (3 + i)]
    BY <1>5, <1>10, <2>1
  <2>3. QED
    BY <1>9, <2>1, <2>2
<1>14. ASSUME NEW i \in 1 .. Len(wire) PROVE wire[i] = Bytes(message)[d + 3 + Len(b) + i]
  BY <1>5, <1>10, <1>11
<1>15. PICK n \in 0 .. 9 : n = Len(Piece(k))
  BY <1>4
<1>16. \/ /\ stage' = "chunk" /\ length' = n /\ 2 + n > Len(b)
          /\ need' = 2 + n - Len(b) /\ buf' = b
          /\ UNCHANGED <<chunks, outcome>>
       \/ n + 2 <= Len(b) /\ TakeChunk(b, n)
  <2>1. From(buf, Min(Ends) + 1) = b
    BY <1>3, <1>7
  <2>2. HexValue(buf[1]) = n /\ ~(n < 0)
    BY <1>3, <1>15
  <2>3. IF 2 + n > Len(b)
          THEN /\ stage' = "chunk" /\ length' = n
               /\ need' = 2 + n - Len(b)
               /\ buf' = b
               /\ UNCHANGED <<chunks, outcome>>
          ELSE TakeChunk(b, n)
    BY <2>1, <2>2, Zenon DEF SizeRead
  <2>4. ~(2 + n > Len(b)) => n + 2 <= Len(b)
    BY <1>11
  <2>5. QED
    BY <2>3, <2>4
<1>17. CASE n + 2 <= Len(b) /\ TakeChunk(b, n)
  <2>1. Len(Piece(k)) + 2 <= Len(b) /\ TakeChunk(b, Len(Piece(k)))
    BY <1>15, <1>17
  <2>2. /\ Before(k) + 3 + Len(b) + Len(wire) = message.sent
        /\ \A i \in 1 .. Len(b) : b[i] = Bytes(message)[Before(k) + 3 + i]
        /\ \A i \in 1 .. Len(wire) : wire[i] = Bytes(message)[Before(k) + 3 + Len(b) + i]
    BY <1>10, <1>12, <1>13, <1>14
  <2>3. QED
    BY <1>1, <1>2, <1>5, <1>6, <1>9, <1>11, <2>1, <2>2, TakesChunk
<1>18. CASE /\ stage' = "chunk" /\ length' = n /\ 2 + n > Len(b)
            /\ need' = 2 + n - Len(b) /\ buf' = b
            /\ UNCHANGED <<chunks, outcome>>
  <2>1. need' \in Nat /\ need' + Len(buf') = length' + 2
    <3>1. 2 + n - Len(b) \in Nat /\ (2 + n - Len(b)) + Len(b) = n + 2
      BY <1>11, <1>18
    <3>2. QED
      BY <1>18, <3>1
  <2>2. Before(k)' = d /\ Len(Piece(k))' = n
    BY <1>1, <1>10, <1>15 DEF Before, ChunkSeq, Piece
  <2>3. /\ message' = message /\ Bytes(message)' = Bytes(message) /\ wire' = wire
    BY <1>1
  <2>4. StreamedFrom(d + 3)'
    BY <1>5, <1>9, <1>12, <1>13, <1>14, <1>18, <2>3 DEF StreamedFrom
  <2>5. StreamedFrom(Before(k) + 3)'
    BY <2>2, <2>4 DEF StreamedFrom
  <2>6. ChunkWaits'
    <3>1. k \in 0 .. Len(message'.contents) /\ chunks' = Upto(message'.contents, k) /\ Len(chunks') < limit'
      BY <1>1, <1>2, <1>18
    <3>2. length' = Len(Piece(k))'
      BY <1>18, <2>2
    <3>3. QED
      BY <1>18, <2>1, <2>5, <3>1, <3>2 DEF ChunkWaits
  <2>7. ContentAsSent'
    BY <1>1, <1>18 DEF ContentAsSent
  <2>8. QED
    BY <1>1, <1>6, <1>11, <1>18, <2>6, <2>7 DEF ChunkReading
<1>19. QED
  BY <1>16, <1>17, <1>18

\* A chunk for which the reader has waited.
LEMMA ChunkedChunkRead ==
    ASSUME Chunky, ChunkReading, ChunkRead
    PROVE  ContentAsSent' /\ (outcome' = "none" => ChunkReading')
<1>1. /\ stage = "chunk" /\ ~Full /\ need = 0 /\ outcome = "none"
      /\ UNCHANGED <<message, limit, wire>> /\ TakeChunk(buf, length)
  BY DEF ChunkRead, Handles, Delimited, Transferred
<1>2. PICK k \in 0 .. Len(message.contents) :
         /\ chunks = Upto(message.contents, k) /\ Len(chunks) < limit
         /\ StreamedFrom(Before(k) + 3)
         /\ length = Len(Piece(k)) /\ need + Len(buf) = length + 2
  BY <1>1 DEF ChunkReading, ChunkWaits
<1>3. PICK b : b = buf
  OBVIOUS
<1>4. limit \in Nat /\ Len(buf) <= limit
  BY DEF ChunkReading
<1>5. /\ b \in Seq(Int) /\ wire \in Seq(Int) /\ Len(b) \in Nat
      /\ Before(k) + 3 + Len(b) + Len(wire) = message.sent
      /\ \A i \in 1 .. Len(b) : b[i] = Bytes(message)[Before(k) + 3 + i]
      /\ \A i \in 1 .. Len(wire) : wire[i] = Bytes(message)[Before(k) + 3 + Len(b) + i]
  BY <1>2, <1>3, LenProperties DEF StreamedFrom
<1>6. Len(Piece(k)) + 2 <= Len(b)
  <2>1. Len(Piece(k)) \in 0 .. 9
    BY PieceIs
  <2> DEFINE n == Len(Piece(k))
             m == Len(b)
  <2>2. n \in 0 .. 9 /\ m \in Nat /\ 0 + m = n + 2
    BY <1>1, <1>2, <1>3, <1>5, <2>1
  <2> HIDE DEF n, m
  <2>3. n + 2 <= m
    BY <2>2
  <2>4. QED
    BY <2>3 DEF n, m
<1>7. TakeChunk(b, Len(Piece(k)))
  BY <1>1, <1>2, <1>3
<1>8. QED
  BY <1>1, <1>2, <1>3, <1>4, <1>5, <1>6, <1>7, TakesChunk

-----------------------------------------------------------------------------
(* Every step                                                              *)

\* Every step keeps the invariant; a message that is over stays as it is.
LEMMA IInvStep == IInv /\ [Next]_vars => IInv'
<1> SUFFICES ASSUME IInv, [Next]_vars PROVE IInv'
  OBVIOUS
<1>1. message' = message
  BY DEF Next, FramingNext, vars, framingVars, Arrives, Eof, TooLarge, HeaderRead, ContentRead,
     SizeRead, ChunkRead
<1>2. CASE message.framing # "chunked"
  <2>1. Shape /\ (outcome = "none" => Reading) /\ ContentAsSent
    BY <1>2 DEF IInv
  <2>2. Shape'
    BY <1>1, <2>1 DEF Shape
  <2>3. CASE Arrives
    <3>1. outcome = "none" /\ outcome' = "none"
      BY <2>3 DEF Arrives
    <3>2. ContentAsSent'
      BY <3>1 DEF ContentAsSent
    <3>3. Reading'
      BY <2>1, <2>3, <3>1, ArrivesStep
    <3>4. QED
      BY <1>1, <1>2, <2>2, <3>2, <3>3 DEF IInv
  <2>4. CASE Eof
    <3>1. ContentAsSent' /\ outcome' # "none"
      BY <1>2, <2>1, <2>4, EofStep DEF Eof
    <3>2. QED
      BY <1>1, <1>2, <2>2, <3>1 DEF IInv
  <2>5. CASE TooLarge
    <3>1. ContentAsSent' /\ outcome' # "none"
      BY <1>2, <2>1, <2>5, TooLargeStep DEF TooLarge
    <3>2. QED
      BY <1>1, <1>2, <2>2, <3>1 DEF IInv
  <2>6. CASE HeaderRead
    <3>1. ContentAsSent' /\ (outcome' = "none" => Reading')
      BY <1>2, <2>1, <2>6, HeaderReadStep DEF HeaderRead, Handles
    <3>2. QED
      BY <1>1, <1>2, <2>2, <3>1 DEF IInv
  <2>7. CASE ContentRead
    <3>1. ContentAsSent' /\ outcome' # "none"
      BY <1>2, <2>1, <2>7, ContentReadStep DEF ContentRead, Handles
    <3>2. QED
      BY <1>1, <1>2, <2>2, <3>1 DEF IInv
  <2>8. CASE SizeRead
    <3>1. ContentAsSent' /\ outcome' # "none"
      BY <1>2, <2>1, <2>8, SizeReadStep DEF SizeRead, Handles
    <3>2. QED
      BY <1>1, <1>2, <2>2, <3>1 DEF IInv
  <2>9. CASE ChunkRead
    BY <2>1, <2>9 DEF ChunkRead, Handles, Reading, Waits
  <2>10. CASE UNCHANGED vars
    <3>1. outcome' = outcome /\ ContentAsSent'
      BY <2>1, <2>10 DEF vars, framingVars, ContentAsSent
    <3>2. outcome = "none" => Reading'
      BY <2>1, <2>10 DEF vars, framingVars, Reading, Streamed, StreamedFrom, Waits, Dropped
    <3>3. QED
      BY <1>1, <1>2, <2>2, <3>1, <3>2 DEF IInv
  <2>11. QED
    BY <2>3, <2>4, <2>5, <2>6, <2>7, <2>8, <2>9, <2>10 DEF Next, FramingNext
<1>3. CASE message.framing = "chunked"
  <2>1. Chunky /\ (outcome = "none" => ChunkReading) /\ ContentAsSent
    BY <1>3 DEF IInv
  <2>2. Chunky'
    BY <1>1, <2>1 DEF Chunky
  <2>3. CASE Arrives
    <3>1. outcome = "none" /\ outcome' = "none" /\ ChunkReading'
      BY <2>1, <2>3, ChunkedArrives DEF Arrives
    <3>2. ContentAsSent'
      BY <3>1 DEF ContentAsSent
    <3>3. QED
      BY <1>1, <1>3, <2>2, <3>1, <3>2 DEF IInv
  <2>4. CASE Eof
    <3>1. ContentAsSent' /\ outcome' # "none"
      BY <2>1, <2>4, ChunkedEof DEF Eof
    <3>2. QED
      BY <1>1, <1>3, <2>2, <3>1 DEF IInv
  <2>5. CASE TooLarge
    <3>1. ContentAsSent' /\ outcome' # "none"
      BY <2>1, <2>5, ChunkedTooLarge DEF TooLarge
    <3>2. QED
      BY <1>1, <1>3, <2>2, <3>1 DEF IInv
  <2>6. CASE HeaderRead
    <3>1. outcome' = "none" /\ ChunkReading'
      BY <2>1, <2>6, ChunkedHeaderRead DEF HeaderRead, Handles
    <3>2. ContentAsSent'
      BY <3>1 DEF ContentAsSent
    <3>3. QED
      BY <1>1, <1>3, <2>2, <3>1, <3>2 DEF IInv
  <2>7. CASE ContentRead
    BY <2>1, <2>7 DEF ContentRead, Handles, ChunkReading, ChunkWaits
  <2>8. CASE SizeRead
    <3>1. ContentAsSent' /\ (outcome' = "none" => ChunkReading')
      BY <2>1, <2>8, ChunkedSizeRead DEF SizeRead, Handles
    <3>2. QED
      BY <1>1, <1>3, <2>2, <3>1 DEF IInv
  <2>9. CASE ChunkRead
    <3>1. ContentAsSent' /\ (outcome' = "none" => ChunkReading')
      BY <2>1, <2>9, ChunkedChunkRead DEF ChunkRead, Handles
    <3>2. QED
      BY <1>1, <1>3, <2>2, <3>1 DEF IInv
  <2>10. CASE UNCHANGED vars
    <3>1. outcome' = outcome /\ ContentAsSent'
      BY <2>1, <2>10 DEF vars, framingVars, ContentAsSent
    <3>2. outcome = "none" => ChunkReading'
      <4>1. UNCHANGED <<message, limit, wire, stage, buf, need, length, chunks>>
        BY <2>10 DEF vars, framingVars
      <4>2. SUFFICES ASSUME ChunkReading PROVE ChunkReading'
        BY <2>1, <3>1
      <4>3. limit' \in Nat /\ Len(buf') <= limit'
        BY <4>1, <4>2 DEF ChunkReading
      <4>4. \A d : StreamedFrom(d) => StreamedFrom(d)'
        BY <4>1 DEF StreamedFrom
      <4>5. CASE stage = "header"
        BY <4>1, <4>2, <4>3, <4>4, <4>5 DEF ChunkReading, ChunkWaits
      <4>6. CASE stage # "header"
        <5>1. PICK k \in 0 .. Len(message.contents) :
                /\ chunks = Upto(message.contents, k) /\ Len(chunks) < limit
                /\ \/ stage = "size" /\ StreamedFrom(Before(k))
                   \/ /\ stage = "chunk" /\ StreamedFrom(Before(k) + 3)
                      /\ length = Len(Piece(k))
                      /\ need \in Nat /\ need + Len(buf) = length + 2
          BY <4>2, <4>6 DEF ChunkReading, ChunkWaits
        <5>2. Before(k)' = Before(k) /\ Piece(k)' = Piece(k)
          BY <4>1 DEF Before, ChunkSeq, Piece
        <5>3. /\ StreamedFrom(Before(k)) => StreamedFrom(Before(k))'
              /\ StreamedFrom(Before(k) + 3) => StreamedFrom(Before(k) + 3)'
          BY <4>1, <5>2 DEF StreamedFrom
        <5>4. QED
          BY <4>1, <4>3, <5>1, <5>2, <5>3 DEF ChunkReading, ChunkWaits
      <4>7. QED
        BY <4>5, <4>6
    <3>3. QED
      BY <1>1, <1>3, <2>2, <3>1, <3>2 DEF IInv
  <2>11. QED
    BY <2>3, <2>4, <2>5, <2>6, <2>7, <2>8, <2>9, <2>10 DEF Next, FramingNext
<1>4. QED
  BY <1>2, <1>3

\* The inductive invariant holds of the reader.
THEOREM Invariance == Spec => []IInv
  BY IInvInit, IInvStep, PTL DEF Spec

\* Whatever its bytes, however they are cut into pieces and whether it is chunked
\* or not, a content is delivered as it was sent, below any limit, or refused for
\* a reason.
THEOREM ContentCorrect == Spec => []ContentAsSent
<1>1. IInv => ContentAsSent
  BY DEF IInv
<1>2. QED
  BY <1>1, Invariance, PTL

-----------------------------------------------------------------------------
(* Types                                                                   *)

\* What has not come is an end of what is sent.
Coming ==
    /\ wire \in Seq(Int)
    /\ Len(wire) <= message.sent
    /\ message.sent <= Len(Bytes(message))
    /\ \A i \in 1 .. Len(wire) : wire[i] = Bytes(message)[(message.sent - Len(wire)) + i]

\* The reader's limit is kept by all its buffers.
Bounded ==
    /\ limit \in Limits
    /\ stage \in Stages
    /\ Len(buf) <= limit
    /\ need \in Nat
    /\ length \in 0 .. 9
    /\ Len(chunks) <= limit
    /\ outcome \in {"none", "delivered", "too_large", "protocol", "failed"}

TypeInv == Coming /\ Bounded

\* A sequence of bytes with the same bytes up to the end is a suffix.
LEMMA SuffixIs ==
    ASSUME NEW s \in Seq(Int), NEW t \in Seq(Int), Len(s) <= Len(t),
           \A i \in 1 .. Len(s) : s[i] = t[(Len(t) - Len(s)) + i]
    PROVE  IsSuffix(s, t)
<1> DEFINE a == Reverse(s)
           b == Reverse(t)
           m == Len(s)
           n == Len(t)
<1>1. m \in Nat /\ n \in Nat /\ m <= n
  BY LenProperties
<1>2. /\ \A i \in 1 .. m : s[i] \in Int
      /\ \A i \in 1 .. n : t[i] \in Int
  BY <1>1, ElementOfSeq
<1>3. \A i \in 1 .. m : s[i] = t[(n - m) + i]
  OBVIOUS
<1>4. /\ a = [i \in 1 .. m |-> s[(m - i) + 1]]
      /\ b = [i \in 1 .. n |-> t[(n - i) + 1]]
  BY DEF Reverse
<1> HIDE DEF m, n, a, b
<1>5. /\ \A i \in 1 .. m : (m - i) + 1 \in 1 .. m
      /\ \A i \in 1 .. n : (n - i) + 1 \in 1 .. n
  BY <1>1
<1>6. a \in Seq(Int) /\ b \in Seq(Int) /\ Len(a) = m /\ Len(b) = n
  <2>1. a \in [1 .. m -> Int] /\ b \in [1 .. n -> Int]
    BY <1>2, <1>4, <1>5
  <2>2. QED
    BY <1>1, <1>4, <2>1
<1>7. ASSUME NEW i \in 1 .. m PROVE a[i] = b[i]
  <2>1. i \in 1 .. n /\ (m - i) + 1 \in 1 .. m /\ (n - m) + ((m - i) + 1) = (n - i) + 1
    BY <1>1
  <2>2. s[(m - i) + 1] = t[(n - m) + ((m - i) + 1)]
    BY <1>3, <2>1
  <2>3. QED
    BY <1>4, <2>1, <2>2
<1>8. m \in 0 .. Len(a) /\ m \in 0 .. Len(b)
  BY <1>1, <1>6
<1>9. /\ SubSeq(a, 1, m) \in Seq(Int) /\ Len(SubSeq(a, 1, m)) = m
      /\ \A i \in 1 .. m : SubSeq(a, 1, m)[i] = a[i]
      /\ SubSeq(b, 1, m) \in Seq(Int) /\ Len(SubSeq(b, 1, m)) = m
      /\ \A i \in 1 .. m : SubSeq(b, 1, m)[i] = b[i]
  BY <1>6, <1>8, FrontIs
<1>10. SubSeq(a, 1, m) = SubSeq(b, 1, m)
  BY <1>7, <1>9, SeqEqual
<1>11. QED
  BY <1>1, <1>6, <1>10 DEF IsSuffix, IsPrefix, a, b

\* A message is a sequence of bytes, and what is sent of it no more.
LEMMA SentIs ==
    ASSUME IInv, message.sent <= Len(Bytes(message))
    PROVE  /\ Bytes(message) \in Seq(Int) /\ Len(Bytes(message)) \in Nat
           /\ message.sent \in 0 .. Len(Bytes(message))
<1>1. Bytes(message) \in Seq(Int) /\ message.sent \in Nat
  <2>1. CASE message.framing = "chunked"
    BY <2>1, ChunkedBytes DEF IInv, Chunky
  <2>2. CASE message.framing # "chunked"
    BY <2>2, BytesAre DEF IInv, Shape
  <2>3. QED
    BY <2>1, <2>2
<1>2. Len(Bytes(message)) \in Nat
  BY <1>1, LenProperties
<1>3. QED
  BY <1>1, <1>2

\* The type invariant says what the run checks.
LEMMA TypeInvType ==
    ASSUME IInv, TypeInv
    PROVE  TypeOK
<1> DEFINE all == Bytes(message)
           t == SubSeq(all, 1, message.sent)
<1>1. all \in Seq(Int) /\ message.sent \in 0 .. Len(all)
  BY SentIs DEF TypeInv, Coming
<1>2. t \in Seq(Int) /\ Len(t) = message.sent /\ \A i \in 1 .. message.sent : t[i] = all[i]
  BY <1>1, FrontIs
<1>3. /\ wire \in Seq(Int) /\ Len(wire) \in Nat /\ Len(wire) <= message.sent
      /\ \A i \in 1 .. Len(wire) : wire[i] = all[(message.sent - Len(wire)) + i]
  BY LenProperties DEF TypeInv, Coming
<1> HIDE DEF all, t
<1>4. ASSUME NEW i \in 1 .. Len(wire) PROVE wire[i] = t[(Len(t) - Len(wire)) + i]
  <2>1. message.sent \in Nat
    BY <1>1
  <2>2. (message.sent - Len(wire)) + i \in 1 .. message.sent
    BY <1>3, <2>1
  <2>3. QED
    BY <1>2, <1>3, <2>2
<1>5. IsSuffix(wire, t)
  BY <1>2, <1>3, <1>4, SuffixIs
<1>6. QED
  BY <1>5 DEF TypeInv, Bounded, TypeOK, FramingTypeOK, t, all

\* Nothing has come yet.
LEMMA TypeInvInit == Init => TypeInv
<1> SUFFICES ASSUME Init PROVE TypeInv
  OBVIOUS
<1>1. /\ stage = "header" /\ buf = <<>> /\ chunks = <<>> /\ outcome = "none"
      /\ need = 0 /\ length = 0
  BY DEF Init, FramingInit
<1>2. IInv
  BY IInvInit
<1>3. StreamedFrom(0) /\ limit \in Nat
  BY <1>1, <1>2 DEF IInv, Reading, Streamed, Dropped, ChunkReading, ChunkWaits
<1>4. Coming
  <2>1. Len(buf) = 0
    BY <1>1, EmptySeq
  <2>2. /\ wire \in Seq(Int) /\ Len(wire) \in Nat /\ message.sent \in Nat
        /\ message.sent <= Len(Bytes(message))
        /\ 0 + 0 + Len(wire) = message.sent
        /\ \A i \in 1 .. Len(wire) : wire[i] = Bytes(message)[0 + 0 + i]
    BY <1>3, <2>1, LenProperties DEF StreamedFrom
  <2>3. Len(wire) = message.sent /\ \A i \in 1 .. Len(wire) : 0 + 0 + i = (message.sent - Len(wire)) + i
    BY <2>2
  <2>4. QED
    BY <2>2, <2>3 DEF Coming
<1>5. limit \in Limits
  <2>1. \E longest \in Limits : \A other \in Limits : longest >= other
    BY SizesAssumption
  <2>2. Max(Limits) \in Limits
    BY <2>1 DEF Max
  <2>3. QED
    BY <2>2 DEF Init, FramingInit
<1>6. Len(<<>>) = 0
  OBVIOUS
<1>7. QED
  BY <1>1, <1>3, <1>4, <1>5, <1>6 DEF TypeInv, Bounded, Stages

\* A message that is not over is read into a sequence of bytes.
LEMMA BufferIs ==
    ASSUME IInv, outcome = "none"
    PROVE  buf \in Seq(Int) /\ Len(buf) \in Nat /\ limit \in Nat
<1>1. buf \in Seq(Int) /\ limit \in Nat
  BY DEF IInv, Reading, Streamed, StreamedFrom, ChunkReading, ChunkWaits
<1>2. QED
  BY <1>1, LenProperties

\* A piece that arrives is not on the wire any more, and has room.
LEMMA ArrivesTyped ==
    ASSUME IInv, TypeInv, Arrives
    PROVE  TypeInv'
<1>1. PICK n \in 1 .. Len(wire) :
        /\ n <= limit - Len(buf)
        /\ stage \in {"content", "chunk"} => n <= need
        /\ buf' = buf \o SubSeq(wire, 1, n)
        /\ wire' = From(wire, n + 1)
        /\ need' = IF stage \in {"content", "chunk"} THEN need - n ELSE need
  BY DEF Arrives
<1>2. UNCHANGED <<message, limit, stage, length, chunks, outcome>> /\ outcome = "none"
  BY DEF Arrives
<1>3. /\ buf \in Seq(Int) /\ Len(buf) \in Nat /\ limit \in Nat
      /\ wire \in Seq(Int) /\ Len(wire) \in Nat /\ need \in Nat
  BY <1>2, BufferIs, LenProperties DEF TypeInv, Coming, Bounded
<1>4. n \in 0 .. Len(wire)
  BY <1>3
<1>5. SubSeq(wire, 1, n) \in Seq(Int) /\ Len(SubSeq(wire, 1, n)) = n
  BY <1>3, <1>4, FrontIs
<1>6. /\ wire' \in Seq(Int) /\ Len(wire') = Len(wire) - n
      /\ \A i \in 1 .. Len(wire) - n : wire'[i] = wire[n + i]
  BY <1>1, <1>3, <1>4, FromIs
<1>7. Len(buf') = Len(buf) + n
  BY <1>1, <1>3, <1>5, Parts
<1>8. Coming'
  <2>1. /\ Len(wire) <= message.sent /\ message.sent <= Len(Bytes(message))
        /\ \A i \in 1 .. Len(wire) : wire[i] = Bytes(message)[(message.sent - Len(wire)) + i]
    BY DEF TypeInv, Coming
  <2>2. message.sent \in Nat
    BY <2>1, SentIs
  <2>3. ASSUME NEW i \in 1 .. Len(wire') PROVE wire'[i] = Bytes(message)[(message.sent - Len(wire')) + i]
    <3>1. /\ i \in 1 .. Len(wire) - n /\ n + i \in 1 .. Len(wire)
          /\ (message.sent - Len(wire)) + (n + i) = (message.sent - Len(wire')) + i
      <4> DEFINE w == Len(wire)
                 v == Len(wire')
      <4>1. w \in Nat /\ v = w - n /\ v \in Nat /\ i \in 1 .. v /\ n \in 1 .. w
        BY <1>3, <1>6, LenProperties
      <4> HIDE DEF w, v
      <4>2. i \in 1 .. w - n /\ n + i \in 1 .. w
        BY <4>1
      <4>3. (message.sent - w) + (n + i) = (message.sent - v) + i
        BY <2>2, <4>1
      <4>4. QED
        BY <4>2, <4>3 DEF w, v
    <3>2. QED
      BY <1>6, <2>1, <3>1
  <2>4. Len(wire') <= message.sent
    BY <1>3, <1>6, <2>1, <2>2
  <2>5. QED
    BY <1>2, <1>6, <2>1, <2>3, <2>4 DEF Coming
<1>9. need' \in Nat /\ Len(buf') <= limit
  BY <1>1, <1>3, <1>7
<1>10. QED
  BY <1>2, <1>8, <1>9 DEF TypeInv, Bounded

\* The end of a delimiter is in the buffer.
LEMMA EndsIn ==
    ASSUME buf \in Seq(Int), Ends # {}
    PROVE  Min(Ends) \in 1 .. Len(buf)
<1>1. Len(Delimiter) \in Nat /\ Len(Delimiter) >= 1
  <2>1. Delimiter = <<13, 10>> \/ Delimiter = <<13, 10, 13, 10>>
    BY EndOfHeaderIs DEF Delimiter, Line, CR, LF
  <2>2. Len(<<13, 10>>) = 2 /\ Len(<<13, 10, 13, 10>>) = 4
    OBVIOUS
  <2>3. Len(Delimiter) = 2 \/ Len(Delimiter) = 4
    BY <2>1, <2>2
  <2> DEFINE n == Len(Delimiter)
  <2>4. n = 2 \/ n = 4
    BY <2>3
  <2> HIDE DEF n
  <2>5. n \in Nat /\ n >= 1
    BY <2>4
  <2>6. QED
    BY <2>5 DEF n
<1>2. Len(buf) \in Nat
  BY LenProperties
<1>3. \A i \in Ends : i \in 1 .. Len(buf)
  BY <1>1, <1>2 DEF Ends
<1>4. Ends \in SUBSET Nat
  BY <1>2, <1>3
<1>5. \E n \in Ends : \A m \in Ends : n <= m
  BY <1>4, Least
<1>6. Min(Ends) \in Ends
  BY <1>5 DEF Min
<1>7. QED
  BY <1>3, <1>6

\* What is left of a sequence is not longer.
LEMMA FromBounded ==
    ASSUME NEW s \in Seq(Int), NEW n \in 1 .. Len(s) + 1
    PROVE  From(s, n) \in Seq(Int) /\ Len(From(s, n)) <= Len(s)
<1>1. Len(s) \in Nat
  BY LenProperties
<1>2. PICK m \in 0 .. Len(s) : n = m + 1
  <2>1. n - 1 \in 0 .. Len(s) /\ n = (n - 1) + 1
    BY <1>1
  <2>2. QED
    BY <2>1
<1>3. From(s, m + 1) \in Seq(Int) /\ Len(From(s, m + 1)) = Len(s) - m
  BY FromIs
<1>4. QED
  BY <1>1, <1>2, <1>3

\* A chunk is cut where the buffers are full.
LEMMA TakesBounded ==
    ASSUME outcome = "none", stage \in Stages, limit \in Nat,
           chunks \in Seq(Int), Len(chunks) <= limit,
           NEW b \in Seq(Int), Len(b) <= limit, NEW n \in Nat, n + 2 <= Len(b),
           TakeChunk(b, n)
    PROVE  /\ Len(buf') <= limit /\ Len(chunks') <= limit
           /\ need' = 0 /\ length' = 0 /\ stage' \in Stages
           /\ outcome' \in {"none", "delivered", "too_large"}
<1>1. Len(b) \in Nat /\ Len(chunks) \in Nat
  BY LenProperties
<1>2. n + 3 \in 1 .. Len(b) + 1 /\ n + 1 \in 1 .. Len(b) + 1 /\ n \in 0 .. Len(b)
  BY <1>1
<1>3. /\ From(b, n + 3) \in Seq(Int) /\ Len(From(b, n + 3)) <= Len(b)
      /\ From(b, n + 1) \in Seq(Int) /\ Len(From(b, n + 1)) <= Len(b)
  BY <1>2, FromBounded
<1>4. Len(From(b, n + 3)) <= limit /\ Len(From(b, n + 1)) <= limit
  <2>1. Len(From(b, n + 3)) \in Nat /\ Len(From(b, n + 1)) \in Nat
    BY <1>3, LenProperties
  <2>2. QED
    BY <1>1, <1>3, <2>1
<1>5. need' = 0 /\ length' = 0
  BY DEF TakeChunk
<1>6. CASE n = 0
  <2> DEFINE joined == From(b, n + 3) \o chunks
             size == Min({limit, Len(joined)})
  <2>1. buf' = SubSeq(joined, 1, size) /\ chunks' = chunks /\ stage' = stage /\ outcome' = "delivered"
    BY <1>6 DEF TakeChunk
  <2>2. joined \in Seq(Int) /\ Len(joined) \in Nat
    BY <1>3, Parts, LenProperties
  <2> HIDE DEF joined
  <2>3. size \in Nat /\ size <= limit /\ size <= Len(joined)
    BY <2>2, SmallerOf
  <2>4. size \in 0 .. Len(joined)
    BY <2>2, <2>3
  <2> HIDE DEF size
  <2>5. Len(SubSeq(joined, 1, size)) = size
    BY <2>2, <2>4, FrontIs
  <2>6. QED
    BY <1>5, <2>1, <2>3, <2>5
<1>7. CASE n # 0
  <2> DEFINE all == chunks \o SubSeq(b, 1, n)
             size == Min({limit, Len(chunks) + n})
  <2>1. /\ chunks' = SubSeq(all, 1, size) /\ stage' = "size"
        /\ buf' \in {From(b, n + 1), From(b, n + 3)}
        /\ outcome' \in {"too_large", outcome}
    BY <1>7 DEF TakeChunk
  <2>2. SubSeq(b, 1, n) \in Seq(Int) /\ Len(SubSeq(b, 1, n)) = n
    BY <1>2, FrontIs
  <2>3. all \in Seq(Int) /\ Len(all) = Len(chunks) + n
    BY <2>2, Parts
  <2> HIDE DEF all
  <2>4. Len(chunks) + n \in Nat
    BY <1>1
  <2>5. size \in Nat /\ size <= limit /\ size <= Len(chunks) + n
    BY <2>4, SmallerOf
  <2>6. size \in 0 .. Len(all)
    BY <2>3, <2>4, <2>5
  <2> HIDE DEF size
  <2>7. Len(SubSeq(all, 1, size)) = size
    BY <2>3, <2>6, FrontIs
  <2>8. QED
    BY <1>4, <1>5, <2>1, <2>5, <2>7 DEF Stages
<1>8. QED
  BY <1>6, <1>7

\* What the handler of a header makes of the message.
LEMMA HeaderReadTyped ==
    ASSUME IInv, TypeInv, HeaderRead
    PROVE  TypeInv'
<1> DEFINE missing == Len(Content(message)) - Len(buf')
<1>1. /\ outcome = "none" /\ Ends # {} /\ stage = "header"
      /\ buf' = From(buf, Min(Ends) + 1) /\ UNCHANGED <<message, limit, wire>>
  BY DEF HeaderRead, Handles, Delimited, Transferred
<1>2. buf \in Seq(Int) /\ Len(buf) \in Nat /\ limit \in Nat
  BY <1>1, BufferIs
<1>3. Min(Ends) + 1 \in 1 .. Len(buf) + 1
  BY <1>1, <1>2, EndsIn
<1>4. buf' \in Seq(Int) /\ Len(buf') <= Len(buf) /\ Len(buf') \in Nat
  BY <1>1, <1>2, <1>3, FromBounded, LenProperties
<1>5. Len(buf') <= limit
  BY <1>2, <1>4 DEF TypeInv, Bounded
<1>6. message.framing \in Framings
  BY DEF IInv, Shape, Chunky, Framings
<1>7. message.framing = "length" => missing \in Int
  BY <1>4, LenProperties DEF IInv, Shape
<1>8. message.framing = "length" => missing > 0 \/ missing <= 0
  BY <1>7
<1> HIDE DEF missing
<1>9. \/ Awaits("content", missing) /\ missing > 0 /\ missing \in Int
      \/ Outcome("delivered") \/ Outcome("protocol")
      \/ Awaits("size", 0) \/ Awaits("rest", 0)
  <2>1. CASE message.framing = "length"
    BY <1>7, <1>8, <2>1 DEF HeaderRead, missing
  <2>2. CASE message.framing # "length"
    BY <1>6, <2>2 DEF HeaderRead, Framings
  <2>3. QED
    BY <2>1, <2>2
<1>10. /\ stage' \in Stages /\ need' \in Nat /\ length' = length /\ chunks' = chunks
       /\ outcome' \in {"none", "delivered", "protocol"}
  <2>1. stage \in Stages /\ need \in Nat
    BY DEF TypeInv, Bounded
  <2>2. QED
    BY <1>1, <1>9, <2>1 DEF Awaits, Outcome, Stages
<1>11. QED
  BY <1>1, <1>5, <1>10 DEF TypeInv, Bounded, Coming

\* What the handlers of a chunk make of it.
LEMMA ChunkTyped ==
    ASSUME IInv, TypeInv, SizeRead \/ ChunkRead
    PROVE  TypeInv'
<1>1. /\ outcome = "none" /\ UNCHANGED <<message, limit, wire>>
      /\ SizeRead => stage = "size" /\ Ends # {}
      /\ ChunkRead => stage = "chunk" /\ need = 0 /\ TakeChunk(buf, length)
  BY DEF SizeRead, ChunkRead, Handles, Delimited, Transferred
<1>2. Coming'
  BY <1>1 DEF TypeInv, Coming
<1>3. buf \in Seq(Int) /\ Len(buf) \in Nat /\ limit \in Nat
  BY <1>1, BufferIs
<1>4. stage \in Stages /\ Len(buf) <= limit /\ Len(chunks) <= limit /\ limit \in Limits
      /\ need \in Nat /\ length \in 0 .. 9
  BY DEF TypeInv, Bounded
<1>5. CASE message.framing # "chunked"
  <2>1. Shape /\ Reading
    BY <1>1, <1>5 DEF IInv
  <2>2. SizeRead
    BY <1>1, <2>1 DEF Reading, Waits
  <2>3. HexValue(buf[1]) < 0
    <3>1. buf[1] = 90
      BY <1>1, <2>1, <2>2, SizeEnds
    <3>2. QED
      BY <3>1 DEF HexValue, Lower
  <2>4. Outcome("protocol") /\ buf' = From(buf, Min(Ends) + 1)
    BY <2>2, <2>3 DEF SizeRead
  <2>5. Min(Ends) + 1 \in 1 .. Len(buf) + 1
    BY <1>1, <1>3, <2>2, EndsIn
  <2>6. Len(buf') <= Len(buf) /\ Len(buf') \in Nat
    BY <1>3, <2>4, <2>5, FromBounded, LenProperties
  <2>7. Len(buf') <= limit
    BY <1>3, <1>4, <2>6
  <2>8. QED
    BY <1>1, <1>2, <1>4, <2>4, <2>7 DEF Outcome, TypeInv, Bounded
<1>6. CASE message.framing = "chunked"
  <2>1. Chunky /\ ChunkReading
    BY <1>1, <1>6 DEF IInv
  <2>2. PICK k \in 0 .. Len(message.contents) :
           /\ chunks = Upto(message.contents, k)
           /\ \/ stage = "size" /\ StreamedFrom(Before(k))
              \/ stage = "chunk" /\ length = Len(Piece(k)) /\ need + Len(buf) = length + 2
    BY <1>1, <2>1 DEF ChunkReading, ChunkWaits
  <2>3. chunks \in Seq(Int)
    BY <2>1, <2>2, AsideBefore
  <2>4. PICK n \in 0 .. 9 : n = Len(Piece(k))
    BY <2>1, PieceIs
  <2>5. CASE ChunkRead
    <3>1. n + 2 <= Len(buf) /\ TakeChunk(buf, n) /\ n \in Nat
      BY <1>1, <1>3, <2>2, <2>4, <2>5
    <3>2. /\ Len(buf') <= limit /\ Len(chunks') <= limit
          /\ need' = 0 /\ length' = 0 /\ stage' \in Stages
          /\ outcome' \in {"none", "delivered", "too_large"}
      BY <1>1, <1>3, <1>4, <2>3, <3>1, TakesBounded
    <3>3. QED
      BY <1>1, <1>2, <1>4, <3>2 DEF TypeInv, Bounded
  <2>6. CASE SizeRead
    <3>1. Len(buf) >= 3 /\ Min(Ends) = 3 /\ HexValue(buf[1]) = n
      BY <1>1, <2>1, <2>2, <2>4, <2>6, ChunkSizeRead
    <3>2. PICK b : b = From(buf, 4)
      OBVIOUS
    <3>3. b \in Seq(Int) /\ Len(b) <= Len(buf) /\ Len(b) \in Nat
      <4>1. 4 \in 1 .. Len(buf) + 1
        BY <1>3, <3>1
      <4>2. QED
        BY <1>3, <3>2, <4>1, FromBounded, LenProperties
    <3>4. \/ /\ stage' = "chunk" /\ length' = n /\ 2 + n > Len(b)
             /\ need' = 2 + n - Len(b) /\ buf' = b
             /\ UNCHANGED <<chunks, outcome>>
          \/ n + 2 <= Len(b) /\ TakeChunk(b, n)
      <4>1. From(buf, Min(Ends) + 1) = b
        BY <3>1, <3>2
      <4>2. ~(n < 0)
        OBVIOUS
      <4>3. IF 2 + n > Len(b)
            THEN /\ stage' = "chunk" /\ length' = n
                 /\ need' = 2 + n - Len(b)
                 /\ buf' = b
                 /\ UNCHANGED <<chunks, outcome>>
            ELSE TakeChunk(b, n)
        BY <2>6, <3>1, <4>1, <4>2, Zenon DEF SizeRead
      <4>4. ~(2 + n > Len(b)) => n + 2 <= Len(b)
        BY <3>3
      <4>5. QED
        BY <4>3, <4>4
    <3>5. CASE n + 2 <= Len(b) /\ TakeChunk(b, n)
      <4>1. Len(b) <= limit /\ n \in Nat
        BY <1>3, <1>4, <3>3
      <4>2. /\ Len(buf') <= limit /\ Len(chunks') <= limit
            /\ need' = 0 /\ length' = 0 /\ stage' \in Stages
            /\ outcome' \in {"none", "delivered", "too_large"}
        BY <1>1, <1>3, <1>4, <2>3, <3>3, <3>5, <4>1, TakesBounded
      <4>3. QED
        BY <1>1, <1>2, <1>4, <4>2 DEF TypeInv, Bounded
    <3>6. CASE /\ stage' = "chunk" /\ length' = n /\ 2 + n > Len(b)
               /\ need' = 2 + n - Len(b) /\ buf' = b
               /\ UNCHANGED <<chunks, outcome>>
      <4>1. need' \in Nat /\ Len(buf') <= limit
        BY <1>3, <1>4, <3>3, <3>6
      <4>2. QED
        BY <1>1, <1>2, <1>4, <3>6, <4>1 DEF TypeInv, Bounded, Stages
    <3>7. QED
      BY <3>4, <3>5, <3>6
  <2>7. QED
    BY <2>5, <2>6
<1>7. QED
  BY <1>5, <1>6

\* Every step keeps the types.
LEMMA TypeInvStep == IInv /\ TypeInv /\ [Next]_vars => TypeInv'
<1> SUFFICES ASSUME IInv, TypeInv, [Next]_vars PROVE TypeInv'
  OBVIOUS
<1>1. CASE Arrives
  BY <1>1, ArrivesTyped
<1>2. CASE Eof
  BY <1>2 DEF Eof, TypeInv, Bounded, Coming
<1>3. CASE TooLarge
  BY <1>3 DEF TooLarge, TypeInv, Bounded, Coming
<1>4. CASE HeaderRead
  BY <1>4, HeaderReadTyped
<1>5. CASE ContentRead
  BY <1>5 DEF ContentRead, Outcome, TypeInv, Bounded, Coming
<1>6. CASE SizeRead
  BY <1>6, ChunkTyped
<1>7. CASE ChunkRead
  BY <1>7, ChunkTyped
<1>8. CASE UNCHANGED vars
  BY <1>8 DEF vars, framingVars, TypeInv, Bounded, Coming
<1>9. QED
  BY <1>1, <1>2, <1>3, <1>4, <1>5, <1>6, <1>7, <1>8 DEF Next, FramingNext

\* The types hold of the reader: no buffer is ever longer than its limit, and
\* what is still to come is an end of what is sent.
THEOREM TypeCorrect == Spec => []TypeOK
<1>1. IInv /\ TypeInv => TypeOK
  BY TypeInvType
<1>2. QED
  BY <1>1, IInvInit, IInvStep, TypeInvInit, TypeInvStep, PTL DEF Spec

-----------------------------------------------------------------------------
(* Sequences of anything                                                   *)

\* What is behind a place of a sequence.
LEMMA FromParts ==
    ASSUME NEW X, NEW s \in Seq(X)
    PROVE  /\ Len(s) \in Nat /\ From(s, 1) = s /\ From(s, Len(s) + 1) = <<>>
           /\ \A k \in 1 .. Len(s) + 1 :
                /\ From(s, k) \in Seq(X) /\ Len(From(s, k)) = Len(s) + 1 - k
                /\ \A i \in 1 .. Len(s) + 1 - k : From(s, k)[i] = s[k - 1 + i]
           /\ \A k \in 1 .. Len(s) : From(s, k) = <<s[k]>> \o From(s, k + 1)
<1> DEFINE n == Len(s)
<1>1. n \in Nat /\ \A i \in 1 .. n : s[i] \in X
  BY LenProperties, ElementOfSeq
<1>2. From(s, 1) = s
  BY SubSeqFull DEF From
<1>3. From(s, n + 1) = <<>>
  BY <1>1, SubSeqEmpty DEF From
<1>4. ASSUME NEW k \in 1 .. n + 1
      PROVE  /\ From(s, k) \in Seq(X) /\ Len(From(s, k)) = n + 1 - k
             /\ \A i \in 1 .. n + 1 - k : From(s, k)[i] = s[k - 1 + i]
  <2>1. /\ SubSeq(s, k, n) \in Seq(X)
        /\ Len(SubSeq(s, k, n)) = IF k <= n THEN n - k + 1 ELSE 0
        /\ \A i \in 1 .. n - k + 1 : SubSeq(s, k, n)[i] = s[k + i - 1]
    <3>1. k \in Int /\ n \in Int /\ \A i \in k .. n : s[i] \in X
      BY <1>1
    <3> HIDE DEF n
    <3>2. QED
      BY <3>1, SubSeqProperties
  <2>2. From(s, k) = SubSeq(s, k, n)
    BY DEF From
  <2> HIDE DEF n
  <2>3. \A i \in 1 .. n + 1 - k : i \in 1 .. n - k + 1 /\ k + i - 1 = k - 1 + i
    BY <1>1
  <2>4. (IF k <= n THEN n - k + 1 ELSE 0) = n + 1 - k
    BY <1>1
  <2>5. QED
    BY <2>1, <2>2, <2>3, <2>4
<1>5. ASSUME NEW k \in 1 .. n PROVE From(s, k) = <<s[k]>> \o From(s, k + 1)
  <2>1. n \in k .. Len(s)
    BY <1>1
  <2>2. QED
    BY <2>1, SubSeqRecursiveFirst DEF From
<1>6. QED
  BY <1>1, <1>2, <1>3, <1>4, <1>5

\* Induction from the last place of a sequence to its first.
LEMMA Down ==
    ASSUME NEW n \in Nat, NEW S, n + 1 \in S, \A k \in 1 .. n : k + 1 \in S => k \in S
    PROVE  \A k \in 1 .. n + 1 : k \in S
<1> DEFINE T == {m \in Nat : m <= n => n + 1 - m \in S}
<1>1. 0 \in T
  BY SMT
<1>2. ASSUME NEW m \in Nat, m \in T PROVE m + 1 \in T
  <2>1. CASE m + 1 <= n
    <3>1. m <= n /\ n + 1 - (m + 1) \in 1 .. n /\ n + 1 - (m + 1) + 1 = n + 1 - m
      BY <2>1
    <3>2. n + 1 - m \in S
      BY <1>2, <3>1
    <3>3. n + 1 - (m + 1) \in S
      BY <3>1, <3>2
    <3>4. QED
      BY <3>3
  <2>2. QED
    BY <2>1
<1> HIDE DEF T
<1>3. Nat \subseteq T
  BY <1>1, <1>2, SetInduction
<1>4. ASSUME NEW k \in 1 .. n + 1 PROVE k \in S
  <2>1. n + 1 - k \in Nat /\ n + 1 - k <= n /\ n + 1 - (n + 1 - k) = k
    OBVIOUS
  <2>2. n + 1 - (n + 1 - k) \in S
    BY <1>3, <2>1 DEF T
  <2>3. QED
    BY <2>1, <2>2
<1>5. QED
  BY <1>4

\* A function that goes on behind its place, as the parsers do: parts gives what
\* is found at a place, and next where to go on, 0 for the last.
Walks(f, n, parts, next) ==
    \A i \in 1 .. n : f[i] = IF next[i] = 0 THEN parts[i] ELSE parts[i] \o f[next[i]]

GoesOn(n, next) == \A i \in 1 .. n : next[i] = 0 \/ next[i] \in i + 1 .. n

IsWalk(f, n, parts, next) ==
    f = [i \in 1 .. n |-> IF next[i] = 0 THEN parts[i] ELSE parts[i] \o f[next[i]]]

\* There is such a function, however far it goes on.
LEMMA WalkExists ==
    ASSUME NEW n \in Nat, NEW parts, NEW next, GoesOn(n, next)
    PROVE  \E f : IsWalk(f, n, parts, next)
<1> DEFINE D(m) == {i \in 1 .. n : i > n - m}
           Is(m, f) == f = [i \in D(m) |-> IF next[i] = 0 THEN parts[i] ELSE parts[i] \o f[next[i]]]
           S == {m \in Nat : \E f : Is(m, f)}
<1>1. 0 \in S
  <2> DEFINE f == [i \in D(0) |-> parts[i]]
  <2>1. D(0) = {}
    OBVIOUS
  <2>2. Is(0, f)
    BY <2>1
  <2> HIDE DEF f, Is
  <2>3. QED
    BY <2>2
<1>2. ASSUME NEW m \in Nat, m \in S PROVE m + 1 \in S
  <2>1. PICK f : Is(m, f)
    BY <1>2
  <2> DEFINE h == [i \in D(m + 1) |-> IF next[i] = 0 THEN parts[i] ELSE parts[i] \o f[next[i]]]
  <2>2. ASSUME NEW i \in D(m + 1), next[i] # 0 PROVE h[next[i]] = f[next[i]]
    <3>1. next[i] \in i + 1 .. n
      BY <2>2 DEF GoesOn
    <3>2. next[i] \in D(m) /\ next[i] \in D(m + 1)
      BY <3>1
    <3> DEFINE j == next[i]
    <3> HIDE DEF D, j
    <3>3. j \in D(m) /\ j \in D(m + 1)
      BY <3>2 DEF j
    <3>4. f[j] = IF next[j] = 0 THEN parts[j] ELSE parts[j] \o f[next[j]]
      BY <2>1, <3>3
    <3>5. h[j] = IF next[j] = 0 THEN parts[j] ELSE parts[j] \o f[next[j]]
      BY <3>3
    <3>6. QED
      BY <3>4, <3>5 DEF j
  <2>3. h = [i \in D(m + 1) |-> IF next[i] = 0 THEN parts[i] ELSE parts[i] \o h[next[i]]]
    <3> DEFINE k == [i \in D(m + 1) |-> IF next[i] = 0 THEN parts[i] ELSE parts[i] \o h[next[i]]]
    <3> HIDE DEF D
    <3>1. \A i \in D(m + 1) : h[i] = k[i]
      BY <2>2
    <3>2. QED
      BY <3>1
  <2>4. Is(m + 1, h)
    BY <2>3
  <2> HIDE DEF h, Is
  <2>5. QED
    BY <2>4
<1> HIDE DEF S
<1>3. n \in S
  BY <1>1, <1>2, SetInduction
<1>4. PICK f : Is(n, f)
  BY <1>3 DEF S
<1>5. D(n) = 1 .. n
  OBVIOUS
<1> HIDE DEF D
<1>6. f = [i \in 1 .. n |-> IF next[i] = 0 THEN parts[i] ELSE parts[i] \o f[next[i]]]
  BY <1>4, <1>5, Zenon
<1>7. QED
  BY <1>6 DEF IsWalk

\* What is behind a place is read as if there was nothing before it.
Shifted(d, m, parts, next, parts2, next2) ==
    \A i \in 1 .. m : /\ parts[d + i] = parts2[i]
                      /\ next[d + i] = IF next2[i] = 0 THEN 0 ELSE d + next2[i]

\* Two walks that go the same way, d places apart, find the same.
LEMMA WalkShift ==
    ASSUME NEW d \in Nat, NEW m \in Nat, NEW f, NEW g,
           NEW parts, NEW next, NEW parts2, NEW next2,
           Walks(f, d + m, parts, next), Walks(g, m, parts2, next2),
           GoesOn(m, next2), Shifted(d, m, parts, next, parts2, next2)
    PROVE  \A i \in 1 .. m : f[d + i] = g[i]
<1> DEFINE S == {k \in Nat : \A i \in 1 .. m : i > m - k => f[d + i] = g[i]}
<1>1. 0 \in S
  OBVIOUS
<1>2. ASSUME NEW k \in Nat, k \in S PROVE k + 1 \in S
  <2>1. ASSUME NEW i \in 1 .. m, i > m - (k + 1) PROVE f[d + i] = g[i]
    <3>1. d + i \in 1 .. d + m
      OBVIOUS
    <3>2. f[d + i] = IF next[d + i] = 0 THEN parts[d + i] ELSE parts[d + i] \o f[next[d + i]]
      BY <3>1 DEF Walks
    <3>3. g[i] = IF next2[i] = 0 THEN parts2[i] ELSE parts2[i] \o g[next2[i]]
      BY DEF Walks
    <3>4. CASE next2[i] = 0
      BY <3>2, <3>3, <3>4 DEF Shifted
    <3>5. CASE next2[i] # 0
      <4>1. next2[i] \in i + 1 .. m
        BY <3>5 DEF GoesOn
      <4>2. next2[i] \in 1 .. m /\ next2[i] > m - k /\ d + next2[i] # 0
        BY <2>1, <4>1
      <4>3. f[d + next2[i]] = g[next2[i]]
        BY <1>2, <4>2
      <4>4. parts[d + i] = parts2[i] /\ next[d + i] = d + next2[i]
        BY <3>5 DEF Shifted
      <4>5. QED
        BY <3>2, <3>3, <3>5, <4>2, <4>3, <4>4
    <3>6. QED
      BY <3>4, <3>5
  <2>2. QED
    BY <2>1
<1> HIDE DEF S
<1>3. m \in S
  BY <1>1, <1>2, SetInduction
<1>4. \A i \in 1 .. m : i > m - m
  OBVIOUS
<1>5. QED
  BY <1>3, <1>4 DEF S

-----------------------------------------------------------------------------
(* Places                                                                  *)

\* The first place of a set of numbers, and the last of those up to n.
LEMMA MinIs ==
    ASSUME NEW S \in SUBSET Nat, S # {}
    PROVE  Min(S) \in S /\ \A j \in S : Min(S) <= j
  BY Least DEF Min

\* The last of some numbers up to n.
LEMMA MaxIs ==
    ASSUME NEW n \in Nat, NEW S \in SUBSET 1 .. n, S # {}
    PROVE  Max(S) \in S /\ \A j \in S : j <= Max(S)
<1> DEFINE T == {n - j : j \in S}
<1>1. T \in SUBSET Nat /\ T # {}
  <2>1. ASSUME NEW j \in S PROVE n - j \in Nat
    OBVIOUS
  <2>2. T # {}
    BY Zenon
  <2>3. QED
    BY <2>1, <2>2
<1>2. PICK t \in T : \A u \in T : t <= u
  BY <1>1, Least
<1>3. PICK i \in S : t = n - i
  BY <1>2
<1>4. ASSUME NEW j \in S PROVE j <= i
  <2>1. n - i <= n - j
    BY <1>2, <1>3
  <2>2. QED
    BY <2>1
<1>5. \E k \in S : \A j \in S : j <= k
  BY <1>4
<1>6. QED
  BY <1>5, Zenon DEF Max

\* The first place of some characters.
LEMMA PlaceIs ==
    ASSUME NEW s \in Seq(Int), NEW from \in Nat \ {0}, NEW chars
    PROVE  \/ Place(s, from, chars) = 0 /\ \A j \in from .. Len(s) : s[j] \notin chars
           \/ /\ Place(s, from, chars) \in from .. Len(s) /\ s[Place(s, from, chars)] \in chars
              /\ \A j \in from .. Place(s, from, chars) - 1 : s[j] \notin chars
<1> DEFINE I == {j \in from .. Len(s) : s[j] \in chars}
<1>1. Place(s, from, chars) = IF I # {} THEN Min(I) ELSE 0
  BY Zenon DEF Place, SelectInSubSeq
<1>2. Len(s) \in Nat /\ I \in SUBSET Nat
  BY LenProperties
<1>3. CASE I = {}
  BY <1>1, <1>3
<1>4. CASE I # {}
  <2>1. Min(I) \in I /\ \A j \in I : Min(I) <= j
    BY <1>2, <1>4, MinIs
  <2>2. Place(s, from, chars) = Min(I)
    BY <1>1, <1>4
  <2> DEFINE e == Place(s, from, chars)
  <2>3. e \in I /\ \A j \in I : e <= j
    BY <2>1, <2>2
  <2> HIDE DEF e
  <2>4. e \in from .. Len(s) /\ s[e] \in chars
    BY <2>3
  <2>5. \A j \in from .. e - 1 : s[j] \notin chars
    BY <1>2, <2>3, <2>4
  <2>6. QED
    BY <2>4, <2>5 DEF e
<1>5. QED
  BY <1>3, <1>4

\* The first place of some characters, where it is known.
LEMMA PlaceAt ==
    ASSUME NEW s \in Seq(Int), NEW from \in Nat \ {0}, NEW chars
    PROVE  /\ \A e \in from .. Len(s) :
                s[e] \in chars /\ (\A j \in from .. e - 1 : s[j] \notin chars)
                  => Place(s, from, chars) = e
           /\ (\A j \in from .. Len(s) : s[j] \notin chars) => Place(s, from, chars) = 0
<1> DEFINE p == Place(s, from, chars)
<1>1. \/ p = 0 /\ \A j \in from .. Len(s) : s[j] \notin chars
      \/ p \in from .. Len(s) /\ s[p] \in chars /\ \A j \in from .. p - 1 : s[j] \notin chars
  BY PlaceIs
<1>2. Len(s) \in Nat
  BY LenProperties
<1> HIDE DEF p
<1>3. ASSUME NEW e \in from .. Len(s), s[e] \in chars, \A j \in from .. e - 1 : s[j] \notin chars
      PROVE  p = e
  <2>1. p \in from .. Len(s) /\ s[p] \in chars /\ \A j \in from .. p - 1 : s[j] \notin chars
    BY <1>1, <1>3
  <2>2. ~(e \in from .. p - 1) /\ ~(p \in from .. e - 1)
    BY <1>3, <2>1
  <2>3. QED
    BY <1>2, <2>1, <2>2
<1>4. QED
  BY <1>1, <1>3 DEF p

\* The last place of a character.
LEMMA LastPlaceAt ==
    ASSUME NEW s \in Seq(Int), NEW char
    PROVE  /\ \A e \in 1 .. Len(s) :
                s[e] = char /\ (\A j \in e + 1 .. Len(s) : s[j] # char) => LastPlace(s, char) = e
           /\ (\A j \in 1 .. Len(s) : s[j] # char) => LastPlace(s, char) = 0
<1> DEFINE I == {j \in 1 .. Len(s) : s[j] = char}
           p == LastPlace(s, char)
<1>1. p = IF I # {} THEN Max(I) ELSE 0
  BY Zenon DEF LastPlace, SelectLastInSeq
<1>2. Len(s) \in Nat
  BY LenProperties
<1> HIDE DEF p
<1>3. ASSUME NEW e \in 1 .. Len(s), s[e] = char, \A j \in e + 1 .. Len(s) : s[j] # char
      PROVE  p = e
  <2>1. I # {} /\ I \in SUBSET 1 .. Len(s)
    BY <1>3
  <2>2. Max(I) \in I /\ \A j \in I : j <= Max(I)
    BY <1>2, <2>1, MaxIs
  <2>3. p \in I /\ \A j \in I : j <= p
    BY <1>1, <2>1, <2>2
  <2>4. p \in 1 .. Len(s) /\ s[p] = char /\ e <= p
    BY <1>3, <2>3
  <2>5. ~(p \in e + 1 .. Len(s))
    BY <1>3, <2>4
  <2>6. QED
    BY <1>2, <2>4, <2>5
<1>4. ASSUME \A j \in 1 .. Len(s) : s[j] # char PROVE p = 0
  BY <1>1, <1>4
<1>5. QED
  BY <1>3, <1>4 DEF p

\* Behind d characters places are counted anew.
LEMMA PlaceBehind ==
    ASSUME NEW s \in Seq(Int), NEW chars, NEW d \in 0 .. Len(s),
           NEW i \in 1 .. Len(s) - d + 1
    PROVE  Place(s, d + i, chars) =
             IF Place(From(s, d + 1), i, chars) = 0 THEN 0 ELSE d + Place(From(s, d + 1), i, chars)
<1> DEFINE t == From(s, d + 1)
           p == Place(t, i, chars)
<1>1. Len(s) \in Nat /\ d \in Nat /\ i \in Nat \ {0}
  BY LenProperties
<1>2. t \in Seq(Int) /\ Len(t) = Len(s) - d /\ \A j \in 1 .. Len(s) - d : t[j] = s[d + j]
  BY FromIs
<1> HIDE DEF t
<1>3. \/ p = 0 /\ \A j \in i .. Len(t) : t[j] \notin chars
      \/ p \in i .. Len(t) /\ t[p] \in chars /\ \A j \in i .. p - 1 : t[j] \notin chars
  BY <1>1, <1>2, PlaceIs
<1> HIDE DEF p
<1>4. ASSUME NEW j \in d + i .. Len(s) PROVE j - d \in i .. Len(t) /\ j - d \in 1 .. Len(s) - d /\ s[j] = t[j - d]
  <2>1. j - d \in i .. Len(t) /\ j - d \in 1 .. Len(s) - d /\ d + (j - d) = j
    BY <1>1, <1>2
  <2>2. QED
    BY <1>2, <2>1
<1>5. CASE p = 0
  <2>1. ASSUME NEW j \in d + i .. Len(s) PROVE s[j] \notin chars
    <3>1. j - d \in i .. Len(t) /\ s[j] = t[j - d]
      BY <1>4
    <3>2. \A k \in i .. Len(t) : t[k] \notin chars
      BY <1>3, <1>5
    <3>3. QED
      BY <3>1, <3>2
  <2>2. Place(s, d + i, chars) = 0
    BY <1>1, <2>1, PlaceAt
  <2>3. QED
    BY <1>5, <2>2 DEF p, t
<1>6. CASE p # 0
  <2>1. p \in i .. Len(t) /\ t[p] \in chars /\ \A j \in i .. p - 1 : t[j] \notin chars
    BY <1>3, <1>6
  <2>2. d + p \in d + i .. Len(s) /\ (d + p) - d = p
    BY <1>1, <1>2, <2>1
  <2>3. s[d + p] \in chars
    BY <1>4, <2>1, <2>2
  <2>4. ASSUME NEW j \in d + i .. d + p - 1 PROVE s[j] \notin chars
    <3>1. j \in d + i .. Len(s) /\ j - d \in i .. p - 1
      BY <1>1, <2>2, SMTT(30)
    <3>2. QED
      BY <1>4, <2>1, <3>1
  <2>5. d + i \in Nat \ {0}
    BY <1>1
  <2>6. Place(s, d + i, chars) = d + p
    BY <2>2, <2>3, <2>4, <2>5, PlaceAt
  <2>7. QED
    BY <1>6, <2>6 DEF p, t
<1>7. QED
  BY <1>5, <1>6

\* What is between two places behind d characters.
LEMMA BetweenBehind ==
    ASSUME NEW s \in Seq(Int), NEW d \in 0 .. Len(s), NEW i \in Nat \ {0}, NEW j \in Nat,
           j <= Len(s) - d
    PROVE  /\ SubSeq(s, d + i, d + j) = SubSeq(From(s, d + 1), i, j)
           /\ SubSeq(s, d + i, d + j) \in Seq(Int)
           /\ i <= Len(s) - d + 1 => From(s, d + i) = From(From(s, d + 1), i)
<1> DEFINE t == From(s, d + 1)
<1>1. Len(s) \in Nat /\ d \in Nat /\ \A k \in 1 .. Len(s) : s[k] \in Int
  BY LenProperties, ElementOfSeq
<1>2. t \in Seq(Int) /\ Len(t) = Len(s) - d /\ \A k \in 1 .. Len(s) - d : t[k] = s[d + k]
  BY FromIs
<1> HIDE DEF t
<1>3. ASSUME NEW k \in Nat, k <= Len(s) - d
      PROVE  SubSeq(s, d + i, d + k) = SubSeq(t, i, k) /\ SubSeq(s, d + i, d + k) \in Seq(Int)
  <2>1. \A l \in d + i .. d + k : s[l] \in Int
    BY <1>1, <1>3
  <2>2. \A l \in i .. k : t[l] \in Int
    <3>1. \A l \in i .. k : l \in 1 .. Len(s) - d /\ d + l \in 1 .. Len(s)
      BY <1>1, <1>3
    <3>2. QED
      BY <1>1, <1>2, <3>1
  <2>3. /\ SubSeq(s, d + i, d + k) \in Seq(Int)
        /\ Len(SubSeq(s, d + i, d + k)) = IF d + i <= d + k THEN d + k - (d + i) + 1 ELSE 0
        /\ \A l \in 1 .. d + k - (d + i) + 1 : SubSeq(s, d + i, d + k)[l] = s[d + i + l - 1]
    BY <1>1, <2>1, SubSeqProperties
  <2>4. /\ SubSeq(t, i, k) \in Seq(Int)
        /\ Len(SubSeq(t, i, k)) = IF i <= k THEN k - i + 1 ELSE 0
        /\ \A l \in 1 .. k - i + 1 : SubSeq(t, i, k)[l] = t[i + l - 1]
    BY <2>2, SubSeqProperties
  <2> DEFINE a == SubSeq(s, d + i, d + k)
             b == SubSeq(t, i, k)
             n == IF i <= k THEN k - i + 1 ELSE 0
  <2>5. a \in Seq(Int) /\ Len(a) = n
    <3>1. (IF d + i <= d + k THEN d + k - (d + i) + 1 ELSE 0) = n
      BY <1>1
    <3>2. QED
      BY <2>3, <3>1
  <2>6. b \in Seq(Int) /\ Len(b) = n
    BY <2>4
  <2>7. ASSUME NEW l \in 1 .. n PROVE a[l] = b[l]
    <3>1. /\ l \in 1 .. d + k - (d + i) + 1 /\ l \in 1 .. k - i + 1
          /\ i + l - 1 \in 1 .. Len(s) - d /\ d + i + l - 1 = d + (i + l - 1)
      BY <1>1, <1>3
    <3>2. a[l] = s[d + (i + l - 1)] /\ b[l] = t[i + l - 1]
      BY <2>3, <2>4, <3>1
    <3>3. QED
      BY <1>2, <3>1, <3>2
  <2> HIDE DEF a, b, n
  <2>8. a = b
    BY <2>5, <2>6, <2>7, SeqEqual
  <2>9. QED
    BY <2>5, <2>8 DEF a, b
<1>4. j \in Nat /\ SubSeq(s, d + i, d + j) = SubSeq(t, i, j) /\ SubSeq(s, d + i, d + j) \in Seq(Int)
  BY <1>3
<1>5. From(s, d + i) = From(t, i)
  <2> DEFINE m == Len(s) - d
  <2>1. m \in Nat /\ m <= Len(s) - d /\ d + m = Len(s)
    BY <1>1
  <2> HIDE DEF m
  <2>2. SubSeq(s, d + i, d + m) = SubSeq(t, i, m)
    BY <1>3, <2>1
  <2>3. QED
    BY <1>2, <2>1, <2>2 DEF From, m
<1>6. QED
  BY <1>4, <1>5 DEF t

-----------------------------------------------------------------------------
(* Pieces                                                                  *)

PieceAt(s, char) ==
    [i \in 1 .. Len(s) + 1 |->
        IF Place(s, i, {char}) = 0 THEN <<From(s, i)>> ELSE <<SubSeq(s, i, Place(s, i, {char}) - 1)>>]

NextPiece(s, char) ==
    [i \in 1 .. Len(s) + 1 |-> IF Place(s, i, {char}) = 0 THEN 0 ELSE Place(s, i, {char}) + 1]

\* Pieces walks from a piece to the next.
LEMMA PiecesWalk ==
    ASSUME NEW s \in Seq(Int), NEW char
    PROVE  /\ GoesOn(Len(s) + 1, NextPiece(s, char))
           /\ \E f : Walks(f, Len(s) + 1, PieceAt(s, char), NextPiece(s, char)) /\ Pieces(s, char) = f[1]
<1> DEFINE n == Len(s) + 1
           parts == PieceAt(s, char)
           next == NextPiece(s, char)
           Is(f) == f = [i \in 1 .. n |->
                           IF Place(s, i, {char}) = 0 THEN <<From(s, i)>>
                           ELSE <<SubSeq(s, i, Place(s, i, {char}) - 1)>> \o f[Place(s, i, {char}) + 1]]
           g == CHOOSE f : Is(f)
<1>1. n \in Nat /\ Len(s) \in Nat
  BY LenProperties
<1>2. ASSUME NEW i \in 1 .. n PROVE next[i] = 0 \/ next[i] \in i + 1 .. n
  <2>1. next[i] = IF Place(s, i, {char}) = 0 THEN 0 ELSE Place(s, i, {char}) + 1
    BY DEF NextPiece
  <2>2. Place(s, i, {char}) = 0 \/ Place(s, i, {char}) \in i .. Len(s)
    BY PlaceIs
  <2>3. QED
    BY <1>1, <2>1, <2>2
<1>3. GoesOn(n, next)
  BY <1>2 DEF GoesOn
<1>4. ASSUME NEW i \in 1 .. n PROVE Place(s, i, {char}) = 0 \/ Place(s, i, {char}) + 1 # 0
  <2>1. Place(s, i, {char}) = 0 \/ Place(s, i, {char}) \in i .. Len(s)
    BY PlaceIs
  <2>2. QED
    BY <1>1, <2>1
<1>5. PICK f : IsWalk(f, n, parts, next)
  <2> HIDE DEF n, parts, next
  <2>1. QED
    BY <1>1, <1>3, WalkExists
<1>6. \A i \in 1 .. n :
        /\ next[i] = IF Place(s, i, {char}) = 0 THEN 0 ELSE Place(s, i, {char}) + 1
        /\ parts[i] = IF Place(s, i, {char}) = 0 THEN <<From(s, i)>>
                      ELSE <<SubSeq(s, i, Place(s, i, {char}) - 1)>>
  BY DEF NextPiece, PieceAt
<1>7. Is(f)
  <2> HIDE DEF n, parts, next
  <2> DEFINE h == [i \in 1 .. n |->
                     IF Place(s, i, {char}) = 0 THEN <<From(s, i)>>
                     ELSE <<SubSeq(s, i, Place(s, i, {char}) - 1)>> \o f[Place(s, i, {char}) + 1]]
             k == [i \in 1 .. n |-> IF next[i] = 0 THEN parts[i] ELSE parts[i] \o f[next[i]]]
  <2>1. ASSUME NEW i \in 1 .. n PROVE k[i] = h[i]
    <3>1. CASE Place(s, i, {char}) = 0
      BY <1>6, <3>1
    <3>2. CASE Place(s, i, {char}) # 0
      BY <1>4, <1>6, <3>2
    <3>3. QED
      BY <3>1, <3>2
  <2>2. f = k
    BY <1>5, Zenon DEF IsWalk
  <2>3. k = h
    BY <2>1, Zenon
  <2>4. QED
    BY <2>2, <2>3
<1>8. Is(g)
  <2> HIDE DEF Is
  <2>1. QED
    BY <1>7
<1>9. Pieces(s, char) = g[1]
  BY Zenon DEF Pieces
<1>10. Walks(g, n, parts, next)
  <2> HIDE DEF g, n, parts, next
  <2>1. ASSUME NEW i \in 1 .. n PROVE g[i] = IF next[i] = 0 THEN parts[i] ELSE parts[i] \o g[next[i]]
    <3>1. g[i] = IF Place(s, i, {char}) = 0 THEN <<From(s, i)>>
                 ELSE <<SubSeq(s, i, Place(s, i, {char}) - 1)>> \o g[Place(s, i, {char}) + 1]
      BY <1>8
    <3>2. QED
      BY <1>4, <1>6, <3>1
  <2>2. QED
    BY <2>1 DEF Walks
<1>11. QED
  BY <1>3, <1>9, <1>10

\* The two parts of a text.
LEMMA CutAt ==
    ASSUME NEW a \in Seq(Int), NEW b \in Seq(Int)
    PROVE  SubSeq(a \o b, 1, Len(a)) = a /\ From(a \o b, Len(a) + 1) = b
<1> DEFINE s == a \o b
           n == Len(a)
           m == Len(b)
<1>1. /\ s \in Seq(Int) /\ Len(s) = Len(a) + Len(b)
      /\ \A i \in 1 .. Len(a) : s[i] = a[i]
      /\ \A i \in 1 .. Len(b) : s[Len(a) + i] = b[i]
  BY Parts
<1>2. n \in Nat /\ m \in Nat /\ Len(s) = n + m
  BY <1>1, LenProperties
<1> HIDE DEF s
<1>3. SubSeq(s, 1, n) = a
  <2>1. n \in 0 .. Len(s)
    <3> HIDE DEF n, m
    <3>1. QED
      BY <1>2
  <2>2. /\ SubSeq(s, 1, n) \in Seq(Int) /\ Len(SubSeq(s, 1, n)) = n
        /\ \A i \in 1 .. n : SubSeq(s, 1, n)[i] = s[i]
    BY <1>1, <2>1, FrontIs
  <2>3. QED
    BY <1>1, <2>2, SeqEqual
<1>4. From(s, n + 1) = b
  <2>1. n \in 0 .. Len(s) /\ Len(s) - n = m
    <3> HIDE DEF n, m
    <3>1. QED
      BY <1>2
  <2>2. /\ From(s, n + 1) \in Seq(Int) /\ Len(From(s, n + 1)) = m
        /\ \A i \in 1 .. m : From(s, n + 1)[i] = s[n + i]
    BY <1>1, <2>1, FromIs, ZenonT(40)
  <2>3. QED
    BY <1>1, <2>2, SeqEqual
<1>5. QED
  BY <1>3, <1>4 DEF s

\* Pieces takes the piece before the first place, and goes on behind it.
LEMMA PiecesStep ==
    ASSUME NEW s \in Seq(Int), NEW char
    PROVE  Pieces(s, char) =
             IF Place(s, 1, {char}) = 0 THEN <<s>>
             ELSE <<SubSeq(s, 1, Place(s, 1, {char}) - 1)>> \o Pieces(From(s, Place(s, 1, {char}) + 1), char)
<1> DEFINE n == Len(s)
           p == Place(s, 1, {char})
           t == From(s, p + 1)
           m == n - p
<1>1. n \in Nat /\ From(s, 1) = s
  BY FromParts
<1>2. PICK f : Walks(f, n + 1, PieceAt(s, char), NextPiece(s, char)) /\ Pieces(s, char) = f[1]
  BY PiecesWalk
<1>3. 1 \in 1 .. n + 1 /\ 1 \in Nat \ {0}
  BY <1>1
<1>4. /\ PieceAt(s, char)[1] = IF p = 0 THEN <<From(s, 1)>> ELSE <<SubSeq(s, 1, p - 1)>>
      /\ NextPiece(s, char)[1] = IF p = 0 THEN 0 ELSE p + 1
  BY <1>3 DEF PieceAt, NextPiece
<1>5. f[1] = IF NextPiece(s, char)[1] = 0 THEN PieceAt(s, char)[1]
             ELSE PieceAt(s, char)[1] \o f[NextPiece(s, char)[1]]
  BY <1>2, <1>3 DEF Walks
<1>6. CASE p = 0
  BY <1>1, <1>2, <1>4, <1>5, <1>6
<1>7. CASE p # 0
  <2>1. p \in 1 .. n
    BY <1>3, <1>7, PlaceIs
  <2>2. t \in Seq(Int) /\ Len(t) = m /\ m \in Nat /\ p \in 0 .. Len(s)
    <3>1. p \in 0 .. Len(s)
      BY <2>1
    <3>2. t \in Seq(Int) /\ Len(t) = Len(s) - p
      BY <3>1, FromIs
    <3> HIDE DEF t, p
    <3>3. QED
      BY <1>1, <2>1, <3>1, <3>2
  <2>3. GoesOn(m + 1, NextPiece(t, char))
        /\ \E g : Walks(g, m + 1, PieceAt(t, char), NextPiece(t, char)) /\ Pieces(t, char) = g[1]
    BY <2>2, PiecesWalk
  <2>4. PICK g : Walks(g, m + 1, PieceAt(t, char), NextPiece(t, char)) /\ Pieces(t, char) = g[1]
    BY <2>3
  <2>5. ASSUME NEW i \in 1 .. m + 1
        PROVE  /\ PieceAt(s, char)[p + i] = PieceAt(t, char)[i]
               /\ NextPiece(s, char)[p + i] =
                    IF NextPiece(t, char)[i] = 0 THEN 0 ELSE p + NextPiece(t, char)[i]
    <3> DEFINE e == Place(s, p + i, {char})
               h == Place(t, i, {char})
    <3>1. p + i \in 1 .. n + 1 /\ i \in Nat \ {0} /\ i \in 1 .. Len(t) + 1 /\ i <= Len(s) - p + 1
      <4> HIDE DEF t, p
      <4>1. QED
        BY <1>1, <2>1, <2>2
    <3>2. e = IF h = 0 THEN 0 ELSE p + h
      BY <2>2, <3>1, PlaceBehind
    <3>3. h = 0 \/ h \in i .. m
      BY <2>2, <3>1, PlaceIs
    <3>4. /\ PieceAt(s, char)[p + i] = IF e = 0 THEN <<From(s, p + i)>> ELSE <<SubSeq(s, p + i, e - 1)>>
          /\ NextPiece(s, char)[p + i] = IF e = 0 THEN 0 ELSE e + 1
      <4> HIDE DEF p
      <4>1. QED
        BY <3>1 DEF PieceAt, NextPiece
    <3>5. /\ PieceAt(t, char)[i] = IF h = 0 THEN <<From(t, i)>> ELSE <<SubSeq(t, i, h - 1)>>
          /\ NextPiece(t, char)[i] = IF h = 0 THEN 0 ELSE h + 1
      <4> HIDE DEF t
      <4>1. QED
        BY <3>1 DEF PieceAt, NextPiece
    <3>6. CASE h = 0
      <4>1. m \in Nat /\ m <= Len(s) - p
        BY <2>2
      <4>2. From(s, p + i) = From(t, i)
        <5> HIDE DEF p, m
        <5>1. QED
          BY <2>2, <3>1, <4>1, BetweenBehind
      <4>3. QED
        BY <3>2, <3>4, <3>5, <3>6, <4>2
    <3>7. CASE h # 0
      <4>1. h \in i .. m /\ h - 1 \in Nat /\ h - 1 <= Len(s) - p /\ p \in Nat /\ p # 0
        <5>1. h \in i .. m /\ m \in Nat /\ m = Len(s) - p /\ p \in 1 .. n /\ i \in Nat \ {0}
          BY <2>1, <2>2, <3>1, <3>3, <3>7
        <5> HIDE DEF t, h, p, m, n
        <5>2. QED
          BY <1>1, <5>1
      <4>2. SubSeq(s, p + i, p + (h - 1)) = SubSeq(t, i, h - 1)
        <5> DEFINE j == h - 1
        <5>1. j \in Nat /\ j <= Len(s) - p
          BY <4>1
        <5> HIDE DEF j, p
        <5>2. SubSeq(s, p + i, p + j) = SubSeq(t, i, j)
          BY <2>2, <3>1, <5>1, BetweenBehind, ZenonT(60)
        <5>3. QED
          BY <5>2, Zenon DEF j
      <4> HIDE DEF t, h, p, e
      <4>3. e = p + h /\ e # 0 /\ e - 1 = p + (h - 1) /\ h + 1 # 0 /\ e + 1 = p + (h + 1)
        BY <3>1, <3>2, <3>7, <4>1
      <4>4. QED
        BY <3>4, <3>5, <3>7, <4>2, <4>3
    <3>8. QED
      BY <3>6, <3>7
  <2>6. p \in Nat /\ p + (m + 1) = n + 1 /\ m + 1 \in Nat /\ n + 1 \in Nat
    <3> HIDE DEF p, n
    <3>1. QED
      BY <1>1, <2>1
  <2>7. \A i \in 1 .. m + 1 : f[p + i] = g[i]
    <3> DEFINE M == m + 1
               N == n + 1
               A == PieceAt(s, char)
               nextA == NextPiece(s, char)
               B == PieceAt(t, char)
               nextB == NextPiece(t, char)
    <3>1. M \in Nat /\ N \in Nat /\ p + M = N /\ p \in Nat
      BY <2>6
    <3>2. Walks(f, N, A, nextA)
      BY <1>2
    <3>3. Walks(g, M, B, nextB) /\ GoesOn(M, nextB)
      BY <2>3, <2>4
    <3>4. Shifted(p, M, A, nextA, B, nextB)
      BY <2>5 DEF Shifted
    <3> HIDE DEF p, t, M, N, A, B, nextA, nextB
    <3>5. Walks(f, p + M, A, nextA)
      BY <3>1, <3>2
    <3>6. \A i \in 1 .. M : f[p + i] = g[i]
      BY <3>1, <3>3, <3>4, <3>5, WalkShift
    <3>7. QED
      BY <3>6 DEF M
  <2>8. f[p + 1] = Pieces(t, char)
    <3>1. 1 \in 1 .. m + 1
      BY <2>2
    <3>2. QED
      BY <2>4, <2>7, <3>1
  <2>9. p + 1 # 0
    <3> HIDE DEF p
    <3>1. QED
      BY <2>1
  <2>10. QED
    BY <1>2, <1>4, <1>5, <1>7, <2>8, <2>9
<1>8. QED
  BY <1>6, <1>7

-----------------------------------------------------------------------------
(* Codes, found one after the other                                        *)

\* A code of three characters, as Decode finds it at a place.
CodeAt(s, i) == s[i] = PERCENT /\ i + 2 <= Len(s)

DecodedAt(s) ==
    [i \in 1 .. Len(s) + 1 |->
        IF i > Len(s) THEN <<>>
        ELSE IF CodeAt(s, i) THEN <<Number(s[i + 1], s[i + 2])>>
        ELSE <<IF s[i] = PLUS THEN SP ELSE s[i]>>]

NextCode(s) ==
    [i \in 1 .. Len(s) + 1 |-> IF i > Len(s) THEN 0 ELSE IF CodeAt(s, i) THEN i + 3 ELSE i + 1]

\* Decode walks from a code to the next.
LEMMA DecodeWalk ==
    ASSUME NEW s \in Seq(Int)
    PROVE  /\ GoesOn(Len(s) + 1, NextCode(s))
           /\ \E f : Walks(f, Len(s) + 1, DecodedAt(s), NextCode(s)) /\ Decode(s) = f[1]
<1> DEFINE n == Len(s) + 1
           parts == DecodedAt(s)
           next == NextCode(s)
           Is(f) == f = [i \in 1 .. n |->
                           IF i > Len(s) THEN <<>>
                           ELSE IF s[i] = PERCENT /\ i + 2 <= Len(s)
                             THEN <<Number(s[i + 1], s[i + 2])>> \o f[i + 3]
                           ELSE <<IF s[i] = PLUS THEN SP ELSE s[i]>> \o f[i + 1]]
           g == CHOOSE f : Is(f)
<1>1. n \in Nat /\ Len(s) \in Nat
  BY LenProperties
<1>2. ASSUME NEW i \in 1 .. n
      PROVE  /\ next[i] = IF i > Len(s) THEN 0 ELSE IF CodeAt(s, i) THEN i + 3 ELSE i + 1
             /\ parts[i] = IF i > Len(s) THEN <<>>
                           ELSE IF CodeAt(s, i) THEN <<Number(s[i + 1], s[i + 2])>>
                           ELSE <<IF s[i] = PLUS THEN SP ELSE s[i]>>
             /\ i + 1 # 0 /\ i + 3 # 0
             /\ next[i] = 0 \/ next[i] \in i + 1 .. n
  <2>1. /\ next[i] = IF i > Len(s) THEN 0 ELSE IF CodeAt(s, i) THEN i + 3 ELSE i + 1
        /\ parts[i] = IF i > Len(s) THEN <<>>
                      ELSE IF CodeAt(s, i) THEN <<Number(s[i + 1], s[i + 2])>>
                      ELSE <<IF s[i] = PLUS THEN SP ELSE s[i]>>
    BY Zenon DEF NextCode, DecodedAt
  <2>2. next[i] = 0 \/ next[i] \in i + 1 .. n
    BY <1>1, <2>1, SMTT(30) DEF CodeAt
  <2>3. QED
    BY <1>1, <2>1, <2>2
<1>3. GoesOn(n, next)
  BY <1>2 DEF GoesOn
<1>4. PICK f : IsWalk(f, n, parts, next)
  <2> HIDE DEF n, parts, next
  <2>1. QED
    BY <1>1, <1>3, WalkExists
<1>5. Is(f)
  <2> HIDE DEF n, parts, next
  <2> DEFINE h == [i \in 1 .. n |->
                     IF i > Len(s) THEN <<>>
                     ELSE IF s[i] = PERCENT /\ i + 2 <= Len(s)
                       THEN <<Number(s[i + 1], s[i + 2])>> \o f[i + 3]
                     ELSE <<IF s[i] = PLUS THEN SP ELSE s[i]>> \o f[i + 1]]
             k == [i \in 1 .. n |-> IF next[i] = 0 THEN parts[i] ELSE parts[i] \o f[next[i]]]
  <2>1. ASSUME NEW i \in 1 .. n PROVE k[i] = h[i]
    BY <1>2, Zenon DEF CodeAt
  <2>2. f = k
    BY <1>4, Zenon DEF IsWalk
  <2>3. k = h
    BY <2>1, Zenon
  <2>4. QED
    BY <2>2, <2>3
<1>6. Is(g)
  <2> HIDE DEF Is
  <2>1. QED
    BY <1>5
<1>7. Decode(s) = g[1]
  BY Zenon DEF Decode
<1>8. Walks(g, n, parts, next)
  <2> HIDE DEF g, n, parts, next
  <2>1. ASSUME NEW i \in 1 .. n PROVE g[i] = IF next[i] = 0 THEN parts[i] ELSE parts[i] \o g[next[i]]
    <3>1. g[i] = IF i > Len(s) THEN <<>>
                 ELSE IF s[i] = PERCENT /\ i + 2 <= Len(s)
                   THEN <<Number(s[i + 1], s[i + 2])>> \o g[i + 3]
                 ELSE <<IF s[i] = PLUS THEN SP ELSE s[i]>> \o g[i + 1]
      BY <1>6, Zenon
    <3>2. QED
      BY <1>2, <3>1, Zenon DEF CodeAt
  <2>2. QED
    BY <2>1 DEF Walks
<1>9. QED
  BY <1>3, <1>7, <1>8

\* Decode goes on behind what it has decoded.
LEMMA DecodeBehind ==
    ASSUME NEW s \in Seq(Int), NEW f, Walks(f, Len(s) + 1, DecodedAt(s), NextCode(s)),
           NEW d \in 0 .. Len(s)
    PROVE  f[d + 1] = Decode(From(s, d + 1))
<1> DEFINE t == From(s, d + 1)
           m == Len(s) - d
           n == m + 1
<1>1. Len(s) \in Nat /\ d \in Nat /\ m \in Nat /\ n \in Nat /\ d + n = Len(s) + 1 /\ 1 \in 1 .. n
  BY LenProperties
<1>2. t \in Seq(Int) /\ Len(t) = m /\ \A i \in 1 .. m : t[i] = s[d + i]
  BY FromIs
<1> HIDE DEF t
<1>3. GoesOn(n, NextCode(t)) /\ \E g : Walks(g, n, DecodedAt(t), NextCode(t)) /\ Decode(t) = g[1]
  BY <1>2, DecodeWalk
<1>4. PICK g : Walks(g, n, DecodedAt(t), NextCode(t)) /\ Decode(t) = g[1]
  BY <1>3
<1>5. ASSUME NEW i \in 1 .. n
      PROVE  /\ DecodedAt(s)[d + i] = DecodedAt(t)[i]
             /\ NextCode(s)[d + i] = IF NextCode(t)[i] = 0 THEN 0 ELSE d + NextCode(t)[i]
  <2>1. d + i \in 1 .. Len(s) + 1 /\ i \in 1 .. Len(t) + 1
    BY <1>1, <1>2
  <2>2. /\ NextCode(s)[d + i] = IF d + i > Len(s) THEN 0 ELSE IF CodeAt(s, d + i) THEN d + i + 3 ELSE d + i + 1
        /\ DecodedAt(s)[d + i] = IF d + i > Len(s) THEN <<>>
                                 ELSE IF CodeAt(s, d + i) THEN <<Number(s[d + i + 1], s[d + i + 2])>>
                                 ELSE <<IF s[d + i] = PLUS THEN SP ELSE s[d + i]>>
    BY <2>1, Zenon DEF NextCode, DecodedAt
  <2>3. /\ NextCode(t)[i] = IF i > Len(t) THEN 0 ELSE IF CodeAt(t, i) THEN i + 3 ELSE i + 1
        /\ DecodedAt(t)[i] = IF i > Len(t) THEN <<>>
                             ELSE IF CodeAt(t, i) THEN <<Number(t[i + 1], t[i + 2])>>
                             ELSE <<IF t[i] = PLUS THEN SP ELSE t[i]>>
    BY <2>1, Zenon DEF NextCode, DecodedAt
  <2>4. CASE i > m
    BY <1>1, <1>2, <2>2, <2>3, <2>4
  <2>5. CASE i <= m
    <3>1. t[i] = s[d + i]
      BY <1>1, <1>2, <2>5
    <3>2. CodeAt(t, i) <=> CodeAt(s, d + i)
      BY <1>1, <1>2, <3>1 DEF CodeAt
    <3>3. ASSUME CodeAt(t, i) PROVE t[i + 1] = s[d + i + 1] /\ t[i + 2] = s[d + i + 2]
      <4>1. /\ i + 1 \in 1 .. m /\ i + 2 \in 1 .. m
            /\ d + (i + 1) = d + i + 1 /\ d + (i + 2) = d + i + 2
        BY <1>1, <1>2, <3>3 DEF CodeAt
      <4>2. t[i + 1] = s[d + (i + 1)] /\ t[i + 2] = s[d + (i + 2)]
        BY <1>2, <4>1
      <4>3. QED
        BY <4>1, <4>2
    <3>4. ~(i > Len(t)) /\ ~(d + i > Len(s)) /\ i + 3 # 0 /\ i + 1 # 0
          /\ d + i + 3 = d + (i + 3) /\ d + i + 1 = d + (i + 1)
      <4> DEFINE p == Len(s)
                 q == Len(t)
      <4>1. p \in Nat /\ d \in Nat /\ i \in Nat /\ m = p - d /\ q = m /\ i <= m
        BY <1>1, <1>2, <2>5
      <4> HIDE DEF p, q, m, t
      <4>2. ~(i > q) /\ ~(d + i > p)
        BY <4>1
      <4>3. i + 3 # 0 /\ i + 1 # 0
        BY <4>1
      <4>4. d + i + 3 = d + (i + 3) /\ d + i + 1 = d + (i + 1)
        BY <4>1
      <4>5. QED
        BY <4>2, <4>3, <4>4 DEF p, q
    <3>5. NextCode(s)[d + i] = IF NextCode(t)[i] = 0 THEN 0 ELSE d + NextCode(t)[i]
      BY <2>2, <2>3, <3>2, <3>4
    <3>6. DecodedAt(s)[d + i] = DecodedAt(t)[i]
      BY <2>2, <2>3, <3>1, <3>2, <3>3, <3>4
    <3>7. QED
      BY <3>5, <3>6
  <2>6. QED
    BY <1>1, <2>4, <2>5
<1> DEFINE A == DecodedAt(s)
           nextA == NextCode(s)
           B == DecodedAt(t)
           nextB == NextCode(t)
<1>6. Shifted(d, n, A, nextA, B, nextB) /\ GoesOn(n, nextB) /\ Walks(g, n, B, nextB)
  BY <1>3, <1>4, <1>5 DEF Shifted
<1>7. Walks(f, d + n, A, nextA)
  BY <1>1
<1> HIDE DEF A, nextA, B, nextB, n
<1>8. f[d + 1] = g[1]
  BY <1>1, <1>6, <1>7, WalkShift
<1>9. QED
  BY <1>4, <1>8 DEF t

\* Decode takes a code of three characters or one character.
LEMMA DecodeStep ==
    ASSUME NEW s \in Seq(Int)
    PROVE  /\ s = <<>> => Decode(s) = <<>>
           /\ s # <<>> =>
                Decode(s) = IF CodeAt(s, 1) THEN <<Number(s[2], s[3])>> \o Decode(From(s, 4))
                            ELSE <<IF s[1] = PLUS THEN SP ELSE s[1]>> \o Decode(From(s, 2))
<1> DEFINE n == Len(s)
<1>1. n \in Nat /\ (s = <<>> <=> n = 0)
  BY LenProperties, EmptySeq
<1>2. PICK f : Walks(f, n + 1, DecodedAt(s), NextCode(s)) /\ Decode(s) = f[1]
  BY DecodeWalk
<1>3. 1 \in 1 .. n + 1
  BY <1>1
<1>4. /\ NextCode(s)[1] = IF 1 > n THEN 0 ELSE IF CodeAt(s, 1) THEN 1 + 3 ELSE 1 + 1
      /\ DecodedAt(s)[1] = IF 1 > n THEN <<>>
                           ELSE IF CodeAt(s, 1) THEN <<Number(s[1 + 1], s[1 + 2])>>
                           ELSE <<IF s[1] = PLUS THEN SP ELSE s[1]>>
  BY <1>3, Zenon DEF NextCode, DecodedAt
<1>5. f[1] = IF NextCode(s)[1] = 0 THEN DecodedAt(s)[1] ELSE DecodedAt(s)[1] \o f[NextCode(s)[1]]
  BY <1>2, <1>3 DEF Walks
<1>6. CASE n = 0
  BY <1>1, <1>2, <1>4, <1>5, <1>6
<1>7. CASE n # 0 /\ CodeAt(s, 1)
  <2>1. 3 \in 0 .. n /\ ~(1 > n)
    BY <1>1, <1>7 DEF CodeAt
  <2>2. f[3 + 1] = Decode(From(s, 3 + 1))
    BY <1>2, <2>1, DecodeBehind
  <2>3. QED
    BY <1>1, <1>2, <1>4, <1>5, <1>7, <2>1, <2>2, SMTT(30)
<1>8. CASE n # 0 /\ ~CodeAt(s, 1)
  <2>1. 1 \in 0 .. n /\ ~(1 > n)
    BY <1>1, <1>8
  <2>2. f[1 + 1] = Decode(From(s, 1 + 1))
    BY <1>2, <2>1, DecodeBehind
  <2>3. QED
    BY <1>1, <1>2, <1>4, <1>5, <1>8, <2>1, <2>2
<1>9. QED
  BY <1>6, <1>7, <1>8

-----------------------------------------------------------------------------
(* Sequences put together, from the first on                               *)

\* What is put together are sequences of the same things.
LEMMA FlattenIn ==
    ASSUME NEW X, NEW s, NEW n \in Nat, NEW f, Flattens(f, s, n),
           \A i \in 1 .. n : s[i] \in Seq(X)
    PROVE  \A i \in 1 .. n : f[i] \in Seq(X)
<1> DEFINE S == {k \in Nat : k \in 1 .. n => f[k] \in Seq(X)}
<1>1. 0 \in S
  OBVIOUS
<1>2. ASSUME NEW k \in Nat, k \in S PROVE k + 1 \in S
  <2>1. CASE k = 0
    BY <2>1 DEF Flattens
  <2>2. CASE k # 0 /\ k + 1 \in 1 .. n
    <3>1. k \in 1 .. n /\ k + 1 \in 2 .. n /\ (k + 1) - 1 = k
      BY <2>2
    <3>2. f[k] \in Seq(X) /\ s[k + 1] \in Seq(X)
      BY <1>2, <2>2, <3>1
    <3>3. f[k + 1] = f[k] \o s[k + 1]
      BY <3>1 DEF Flattens
    <3>4. f[k + 1] \in Seq(X)
      BY <3>2, <3>3, ConcatProperties
    <3>5. QED
      BY <3>4
  <2>3. QED
    BY <2>1, <2>2
<1> HIDE DEF S
<1>3. Nat \subseteq S
  BY <1>1, <1>2, SetInduction
<1>4. QED
  BY <1>3 DEF S

\* FlattenSeq begins with the first.
LEMMA FlattenFirst ==
    ASSUME NEW X, NEW s \in Seq(Seq(X))
    PROVE  /\ FlattenSeq(s) \in Seq(X)
           /\ s = <<>> => FlattenSeq(s) = <<>>
           /\ s # <<>> => FlattenSeq(s) = s[1] \o FlattenSeq(From(s, 2))
<1> DEFINE n == Len(s)
           t == From(s, 2)
<1>1. n \in Nat /\ (s = <<>> <=> n = 0) /\ \A i \in 1 .. n : s[i] \in Seq(X)
  BY LenProperties, EmptySeq, ElementOfSeq
<1>2. CASE n = 0
  <2>1. FlattenSeq(s) = <<>>
    BY <1>1, <1>2 DEF FlattenSeq
  <2>2. QED
    BY <1>1, <1>2, <2>1
<1>3. CASE n # 0
  <2>1. PICK f : /\ f[1] = s[1] /\ \A i \in 2 .. n : f[i] = f[i - 1] \o s[i]
                 /\ FlattenSeq(s) = f[n]
    BY <1>1, <1>3, FlattenSteps
  <2>2. Flattens(f, s, n) /\ 1 \in 1 .. n /\ n \in 1 .. n
    <3>1. Flattens(f, s, n)
      BY <2>1 DEF Flattens
    <3> HIDE DEF n
    <3>2. QED
      BY <1>1, <1>3, <3>1
  <2>3. \A i \in 1 .. n : f[i] \in Seq(X)
    <3> HIDE DEF n
    <3>1. QED
      BY <1>1, <2>2, FlattenIn
  <2>4. t \in Seq(Seq(X)) /\ Len(t) = n - 1 /\ \A i \in 1 .. n - 1 : t[i] = s[1 + i]
    <3>1. 2 \in 1 .. n + 1 /\ n + 1 - 2 = n - 1 /\ 2 - 1 = 1
      BY <1>1, <1>3, SMTT(30)
    <3>2. /\ From(s, 2) \in Seq(Seq(X)) /\ Len(From(s, 2)) = n + 1 - 2
          /\ \A i \in 1 .. n + 1 - 2 : From(s, 2)[i] = s[2 - 1 + i]
      BY <3>1, FromParts, Zenon
    <3>3. QED
      BY <3>1, <3>2, Zenon
  <2> HIDE DEF t
  <2>5. CASE n = 1
    <3>1. FlattenSeq(t) = <<>>
      <4>1. t = <<>>
        BY <2>4, <2>5, EmptySeq
      <4>2. QED
        BY <4>1 DEF FlattenSeq
    <3>2. s[1] \o <<>> = s[1]
      BY <1>1, <2>2, ConcatEmptySeq
    <3>3. FlattenSeq(s) = s[1] \o FlattenSeq(t)
      BY <2>1, <2>5, <3>1, <3>2
    <3>4. QED
      BY <1>1, <1>3, <2>1, <2>2, <2>3, <3>3 DEF t
  <2>6. CASE n # 1
    <3> DEFINE m == n - 1
    <3>1. m \in Nat /\ m # 0 /\ Len(t) = m /\ m + 1 = n
      BY <1>1, <1>3, <2>4, <2>6, SMTT(30)
    <3>2. PICK g : /\ g[1] = t[1] /\ \A i \in 2 .. m : g[i] = g[i - 1] \o t[i]
                   /\ FlattenSeq(t) = g[m]
      BY <3>1, FlattenSteps
    <3>3. \A i \in 1 .. m : t[i] = s[i + 1] /\ t[i] \in Seq(X)
      <4>1. \A i \in 1 .. m : i + 1 \in 1 .. n /\ 1 + i = i + 1
        BY <1>1
      <4>2. QED
        BY <1>1, <2>4, <4>1
    <3>4. \A i \in 1 .. m : g[i] \in Seq(X)
      <4>1. Flattens(g, t, m)
        BY <3>2 DEF Flattens
      <4> HIDE DEF m
      <4>2. QED
        BY <3>1, <3>3, <4>1, FlattenIn
    <3> DEFINE Is(k) == f[k + 1] = s[1] \o g[k]
               S == {k \in Nat : k \in 1 .. m => Is(k)}
    <3> HIDE DEF m, n, Is
    <3>5. 0 \in S
      OBVIOUS
    <3>6. ASSUME NEW k \in Nat, k \in S PROVE k + 1 \in S
      <4>1. CASE k = 0
        <5>1. 1 \in 1 .. m /\ 1 + 1 = 2 /\ 2 \in 2 .. n /\ 2 - 1 = 1
          BY <3>1
        <5>2. g[1] = s[1 + 1]
          BY <3>2, <3>3, <5>1
        <5>3. f[1 + 1] = f[1] \o s[1 + 1]
          BY <2>1, <5>1
        <5>4. f[1 + 1] = s[1] \o g[1]
          BY <2>1, <5>2, <5>3
        <5>5. Is(1) /\ k + 1 = 1
          BY <4>1, <5>4 DEF Is
        <5>6. QED
          BY <5>5
      <4>2. CASE k # 0 /\ k + 1 \in 1 .. m
        <5>1. /\ k \in 1 .. m /\ k + 1 \in 2 .. m /\ (k + 1) - 1 = k
              /\ k + 2 \in 2 .. n /\ (k + 2) - 1 = k + 1 /\ (k + 1) + 1 = k + 2
          BY <3>1, <4>2
        <5>2. f[k + 1] = s[1] \o g[k]
          BY <3>6, <5>1 DEF Is
        <5>3. f[k + 2] = f[k + 1] \o s[k + 2]
          BY <2>1, <5>1
        <5>4. g[k + 1] = g[k] \o t[k + 1]
          BY <3>2, <5>1
        <5>5. t[k + 1] = s[k + 2] /\ t[k + 1] \in Seq(X)
          BY <3>3, <4>2, <5>1
        <5>6. (s[1] \o g[k]) \o t[k + 1] = s[1] \o (g[k] \o t[k + 1])
          <6> DEFINE a == s[1]
                     b == g[k]
                     c == t[k + 1]
          <6>1. a \in Seq(X) /\ b \in Seq(X) /\ c \in Seq(X)
            BY <1>1, <2>2, <3>4, <5>1, <5>5
          <6> HIDE DEF a, b, c
          <6>2. (a \o b) \o c = a \o (b \o c)
            BY <6>1, ConcatAssociative
          <6>3. QED
            BY <6>2 DEF a, b, c
        <5>7. f[(k + 1) + 1] = s[1] \o g[k + 1]
          BY <5>1, <5>2, <5>3, <5>4, <5>5, <5>6
        <5>8. Is(k + 1)
          BY <5>7 DEF Is
        <5>9. QED
          BY <5>8
      <4>3. QED
        BY <3>1, <4>1, <4>2
    <3> HIDE DEF S
    <3>7. m \in S
      BY <3>1, <3>5, <3>6, SetInduction
    <3>8. f[n] = s[1] \o g[m]
      <4>1. m \in 1 .. m
        BY <3>1
      <4>2. QED
        BY <3>1, <3>7, <4>1 DEF S, Is
    <3>9. QED
      BY <1>1, <1>3, <2>1, <2>2, <2>3, <3>2, <3>8 DEF t
  <2>7. QED
    BY <2>5, <2>6
<1>4. QED
  BY <1>2, <1>3

\* The same behind each place.
LEMMA FlattenFrom ==
    ASSUME NEW X, NEW s \in Seq(Seq(X))
    PROVE  /\ FlattenSeq(From(s, 1)) = FlattenSeq(s)
           /\ FlattenSeq(From(s, Len(s) + 1)) = <<>>
           /\ \A k \in 1 .. Len(s) + 1 : FlattenSeq(From(s, k)) \in Seq(X)
           /\ \A k \in 1 .. Len(s) : FlattenSeq(From(s, k)) = s[k] \o FlattenSeq(From(s, k + 1))
<1>1. /\ Len(s) \in Nat /\ From(s, 1) = s /\ From(s, Len(s) + 1) = <<>>
      /\ \A k \in 1 .. Len(s) + 1 :
           /\ From(s, k) \in Seq(Seq(X)) /\ Len(From(s, k)) = Len(s) + 1 - k
           /\ \A i \in 1 .. Len(s) + 1 - k : From(s, k)[i] = s[k - 1 + i]
  BY FromParts
<1>2. ASSUME NEW k \in 1 .. Len(s) + 1 PROVE FlattenSeq(From(s, k)) \in Seq(X)
  BY <1>1, FlattenFirst
<1>3. ASSUME NEW k \in 1 .. Len(s)
      PROVE  FlattenSeq(From(s, k)) = s[k] \o FlattenSeq(From(s, k + 1))
  <2> DEFINE t == From(s, k)
             m == Len(s) + 1 - k
  <2>1. /\ k \in 1 .. Len(s) + 1 /\ k + 1 \in 1 .. Len(s) + 1 /\ m \in Nat /\ m # 0
        /\ 1 \in 1 .. m /\ k - 1 + 1 = k /\ 2 \in 1 .. m + 1
    BY <1>1
  <2>2. t \in Seq(Seq(X)) /\ Len(t) = m /\ \A i \in 1 .. m : t[i] = s[k - 1 + i]
    BY <1>1, <2>1
  <2>3. t # <<>> /\ t[1] = s[k]
    BY <2>1, <2>2, EmptySeq
  <2>4. From(t, 2) = From(s, k + 1)
    <3>1. From(t, 2) \in Seq(Seq(X)) /\ Len(From(t, 2)) = m + 1 - 2
          /\ \A i \in 1 .. m + 1 - 2 : From(t, 2)[i] = t[2 - 1 + i]
      <4> HIDE DEF t, m
      <4>1. t \in Seq(Seq(X))
        BY <2>2
      <4>2. \A j \in 1 .. Len(t) + 1 :
              /\ From(t, j) \in Seq(Seq(X)) /\ Len(From(t, j)) = Len(t) + 1 - j
              /\ \A i \in 1 .. Len(t) + 1 - j : From(t, j)[i] = t[j - 1 + i]
        BY <4>1, FromParts
      <4>3. PICK j \in 1 .. m + 1 : j = 2
        BY <2>1
      <4>4. Len(t) = m
        BY <2>2
      <4>5. /\ From(t, j) \in Seq(Seq(X)) /\ Len(From(t, j)) = m + 1 - j
            /\ \A i \in 1 .. m + 1 - j : From(t, j)[i] = t[j - 1 + i]
        BY <4>2, <4>4
      <4>6. QED
        BY <4>3, <4>5
    <3>2. From(s, k + 1) \in Seq(Seq(X)) /\ Len(From(s, k + 1)) = Len(s) + 1 - (k + 1)
          /\ \A i \in 1 .. Len(s) + 1 - (k + 1) : From(s, k + 1)[i] = s[(k + 1) - 1 + i]
      BY <1>1, <2>1
    <3>3. m + 1 - 2 = Len(s) + 1 - (k + 1)
      BY <1>1
    <3>4. ASSUME NEW i \in 1 .. m + 1 - 2 PROVE From(t, 2)[i] = From(s, k + 1)[i]
      <4>1. 2 - 1 + i \in 1 .. m /\ k - 1 + (2 - 1 + i) = (k + 1) - 1 + i
        BY <1>1, <2>1
      <4>2. QED
        BY <2>2, <3>1, <3>2, <3>3, <4>1
    <3> DEFINE a == From(t, 2)
               b == From(s, k + 1)
    <3>5. a \in Seq(Seq(X)) /\ b \in Seq(Seq(X)) /\ Len(a) = Len(b) /\ \A i \in 1 .. Len(a) : a[i] = b[i]
      BY <3>1, <3>2, <3>3, <3>4
    <3> HIDE DEF a, b
    <3>6. a = b
      BY <3>5, SeqEqual
    <3>7. QED
      BY <3>6 DEF a, b
  <2>5. FlattenSeq(t) = t[1] \o FlattenSeq(From(t, 2))
    BY <2>2, <2>3, FlattenFirst
  <2>6. QED
    BY <2>3, <2>4, <2>5
<1>4. FlattenSeq(<<>>) = <<>>
  BY DEF FlattenSeq
<1>5. FlattenSeq(From(s, 1)) = FlattenSeq(s) /\ FlattenSeq(From(s, Len(s) + 1)) = <<>>
  BY <1>1, <1>4
<1>6. QED
  BY <1>2, <1>3, <1>5

\* Texts put together have no character that none of them has.
LEMMA WithoutConcat ==
    ASSUME NEW C, NEW a \in TextWithout(C), NEW b \in TextWithout(C)
    PROVE  a \o b \in TextWithout(C)
<1>1. /\ a \in Seq(Int) /\ b \in Seq(Int)
      /\ \A i \in 1 .. Len(a) : a[i] \notin C
      /\ \A i \in 1 .. Len(b) : b[i] \notin C
  BY DEF TextWithout
<1>2. /\ a \o b \in Seq(Int) /\ Len(a \o b) = Len(a) + Len(b)
      /\ \A i \in 1 .. Len(a) : (a \o b)[i] = a[i]
      /\ \A i \in 1 .. Len(b) : (a \o b)[Len(a) + i] = b[i]
  BY <1>1, Parts
<1>3. Len(a) \in Nat /\ Len(b) \in Nat
  BY <1>1, LenProperties
<1> DEFINE n == Len(a)
           m == Len(b)
           s == a \o b
<1> HIDE DEF n, m, s
<1>4. ASSUME NEW i \in 1 .. n + m PROVE s[i] \notin C
  <2>1. i \in 1 .. n \/ (i - n \in 1 .. m /\ n + (i - n) = i)
    BY <1>3 DEF n, m
  <2>2. CASE i \in 1 .. n
    BY <1>1, <1>2, <2>2 DEF n, s
  <2>3. CASE i - n \in 1 .. m /\ n + (i - n) = i
    <3>1. s[n + (i - n)] = b[i - n]
      BY <1>2, <2>3 DEF n, m, s
    <3>2. QED
      BY <1>1, <2>3, <3>1 DEF m
  <2>4. QED
    BY <2>1, <2>2, <2>3
<1>5. s \in Seq(Int) /\ Len(s) = n + m
  BY <1>2 DEF s, n, m
<1>6. s \in TextWithout(C)
  BY <1>4, <1>5 DEF TextWithout
<1>7. QED
  BY <1>6 DEF s

\* A text of one character, and one without more than that.
LEMMA WithoutOne == \A C : \A c \in Int \ C : <<c>> \in TextWithout(C)
  BY DEF TextWithout

LEMMA WithoutEmpty == \A C : <<>> \in TextWithout(C)
  BY DEF TextWithout

-----------------------------------------------------------------------------
(* Percent codes                                                           *)

CodeOf(c) ==
    IF c = SP THEN <<PLUS>>
    ELSE IF c \in Special THEN <<PERCENT, HexDigit(c \div 16), HexDigit(c % 16)>>
    ELSE <<c>>

Codes(value) == [i \in 1 .. Len(value) |-> CodeOf(value[i])]

\* Two digits give the number back.
LEMMA HexDigits ==
    ASSUME NEW c \in Special
    PROVE  /\ Number(HexDigit(c \div 16), HexDigit(c % 16)) = c
           /\ HexDigit(c \div 16) \in 48 .. 57
           /\ HexDigit(c % 16) \in 48 .. 57 \cup 65 .. 70
           /\ c \in Int
<1> DEFINE h == c \div 16
           l == c % 16
<1>1. c \in 33 .. 93
  BY DEF Special
<1>2. h \in 2 .. 5 /\ l \in 0 .. 15 /\ c = 16 * h + l
  BY <1>1
<1> HIDE DEF h, l
<1>3. HexDigit(h) = 48 + h /\ HexValue(HexDigit(h)) = h
  BY <1>2 DEF HexDigit, HexValue
<1>4. HexValue(HexDigit(l)) = l /\ HexDigit(l) \in 48 .. 57 \cup 65 .. 70
  <2>1. CASE l < 10
    BY <1>2, <2>1 DEF HexDigit, HexValue
  <2>2. CASE l >= 10
    <3>1. HexDigit(l) = 55 + l /\ 55 + l \in 65 .. 70 /\ l >= 0
      BY <1>2, <2>2 DEF HexDigit
    <3>2. Lower(55 + l) = 55 + l + 32
      BY <1>2, <3>1 DEF Lower
    <3>3. HexValue(55 + l) = l
      BY <1>2, <3>1, <3>2 DEF HexValue
    <3>4. QED
      BY <3>1, <3>3
  <2>3. QED
    BY <1>2, <2>1, <2>2
<1>5. Number(HexDigit(h), HexDigit(l)) = 16 * h + l
  BY <1>2, <1>3, <1>4 DEF Number
<1>6. QED
  BY <1>1, <1>2, <1>3, <1>4, <1>5 DEF h, l

\* A code has characters only that delimit nothing, unless it is the character.
LEMMA CodeIs ==
    ASSUME NEW c \in Int
    PROVE  /\ CodeOf(c) \in Seq(Int)
           /\ CodeOf(c) \in TextWithout({SP, AMPERSAND, EQUALS, QUESTION})
           /\ c # LF => CodeOf(c) \in TextWithout({LF, SP, AMPERSAND, EQUALS, QUESTION})
<1>1. CASE c = SP
  BY <1>1 DEF CodeOf, TextWithout, PLUS, SP, LF, AMPERSAND, EQUALS, QUESTION
<1>2. CASE c # SP /\ c \in Special
  <2> DEFINE h == HexDigit(c \div 16)
             l == HexDigit(c % 16)
  <2>1. h \in 48 .. 57 /\ l \in 48 .. 57 \cup 65 .. 70
    BY <1>2, HexDigits
  <2>2. CodeOf(c) = <<PERCENT, h, l>>
    BY <1>2 DEF CodeOf
  <2> HIDE DEF h, l
  <2>3. h \in Int /\ l \in Int /\ h \notin {10, 32, 38, 61, 63} /\ l \notin {10, 32, 38, 61, 63}
    BY <2>1
  <2>4. QED
    BY <2>2, <2>3 DEF TextWithout, PERCENT, SP, LF, AMPERSAND, EQUALS, QUESTION
<1>3. CASE c # SP /\ c \notin Special
  <2>1. CodeOf(c) = <<c>> /\ c \notin {32, 38, 61, 63}
    BY <1>3 DEF CodeOf, Special, SP
  <2>2. QED
    BY <2>1 DEF TextWithout, SP, LF, AMPERSAND, EQUALS, QUESTION
<1>4. QED
  BY <1>1, <1>2, <1>3

\* A code in front of a text is decoded to the character.
LEMMA DecodeCode ==
    ASSUME NEW c \in Int, c # PERCENT, NEW t \in Seq(Int)
    PROVE  Decode(CodeOf(c) \o t) = <<c>> \o Decode(t)
<1> DEFINE s == CodeOf(c) \o t
           n == Len(CodeOf(c))
<1>1. CodeOf(c) \in Seq(Int)
  BY CodeIs
<1>2. /\ s \in Seq(Int) /\ Len(s) = n + Len(t)
      /\ \A i \in 1 .. n : s[i] = CodeOf(c)[i]
  BY <1>1, Parts
<1>3. From(s, n + 1) = t
  BY <1>1, CutAt
<1>4. Len(t) \in Nat
  BY LenProperties
<1> HIDE DEF s
<1>5. CASE c = SP
  <2>1. CodeOf(c) = <<PLUS>>
    BY <1>5 DEF CodeOf
  <2>2. n = 1
    BY <2>1
  <2>3. s[1] = PLUS /\ Len(s) = 1 + Len(t) /\ From(s, 2) = t
    BY <1>2, <1>3, <2>1, <2>2
  <2>4. s # <<>> /\ ~CodeAt(s, 1)
    BY <1>2, <1>4, <2>3, EmptySeq DEF CodeAt, PLUS, PERCENT
  <2>5. Decode(s) = <<SP>> \o Decode(t)
    BY <1>2, <2>3, <2>4, DecodeStep
  <2>6. QED
    BY <1>5, <2>5 DEF s
<1>6. CASE c # SP /\ c \in Special
  <2> DEFINE h == HexDigit(c \div 16)
             l == HexDigit(c % 16)
  <2>1. CodeOf(c) = <<PERCENT, h, l>> /\ Number(h, l) = c
    BY <1>6, HexDigits DEF CodeOf
  <2> HIDE DEF h, l
  <2>2. n = 3 /\ CodeOf(c)[1] = PERCENT /\ CodeOf(c)[2] = h /\ CodeOf(c)[3] = l
    BY <2>1
  <2>3. s[1] = PERCENT /\ s[2] = h /\ s[3] = l /\ Len(s) = 3 + Len(t) /\ From(s, 4) = t
    BY <1>2, <1>3, <2>2
  <2>4. s # <<>> /\ CodeAt(s, 1)
    BY <1>2, <1>4, <2>3, EmptySeq DEF CodeAt
  <2>5. Decode(s) = <<Number(h, l)>> \o Decode(t)
    BY <1>2, <2>3, <2>4, DecodeStep
  <2>6. QED
    BY <2>1, <2>5 DEF s
<1>7. CASE c # SP /\ c \notin Special
  <2>1. CodeOf(c) = <<c>> /\ c # PLUS
    BY <1>7 DEF CodeOf, Special, PLUS
  <2>2. n = 1 /\ CodeOf(c)[1] = c
    BY <2>1
  <2>3. s[1] = c /\ Len(s) = 1 + Len(t) /\ From(s, 2) = t
    BY <1>2, <1>3, <2>2
  <2>4. s # <<>> /\ ~CodeAt(s, 1)
    BY <1>2, <1>4, <2>3, EmptySeq DEF CodeAt
  <2>5. Decode(s) = <<c>> \o Decode(t)
    BY <1>2, <2>1, <2>3, <2>4, DecodeStep
  <2>6. QED
    BY <2>5 DEF s
<1>8. QED
  BY <1>5, <1>6, <1>7

\* What Encode writes has no character that delimits a query, and Decode reads it.
LEMMA DecodeEncode ==
    ASSUME NEW v \in TextWithout({PERCENT})
    PROVE  /\ Decode(Encode(v)) = v
           /\ Encode(v) \in TextWithout({SP, AMPERSAND, EQUALS, QUESTION})
           /\ v \in TextWithout({LF, PERCENT}) =>
                Encode(v) \in TextWithout({LF, SP, AMPERSAND, EQUALS, QUESTION})
<1> DEFINE n == Len(v)
           text(k) == FlattenSeq(From(Codes(v), k))
<1>1. v \in Seq(Int) /\ n \in Nat /\ \A i \in 1 .. n : v[i] \in Int /\ v[i] # PERCENT
  BY LenProperties, ElementOfSeq DEF TextWithout
<1>2. \A i \in 1 .. n : CodeOf(v[i]) \in Seq(Int)
  BY <1>1, CodeIs
<1>3. Codes(v) \in Seq(Seq(Int)) /\ Len(Codes(v)) = n /\ \A i \in 1 .. n : Codes(v)[i] = CodeOf(v[i])
  BY <1>1, <1>2 DEF Codes
<1>4. /\ text(1) = Encode(v) /\ text(n + 1) = <<>>
      /\ \A k \in 1 .. n + 1 : text(k) \in Seq(Int)
      /\ \A k \in 1 .. n : text(k) = CodeOf(v[k]) \o text(k + 1)
  <2>1. Encode(v) = FlattenSeq(Codes(v))
    BY Zenon DEF Encode, Codes, CodeOf
  <2>2. /\ text(1) = FlattenSeq(Codes(v)) /\ text(Len(Codes(v)) + 1) = <<>>
        /\ \A k \in 1 .. Len(Codes(v)) + 1 : text(k) \in Seq(Int)
        /\ \A k \in 1 .. Len(Codes(v)) : text(k) = Codes(v)[k] \o text(k + 1)
    BY <1>3, FlattenFrom
  <2> HIDE DEF text, n
  <2>3. QED
    BY <1>3, <2>1, <2>2
<1>5. /\ From(v, 1) = v /\ From(v, n + 1) = <<>>
      /\ \A k \in 1 .. n : From(v, k) = <<v[k]>> \o From(v, k + 1)
  BY <1>1, FromParts
<1> HIDE DEF text, n
<1>6. Decode(Encode(v)) = v
  <2> DEFINE S == {k \in 1 .. n + 1 : Decode(text(k)) = From(v, k)}
  <2>1. n + 1 \in S
    <3>1. Decode(<<>>) = <<>>
      BY DecodeStep, EmptySeq
    <3>2. n + 1 \in 1 .. n + 1
      BY <1>1
    <3>3. QED
      BY <1>4, <1>5, <3>1, <3>2
  <2>2. ASSUME NEW k \in 1 .. n, k + 1 \in S PROVE k \in S
    <3>1. v[k] \in Int /\ v[k] # PERCENT /\ text(k + 1) \in Seq(Int)
      <4>1. k + 1 \in 1 .. n + 1
        BY <1>1
      <4>2. QED
        BY <1>1, <1>4, <4>1
    <3>2. Decode(text(k)) = <<v[k]>> \o Decode(text(k + 1))
      BY <1>4, <3>1, DecodeCode
    <3>3. Decode(text(k)) = From(v, k)
      BY <1>5, <2>2, <3>2
    <3>4. k \in 1 .. n + 1
      BY <1>1
    <3>5. QED
      BY <3>3, <3>4
  <2> HIDE DEF S
  <2>3. 1 \in S
    <3>1. 1 \in 1 .. n + 1
      BY <1>1
    <3>2. QED
      BY <1>1, <2>1, <2>2, <3>1, Down
  <2>4. QED
    BY <1>4, <1>5, <2>3 DEF S
<1>7. ASSUME NEW C, \A k \in 1 .. n : CodeOf(v[k]) \in TextWithout(C)
      PROVE  Encode(v) \in TextWithout(C)
  <2> DEFINE S == {k \in 1 .. n + 1 : text(k) \in TextWithout(C)}
  <2>1. n + 1 \in S
    <3>1. n + 1 \in 1 .. n + 1
      BY <1>1
    <3>2. QED
      BY <1>4, <3>1, WithoutEmpty
  <2>2. ASSUME NEW k \in 1 .. n, k + 1 \in S PROVE k \in S
    <3>1. text(k) \in TextWithout(C)
      BY <1>4, <1>7, <2>2, WithoutConcat
    <3>2. k \in 1 .. n + 1
      BY <1>1
    <3>3. QED
      BY <3>1, <3>2
  <2> HIDE DEF S
  <2>3. 1 \in S
    <3>1. 1 \in 1 .. n + 1
      BY <1>1
    <3>2. QED
      BY <1>1, <2>1, <2>2, <3>1, Down
  <2>4. QED
    BY <1>4, <2>3 DEF S
<1>8. Encode(v) \in TextWithout({SP, AMPERSAND, EQUALS, QUESTION})
  BY <1>1, <1>7, CodeIs
<1>9. ASSUME v \in TextWithout({LF, PERCENT})
      PROVE  Encode(v) \in TextWithout({LF, SP, AMPERSAND, EQUALS, QUESTION})
  <2>1. \A k \in 1 .. n : v[k] # LF
    BY <1>9 DEF TextWithout, n
  <2>2. QED
    BY <1>1, <1>7, <2>1, CodeIs
<1>10. QED
  BY <1>6, <1>8, <1>9

\* A text without codes is left as it is.
LEMMA DecodePlain ==
    ASSUME NEW v \in Seq(Int), \A i \in 1 .. Len(v) : v[i] # PERCENT /\ v[i] # PLUS
    PROVE  Decode(v) = v
<1> DEFINE n == Len(v)
           S == {k \in 1 .. n + 1 : Decode(From(v, k)) = From(v, k)}
<1>1. /\ n \in Nat /\ From(v, 1) = v /\ From(v, n + 1) = <<>>
      /\ \A k \in 1 .. n + 1 : From(v, k) \in Seq(Int)
      /\ \A k \in 1 .. n : From(v, k) = <<v[k]>> \o From(v, k + 1)
      /\ \A i \in 1 .. n : v[i] \in Int
  BY FromParts, ElementOfSeq
<1>2. \A i \in 1 .. n : v[i] # PERCENT /\ v[i] # PLUS
  OBVIOUS
<1> HIDE DEF n
<1>3. n + 1 \in S /\ 1 \in 1 .. n + 1
  <2>1. Decode(<<>>) = <<>>
    BY DecodeStep, EmptySeq
  <2>2. n + 1 \in 1 .. n + 1 /\ 1 \in 1 .. n + 1
    BY <1>1
  <2>3. QED
    BY <1>1, <2>1, <2>2
<1>4. ASSUME NEW k \in 1 .. n, k + 1 \in S PROVE k \in S
  <2> DEFINE s == From(v, k)
             t == From(v, k + 1)
  <2>1. k \in 1 .. n + 1 /\ k + 1 \in 1 .. n + 1
    BY <1>1
  <2>2. s \in Seq(Int) /\ t \in Seq(Int) /\ s = <<v[k]>> \o t /\ Decode(t) = t
    BY <1>1, <1>4, <2>1
  <2>3. <<v[k]>> \in Seq(Int) /\ Len(<<v[k]>>) = 1 /\ <<v[k]>>[1] = v[k]
    BY <1>1
  <2>4. Len(s) = 1 + Len(t) /\ s[1] = v[k] /\ From(s, 2) = t
    <3>1. Len(<<v[k]>> \o t) = Len(<<v[k]>>) + Len(t) /\ \A i \in 1 .. Len(<<v[k]>>) : (<<v[k]>> \o t)[i] = <<v[k]>>[i]
      BY <2>2, <2>3, Parts
    <3>2. From(<<v[k]>> \o t, Len(<<v[k]>>) + 1) = t
      BY <2>2, <2>3, CutAt
    <3> HIDE DEF s, t
    <3>3. 1 \in 1 .. 1 /\ 1 + 1 = 2
      OBVIOUS
    <3>4. QED
      BY <2>2, <2>3, <3>1, <3>2, <3>3
  <2>5. Len(t) \in Nat
    BY <2>2, LenProperties
  <2> HIDE DEF s, t
  <2>6. s # <<>> /\ ~CodeAt(s, 1) /\ s[1] # PLUS
    BY <1>2, <2>2, <2>4, <2>5, EmptySeq DEF CodeAt
  <2>7. Decode(s) = <<v[k]>> \o t
    <3>1. Decode(s) = <<s[1]>> \o Decode(From(s, 2))
      BY <2>2, <2>6, DecodeStep
    <3>2. QED
      BY <2>2, <2>4, <3>1
  <2>8. QED
    BY <2>1, <2>2, <2>7 DEF s
<1> HIDE DEF S
<1>5. 1 \in S
  BY <1>1, <1>3, <1>4, Down
<1>6. QED
  BY <1>1, <1>5 DEF S

-----------------------------------------------------------------------------
(* Pieces of a text                                                        *)

\* A character between two texts.
LEMMA Between ==
    ASSUME NEW a \in Seq(Int), NEW c \in Int, NEW t \in Seq(Int)
    PROVE  /\ a \o <<c>> \o t \in Seq(Int)
           /\ Len(a \o <<c>> \o t) = Len(a) + 1 + Len(t)
           /\ SubSeq(a \o <<c>> \o t, 1, Len(a)) = a
           /\ From(a \o <<c>> \o t, Len(a) + 2) = t
           /\ (a \o <<c>> \o t)[Len(a) + 1] = c
           /\ \A i \in 1 .. Len(a) : (a \o <<c>> \o t)[i] = a[i]
           /\ \A i \in 1 .. Len(t) : (a \o <<c>> \o t)[Len(a) + 1 + i] = t[i]
           /\ a \o <<c>> \o t = a \o (<<c>> \o t)
<1> DEFINE one == <<c>>
           n == Len(a)
<1>1. one \in Seq(Int) /\ Len(one) = 1 /\ one[1] = c
  OBVIOUS
<1> HIDE DEF one
<1>2. n \in Nat /\ Len(t) \in Nat
  BY LenProperties
<1> DEFINE b == one \o t
           d == a \o one
           s == d \o t
<1>3. /\ d \in Seq(Int) /\ Len(d) = n + 1 /\ d[n + 1] = c
      /\ \A i \in 1 .. n : d[i] = a[i]
  <2>1. /\ d \in Seq(Int) /\ Len(d) = n + Len(one)
        /\ \A i \in 1 .. n : d[i] = a[i]
        /\ \A i \in 1 .. Len(one) : d[n + i] = one[i]
    BY <1>1, Parts
  <2>2. 1 \in 1 .. Len(one)
    BY <1>1
  <2>3. QED
    BY <1>1, <2>1, <2>2
<1> HIDE DEF d
<1>4. /\ s \in Seq(Int) /\ Len(s) = Len(d) + Len(t)
      /\ \A i \in 1 .. Len(d) : s[i] = d[i]
      /\ \A i \in 1 .. Len(t) : s[Len(d) + i] = t[i]
  BY <1>3, Parts
<1>5. From(s, Len(d) + 1) = t
  BY <1>3, CutAt
<1>6. s = a \o b
  BY <1>1, ConcatAssociative, SMTT(30) DEF d
<1>7. b \in Seq(Int)
  BY <1>1, Parts
<1>8. SubSeq(s, 1, n) = a
  BY <1>6, <1>7, CutAt
<1> HIDE DEF s, b, n
<1>9. Len(s) = n + 1 + Len(t) /\ From(s, n + 2) = t /\ n + 1 \in 1 .. Len(s)
  <2>1. Len(d) + 1 = n + 2 /\ Len(d) + Len(t) = n + 1 + Len(t)
    BY <1>2, <1>3
  <2>2. Len(s) = n + 1 + Len(t)
    BY <1>4, <2>1
  <2>3. QED
    BY <1>2, <1>5, <2>1, <2>2
<1>10. s[n + 1] = c /\ \A i \in 1 .. n : s[i] = a[i]
  BY <1>2, <1>3, <1>4
<1>11. \A i \in 1 .. Len(t) : s[n + 1 + i] = t[i]
  BY <1>3, <1>4
<1>12. QED
  BY <1>4, <1>6, <1>8, <1>9, <1>10, <1>11 DEF s, d, b, one, n

\* It is the first of its kind if the text before it has none.
LEMMA PlaceBetween ==
    ASSUME NEW a \in Seq(Int), NEW c \in Int, NEW t \in Seq(Int), NEW chars, c \in chars,
           \A i \in 1 .. Len(a) : a[i] \notin chars
    PROVE  Place(a \o <<c>> \o t, 1, chars) = Len(a) + 1
<1> DEFINE s == a \o <<c>> \o t
           n == Len(a)
<1>1. /\ s \in Seq(Int) /\ Len(s) = n + 1 + Len(t) /\ s[n + 1] = c
      /\ \A i \in 1 .. n : s[i] = a[i]
  BY Between
<1>2. n \in Nat /\ Len(t) \in Nat
  BY LenProperties
<1> HIDE DEF s
<1>3. PICK e \in 1 .. Len(s) : e = n + 1
  <2> HIDE DEF n
  <2>1. QED
    BY <1>1, <1>2
<1>4. \A i \in 1 .. e - 1 : s[i] \notin chars
  <2>1. \A i \in 1 .. n : s[i] \notin chars
    BY <1>1
  <2> HIDE DEF n
  <2>2. QED
    BY <1>2, <1>3, <2>1
<1>5. s[e] \in chars /\ 1 \in Nat \ {0}
  BY <1>1, <1>3
<1>6. Place(s, 1, chars) = e
  BY <1>1, <1>4, <1>5, PlaceAt
<1>7. QED
  BY <1>3, <1>6 DEF s

\* The last of its kind, if the text behind it has none.
LEMMA LastPlaceBetween ==
    ASSUME NEW a \in Seq(Int), NEW c \in Int, NEW t \in Seq(Int),
           \A i \in 1 .. Len(t) : t[i] # c
    PROVE  LastPlace(a \o <<c>> \o t, c) = Len(a) + 1
<1> DEFINE s == a \o <<c>> \o t
           n == Len(a)
           m == Len(t)
<1>1. /\ s \in Seq(Int) /\ Len(s) = n + 1 + m /\ s[n + 1] = c
      /\ \A i \in 1 .. m : s[n + 1 + i] = t[i]
  BY Between, SMTT(30)
<1>2. n \in Nat /\ m \in Nat /\ \A i \in 1 .. m : t[i] # c
  BY LenProperties
<1> HIDE DEF s, n, m
<1>3. PICK e \in 1 .. Len(s) : e = n + 1
  BY <1>1, <1>2
<1>4. ASSUME NEW i \in e + 1 .. Len(s) PROVE s[i] # c
  <2>1. i - e \in 1 .. m /\ n + 1 + (i - e) = i
    BY <1>1, <1>2, <1>3
  <2>2. s[n + 1 + (i - e)] = t[i - e]
    BY <1>1, <2>1
  <2>3. QED
    BY <1>2, <2>1, <2>2
<1>5. LastPlace(s, c) = e
  BY <1>1, <1>3, <1>4, LastPlaceAt, Zenon
<1>6. QED
  BY <1>3, <1>5 DEF s, n

\* A piece, and what is behind the character that ends it.
LEMMA PiecesCut ==
    ASSUME NEW c \in Int, NEW a \in TextWithout({c}), NEW t \in Seq(Int)
    PROVE  Pieces(a \o <<c>> \o t, c) = <<a>> \o Pieces(t, c)
<1> DEFINE s == a \o <<c>> \o t
           n == Len(a)
<1>1. a \in Seq(Int) /\ n \in Nat /\ \A i \in 1 .. n : a[i] \notin {c}
  BY LenProperties DEF TextWithout
<1>2. s \in Seq(Int) /\ Place(s, 1, {c}) = n + 1 /\ SubSeq(s, 1, n) = a /\ From(s, n + 2) = t
  <2> DEFINE C == {c}
  <2>1. c \in C /\ \A i \in 1 .. Len(a) : a[i] \notin C
    BY <1>1
  <2> HIDE DEF C
  <2>2. s \in Seq(Int) /\ SubSeq(s, 1, n) = a /\ From(s, n + 2) = t
    BY <1>1, Between
  <2>3. Place(s, 1, C) = n + 1
    BY <1>1, <2>1, PlaceBetween
  <2>4. QED
    BY <2>2, <2>3 DEF C
<1> HIDE DEF s, n
<1>3. n + 1 # 0 /\ (n + 1) - 1 = n /\ (n + 1) + 1 = n + 2
  BY <1>1
<1>4. Pieces(s, c) = <<SubSeq(s, 1, (n + 1) - 1)>> \o Pieces(From(s, (n + 1) + 1), c)
  BY <1>2, <1>3, PiecesStep
<1>5. QED
  BY <1>2, <1>3, <1>4 DEF s

\* The last piece.
LEMMA PiecesEnd ==
    ASSUME NEW c, NEW a \in TextWithout({c})
    PROVE  Pieces(a, c) = <<a>>
<1>1. a \in Seq(Int) /\ \A i \in 1 .. Len(a) : a[i] \notin {c}
  BY DEF TextWithout
<1>2. Place(a, 1, {c}) = 0
  BY <1>1, PlaceAt
<1>3. QED
  BY <1>1, <1>2, PiecesStep

\* Sequences of one put together.
LEMMA Singles ==
    ASSUME NEW X, NEW q \in Seq(X)
    PROVE  FlattenSeq([i \in 1 .. Len(q) |-> <<q[i]>>]) = q
<1> DEFINE n == Len(q)
           ones == [i \in 1 .. n |-> <<q[i]>>]
           S == {k \in 1 .. n + 1 : FlattenSeq(From(ones, k)) = From(q, k)}
<1>1. /\ n \in Nat /\ From(q, 1) = q /\ From(q, n + 1) = <<>>
      /\ \A k \in 1 .. n : From(q, k) = <<q[k]>> \o From(q, k + 1)
      /\ \A i \in 1 .. n : q[i] \in X
  BY FromParts, ElementOfSeq
<1>2. ones \in Seq(Seq(X)) /\ Len(ones) = n /\ \A i \in 1 .. n : ones[i] = <<q[i]>>
  <2>1. \A i \in 1 .. n : <<q[i]>> \in Seq(X)
    BY <1>1
  <2> HIDE DEF n
  <2>2. ones \in [1 .. n -> Seq(X)]
    BY <2>1
  <2>3. QED
    BY <1>1, <2>2
<1> HIDE DEF ones, n
<1>3. /\ FlattenSeq(From(ones, 1)) = FlattenSeq(ones)
      /\ FlattenSeq(From(ones, n + 1)) = <<>>
      /\ \A k \in 1 .. n : FlattenSeq(From(ones, k)) = <<q[k]>> \o FlattenSeq(From(ones, k + 1))
  <2>1. /\ FlattenSeq(From(ones, 1)) = FlattenSeq(ones)
        /\ FlattenSeq(From(ones, Len(ones) + 1)) = <<>>
        /\ \A k \in 1 .. Len(ones) : FlattenSeq(From(ones, k)) = ones[k] \o FlattenSeq(From(ones, k + 1))
    BY <1>2, FlattenFrom
  <2>2. QED
    BY <1>2, <2>1
<1>4. n + 1 \in S /\ 1 \in 1 .. n + 1
  <2>1. n + 1 \in 1 .. n + 1 /\ 1 \in 1 .. n + 1
    BY <1>1
  <2>2. QED
    BY <1>1, <1>3, <2>1
<1>5. ASSUME NEW k \in 1 .. n, k + 1 \in S PROVE k \in S
  <2>1. k \in 1 .. n + 1
    BY <1>1
  <2>2. FlattenSeq(From(ones, k)) = From(q, k)
    BY <1>1, <1>3, <1>5
  <2>3. QED
    BY <2>1, <2>2
<1> HIDE DEF S
<1>6. 1 \in S
  BY <1>1, <1>4, <1>5, Down
<1>7. QED
  BY <1>1, <1>3, <1>6 DEF S, ones, n

-----------------------------------------------------------------------------
(* Query strings                                                           *)

\* A text without more characters is one without fewer.
LEMMA WithoutFewer ==
    ASSUME NEW C, NEW D \in SUBSET C, NEW a \in TextWithout(C)
    PROVE  a \in TextWithout(D)
  BY DEF TextWithout

QueryField == [name : TextWithout({LF, SP, AMPERSAND, QUESTION}) \ {<<>>}, value : TextWithout({LF, PERCENT})]

QueryPiece(f) == f.name \o <<EQUALS>> \o Encode(f.value)

\* What QueryParse makes of a piece.
FieldOf(piece) ==
    IF LastPlace(piece, EQUALS) = 0 THEN Field(piece, <<>>)
    ELSE Field(SubSeq(piece, 1, LastPlace(piece, EQUALS) - 1),
               Decode(From(piece, LastPlace(piece, EQUALS) + 1)))

FieldsOf(piece) == IF FieldOf(piece).name = <<>> THEN <<>> ELSE <<FieldOf(piece)>>

\* QueryParse, piece by piece.
LEMMA QueryParseIs ==
    ASSUME NEW query
    PROVE  QueryParse(query) =
             FlattenSeq([k \in 1 .. Len(Pieces(query, AMPERSAND)) |-> FieldsOf(Pieces(query, AMPERSAND)[k])])
  BY Zenon DEF QueryParse, FieldsOf, FieldOf

Regroups(x, y, z) == (x \o y) \o z = x \o (y \o z)

\* Three texts, joined from the left or from the right.
LEMMA Regroup == \A x, y, z \in Seq(Int) : Regroups(x, y, z) /\ x \o y \in Seq(Int)
  BY ConcatAssociative, ConcatProperties, SMTT(30) DEF Regroups

AreJoined(x, a, y, e) == x \o a \o y \o e = x \o (a \o y \o e)

\* Four texts, joined from the left or with the last three first.
LEMMA Joined ==
    ASSUME NEW x \in Seq(Int), NEW a \in Seq(Int), NEW y \in Seq(Int), NEW e \in Seq(Int)
    PROVE  a \o y \o e \in Seq(Int) /\ AreJoined(x, a, y, e)
<1>1. a \o y \in Seq(Int) /\ Regroups(x, a, y)
  BY Regroup
<1>2. (a \o y) \o e \in Seq(Int) /\ Regroups(x, a \o y, e)
  BY <1>1, Regroup
<1>3. QED
  BY <1>1, <1>2, Zenon DEF Regroups, AreJoined

\* The piece that a field makes has no delimiters, and the field is read from it.
LEMMA QueryPieceIs ==
    ASSUME NEW f \in QueryField
    PROVE  /\ QueryPiece(f) \in TextWithout({LF, SP, AMPERSAND, QUESTION})
           /\ FieldsOf(QueryPiece(f)) = <<f>>
           /\ f.name \in Seq(Int) /\ Encode(f.value) \in Seq(Int)
           /\ AreJoined(<<AMPERSAND>>, f.name, <<EQUALS>>, Encode(f.value))
<1> DEFINE a == f.name
           e == Encode(f.value)
           s == QueryPiece(f)
           C == {LF, SP, AMPERSAND, QUESTION}
<1>1. /\ a \in TextWithout(C) /\ a # <<>> /\ f.value \in TextWithout({LF, PERCENT})
      /\ f = Field(a, f.value)
  BY DEF QueryField, Field
<1>2. f.value \in TextWithout({PERCENT})
  BY <1>1, WithoutFewer
<1>3. Decode(e) = f.value /\ e \in TextWithout({LF, SP, AMPERSAND, EQUALS, QUESTION})
  BY <1>1, <1>2, DecodeEncode
<1>4. e \in TextWithout(C)
  BY <1>3, WithoutFewer
<1>5. <<EQUALS>> \in TextWithout(C)
  BY WithoutOne DEF EQUALS, LF, SP, AMPERSAND, QUESTION
<1>6. a \in Seq(Int) /\ e \in Seq(Int) /\ \A i \in 1 .. Len(e) : e[i] # EQUALS
  BY <1>1, <1>3 DEF TextWithout
<1>7. s = a \o <<EQUALS>> \o e
  BY DEF QueryPiece
<1>8. s \in TextWithout(C)
  <2> HIDE DEF a, e, C
  <2>1. a \o <<EQUALS>> \in TextWithout(C)
    BY <1>1, <1>5, WithoutConcat
  <2>2. QED
    BY <1>4, <1>7, <2>1, WithoutConcat
<1>9. EQUALS \in Int /\ AMPERSAND \in Int
  BY DEF EQUALS, AMPERSAND
<1> HIDE DEF a, e, s
<1>10. LastPlace(s, EQUALS) = Len(a) + 1
  BY <1>6, <1>7, <1>9, LastPlaceBetween
<1>11. SubSeq(s, 1, Len(a)) = a /\ From(s, Len(a) + 2) = e
  BY <1>6, <1>7, <1>9, Between
<1>12. Len(a) + 1 # 0 /\ (Len(a) + 1) - 1 = Len(a) /\ (Len(a) + 1) + 1 = Len(a) + 2
  <2>1. Len(a) \in Nat
    BY <1>6, LenProperties
  <2>2. QED
    BY <2>1
<1>13. FieldOf(s) = Field(a, f.value)
  BY <1>3, <1>10, <1>11, <1>12 DEF FieldOf
<1>14. FieldsOf(s) = <<f>>
  BY <1>1, <1>13 DEF FieldsOf, Field
<1>15. AreJoined(<<AMPERSAND>>, a, <<EQUALS>>, e)
  <2>1. <<AMPERSAND>> \in Seq(Int) /\ <<EQUALS>> \in Seq(Int)
    BY <1>9
  <2>2. QED
    BY <1>6, <2>1, Joined
<1>16. QED
  BY <1>6, <1>8, <1>14, <1>15 DEF s, a, e

\* Pieces of a text that is put together from the end: J[k] is the text from
\* the k-th piece on.
Joins(J, lines, m, c) ==
    \A k \in 1 .. m : lines[k] \in TextWithout({c}) /\ J[k] = lines[k] \o <<c>> \o J[k + 1]

\* The pieces of a text of lines that are joined by a character are these lines.
LEMMA PiecesJoined ==
    ASSUME NEW c \in Int, NEW lines \in Seq(Seq(Int)), NEW m \in 0 .. Len(lines), NEW J,
           \A k \in 1 .. m + 1 : J[k] \in Seq(Int),
           Joins(J, lines, m, c),
           Pieces(J[m + 1], c) = From(lines, m + 1)
    PROVE  Pieces(J[1], c) = lines
<1> DEFINE S == {k \in Nat : Pieces(J[k], c) = From(lines, k)}
<1>1. Len(lines) \in Nat /\ m \in Nat /\ m <= Len(lines)
  BY LenProperties
<1>2. m + 1 \in S
  BY <1>1
<1>3. ASSUME NEW k \in 1 .. m, k + 1 \in S PROVE k \in S
  <2>1. /\ k \in Nat /\ k \in 1 .. Len(lines) /\ k + 1 \in 1 .. m + 1
    BY <1>1
  <2>2. Pieces(J[k + 1], c) = From(lines, k + 1)
    BY <1>3
  <2>3. /\ lines[k] \in TextWithout({c}) /\ J[k] = lines[k] \o <<c>> \o J[k + 1]
        /\ J[k + 1] \in Seq(Int)
    BY <2>1 DEF Joins
  <2>4. Pieces(J[k], c) = <<lines[k]>> \o Pieces(J[k + 1], c)
    BY <2>3, PiecesCut
  <2>5. From(lines, k) = <<lines[k]>> \o From(lines, k + 1)
    BY <2>1, FromParts
  <2>6. QED
    BY <2>1, <2>2, <2>4, <2>5
<1> HIDE DEF S
<1>4. \A k \in 1 .. m + 1 : k \in S
  BY <1>1, <1>2, <1>3, Down
<1>5. 1 \in S
  BY <1>1, <1>4
<1>6. From(lines, 1) = lines
  BY FromParts
<1>7. QED
  BY <1>5, <1>6 DEF S

\* What QueryCreate writes for each field.
QueryParts(q) ==
    [i \in 1 .. Len(q) |->
        (IF i = 1 THEN <<>> ELSE <<AMPERSAND>>)
            \o q[i].name \o <<EQUALS>> \o Encode(q[i].value)]

\* QueryCreate puts the parts together.
LEMMA QueryCreateIs == ASSUME NEW q PROVE QueryCreate(q) = FlattenSeq(QueryParts(q))
  BY Zenon DEF QueryCreate, QueryParts

\* A part is its piece, behind an ampersand unless it is the first.
LEMMA QueryPartIs ==
    ASSUME NEW q \in Seq(QueryField), NEW i \in 1 .. Len(q), NEW t \in Seq(Int)
    PROVE  /\ QueryParts(q)[i] \in TextWithout({LF, SP, QUESTION})
           /\ i = 1 => QueryParts(q)[i] = QueryPiece(q[i])
           /\ i # 1 => QueryParts(q)[i] \o t = <<AMPERSAND>> \o (QueryPiece(q[i]) \o t)
<1> DEFINE f == q[i]
           a == f.name
           e == Encode(f.value)
           p == QueryParts(q)[i]
           C == {LF, SP, QUESTION}
<1>1. f \in QueryField
  BY ElementOfSeq
<1> HIDE DEF f
<1>2. /\ QueryPiece(f) \in TextWithout({LF, SP, AMPERSAND, QUESTION})
      /\ a \in Seq(Int) /\ AreJoined(<<AMPERSAND>>, a, <<EQUALS>>, e)
  BY <1>1, QueryPieceIs
<1>3. p = (IF i = 1 THEN <<>> ELSE <<AMPERSAND>>) \o a \o <<EQUALS>> \o e
  BY Zenon DEF QueryParts, f
<1>4. QueryPiece(f) \in TextWithout(C)
  BY <1>2, WithoutFewer
<1>5. <<AMPERSAND>> \in TextWithout(C) /\ <<AMPERSAND>> \in Seq(Int)
  <2>1. AMPERSAND \in Int \ C
    BY DEF AMPERSAND, LF, SP, QUESTION
  <2> HIDE DEF C
  <2>2. <<AMPERSAND>> \in TextWithout(C)
    BY <2>1, WithoutOne
  <2>3. QED
    BY <2>2 DEF TextWithout
<1>6. <<AMPERSAND>> \o QueryPiece(f) \in TextWithout(C)
  BY <1>4, <1>5, WithoutConcat
<1>7. <<>> \o a = a
  BY <1>2, ConcatSimplifications
<1>8. CASE i = 1
  <2>1. p = QueryPiece(f)
    BY <1>3, <1>7, <1>8, Zenon DEF QueryPiece
  <2>2. QED
    BY <1>4, <1>8, <2>1 DEF f
<1>9. CASE i # 1
  <2>1. p = <<AMPERSAND>> \o a \o <<EQUALS>> \o e
    BY <1>3, <1>9, Zenon
  <2>2. p = <<AMPERSAND>> \o QueryPiece(f)
    BY <1>2, <2>1, Zenon DEF AreJoined, QueryPiece
  <2>3. QueryPiece(f) \in Seq(Int)
    BY <1>4 DEF TextWithout
  <2>4. Regroups(<<AMPERSAND>>, QueryPiece(f), t)
    BY <1>5, <2>3, Regroup
  <2>5. p \o t = <<AMPERSAND>> \o (QueryPiece(f) \o t)
    BY <2>2, <2>4, Zenon DEF Regroups
  <2>6. QED
    BY <1>6, <1>9, <2>2, <2>5 DEF f
<1>10. QED
  BY <1>8, <1>9

\* Texts without some characters, put together.
LEMMA FlattenWithout ==
    ASSUME NEW C, NEW s \in Seq(Seq(Int)), \A i \in 1 .. Len(s) : s[i] \in TextWithout(C)
    PROVE  FlattenSeq(s) \in TextWithout(C)
<1> DEFINE n == Len(s)
           S == {k \in Nat : FlattenSeq(From(s, k)) \in TextWithout(C)}
<1>1. /\ n \in Nat
      /\ FlattenSeq(From(s, 1)) = FlattenSeq(s)
      /\ FlattenSeq(From(s, n + 1)) = <<>>
      /\ \A k \in 1 .. n : FlattenSeq(From(s, k)) = s[k] \o FlattenSeq(From(s, k + 1))
  BY FlattenFrom, LenProperties
<1>2. \A i \in 1 .. n : s[i] \in TextWithout(C)
  OBVIOUS
<1> HIDE DEF n
<1>3. n + 1 \in S
  BY <1>1, WithoutEmpty
<1>4. ASSUME NEW k \in 1 .. n, k + 1 \in S PROVE k \in S
  <2>1. FlattenSeq(From(s, k + 1)) \in TextWithout(C) /\ k \in Nat
    BY <1>1, <1>4
  <2>2. s[k] \o FlattenSeq(From(s, k + 1)) \in TextWithout(C)
    BY <1>2, <2>1, WithoutConcat
  <2>3. QED
    BY <1>1, <2>1, <2>2
<1> HIDE DEF S
<1>5. \A k \in 1 .. n + 1 : k \in S
  BY <1>1, <1>3, <1>4, Down
<1>6. 1 \in S
  BY <1>1, <1>5
<1>7. QED
  BY <1>1, <1>6 DEF S

\* The pieces of a query string that is created from fields.
LEMMA QueryPieces ==
    ASSUME NEW q \in Seq(QueryField), q # <<>>
    PROVE  Pieces(QueryCreate(q), AMPERSAND) = [i \in 1 .. Len(q) |-> QueryPiece(q[i])]
<1> DEFINE n == Len(q)
           parts == QueryParts(q)
           text(k) == FlattenSeq(From(parts, k))
           pieces == [i \in 1 .. n |-> QueryPiece(q[i])]
           J == [k \in 1 .. n |-> pieces[k] \o text(k + 1)]
<1>1. n \in Nat /\ n # 0 /\ \A i \in 1 .. n : q[i] \in QueryField
  BY EmptySeq, LenProperties, ElementOfSeq
<1>2. \A i \in 1 .. n : QueryPiece(q[i]) \in TextWithout({AMPERSAND}) /\ QueryPiece(q[i]) \in Seq(Int)
  <2>1. \A i \in 1 .. n : QueryPiece(q[i]) \in TextWithout({LF, SP, AMPERSAND, QUESTION})
    BY <1>1, QueryPieceIs
  <2>2. QED
    BY <2>1, WithoutFewer DEF TextWithout
<1>3. \A i \in 1 .. n : \A t \in Seq(Int) :
        /\ parts[i] \in Seq(Int)
        /\ i = 1 => parts[i] = QueryPiece(q[i])
        /\ i # 1 => parts[i] \o t = <<AMPERSAND>> \o (QueryPiece(q[i]) \o t)
  BY QueryPartIs DEF TextWithout
<1>4. parts \in Seq(Seq(Int)) /\ Len(parts) = n
  <2>1. parts = [i \in 1 .. n |-> parts[i]]
    BY DEF QueryParts
  <2>2. \A i \in 1 .. n : parts[i] \in Seq(Int)
    <3>1. <<>> \in Seq(Int)
      OBVIOUS
    <3>2. QED
      BY <1>3, <3>1
  <2> HIDE DEF n, parts
  <2>3. parts \in [1 .. n -> Seq(Int)]
    BY <2>1, <2>2
  <2>4. QED
    BY <1>1, <2>3
<1>5. pieces \in Seq(Seq(Int)) /\ Len(pieces) = n /\ \A i \in 1 .. n : pieces[i] = QueryPiece(q[i])
  <2> HIDE DEF n
  <2>1. pieces \in [1 .. n -> Seq(Int)]
    BY <1>2
  <2>2. QED
    BY <1>1, <2>1
<1>6. /\ text(1) = FlattenSeq(parts) /\ text(n + 1) = <<>>
      /\ \A k \in 1 .. n + 1 : text(k) \in Seq(Int)
      /\ \A k \in 1 .. n : text(k) = parts[k] \o text(k + 1)
  <2>1. /\ FlattenSeq(From(parts, 1)) = FlattenSeq(parts)
        /\ FlattenSeq(From(parts, Len(parts) + 1)) = <<>>
        /\ \A k \in 1 .. Len(parts) + 1 : FlattenSeq(From(parts, k)) \in Seq(Int)
        /\ \A k \in 1 .. Len(parts) : FlattenSeq(From(parts, k)) = parts[k] \o FlattenSeq(From(parts, k + 1))
    <3> HIDE DEF parts
    <3>1. QED
      BY <1>4, FlattenFrom
  <2>2. QED
    BY <1>4, <2>1
<1>7. FlattenSeq(parts) = QueryCreate(q)
  BY QueryCreateIs
<1> HIDE DEF parts, pieces, text, n
<1>8. \A k \in 1 .. n : k + 1 \in 1 .. n + 1 /\ J[k] = pieces[k] \o text(k + 1)
  <2>1. \A k \in 1 .. n : k + 1 \in 1 .. n + 1
    BY <1>1
  <2>2. \A k \in 1 .. n : J[k] = pieces[k] \o text(k + 1)
    BY Zenon
  <2>3. QED
    BY <2>1, <2>2
<1>9. \A k \in 1 .. n : J[k] \in Seq(Int)
  BY <1>2, <1>5, <1>6, <1>8, ConcatProperties
<1>10. J[n] = pieces[n] /\ n \in 1 .. n
  <2>1. n \in 1 .. n
    BY <1>1
  <2>2. pieces[n] \in Seq(Int)
    BY <1>2, <1>5, <2>1
  <2>3. pieces[n] \o <<>> = pieces[n]
    BY <2>2, ConcatSimplifications
  <2>4. QED
    BY <1>6, <1>8, <2>1, <2>3
<1>11. J[1] = QueryCreate(q)
  <2>1. 1 \in 1 .. n /\ 1 + 1 = 2
    BY <1>1
  <2>2. parts[1] = pieces[1]
    <3>1. <<>> \in Seq(Int)
      OBVIOUS
    <3>2. \A i \in 1 .. n : i = 1 => parts[i] = QueryPiece(q[i])
      BY <1>3, <3>1
    <3>3. parts[1] = QueryPiece(q[1])
      BY <2>1, <3>2
    <3>4. QED
      BY <1>5, <2>1, <3>3
  <2>3. QED
    BY <1>6, <1>7, <1>8, <2>1, <2>2
<1>12. ASSUME NEW k \in 1 .. n - 1
       PROVE  pieces[k] \in TextWithout({AMPERSAND}) /\ J[k] = pieces[k] \o <<AMPERSAND>> \o J[k + 1]
  <2>1. PICK j \in 1 .. n : j = k + 1
    BY <1>1
  <2>2. k \in 1 .. n /\ j # 1 /\ j + 1 \in 1 .. n + 1
    BY <1>1, <2>1
  <2>3. text(j) = <<AMPERSAND>> \o (pieces[j] \o text(j + 1))
    <3>1. parts[j] \o text(j + 1) = <<AMPERSAND>> \o (QueryPiece(q[j]) \o text(j + 1))
      BY <1>3, <1>6, <2>2
    <3>2. QED
      BY <1>5, <1>6, <3>1
  <2>4. J[k] = pieces[k] \o (<<AMPERSAND>> \o J[j])
    BY <1>8, <2>1, <2>2, <2>3
  <2>5. Regroups(pieces[k], <<AMPERSAND>>, J[j])
    <3>1. pieces[k] \in Seq(Int) /\ J[j] \in Seq(Int) /\ <<AMPERSAND>> \in Seq(Int)
      BY <1>2, <1>5, <1>9, <2>2 DEF AMPERSAND
    <3> HIDE DEF J
    <3>2. QED
      BY <3>1, Regroup
  <2>6. QED
    BY <1>2, <1>5, <2>1, <2>2, <2>4, <2>5 DEF Regroups
<1>13. Pieces(J[n], AMPERSAND) = From(pieces, n)
  <2>1. Pieces(J[n], AMPERSAND) = <<pieces[n]>>
    BY <1>2, <1>5, <1>10, PiecesEnd
  <2>2. From(pieces, n) = <<pieces[n]>> \o From(pieces, n + 1) /\ From(pieces, n + 1) = <<>>
    <3>1. /\ From(pieces, Len(pieces) + 1) = <<>>
          /\ \A k \in 1 .. Len(pieces) : From(pieces, k) = <<pieces[k]>> \o From(pieces, k + 1)
      BY <1>5, FromParts
    <3>2. QED
      BY <1>5, <1>10, <3>1
  <2>3. <<pieces[n]>> \o <<>> = <<pieces[n]>>
    <3>1. pieces[n] \in Seq(Int)
      BY <1>2, <1>5, <1>10
    <3>2. <<pieces[n]>> \in Seq(Seq(Int))
      BY <3>1
    <3>3. QED
      BY <3>2, ConcatSimplifications
  <2>4. QED
    BY <2>1, <2>2, <2>3, Zenon
<1> HIDE DEF J
<1>14. Pieces(J[1], AMPERSAND) = pieces
  <2>1. PICK m \in 0 .. Len(pieces) : m = n - 1
    BY <1>1, <1>5
  <2>2. m + 1 = n /\ (\A k \in 1 .. m + 1 : J[k] \in Seq(Int)) /\ AMPERSAND \in Int
    BY <1>1, <1>9, <2>1 DEF AMPERSAND
  <2>3. Joins(J, pieces, m, AMPERSAND)
    BY <1>12, <2>1 DEF Joins
  <2>4. Pieces(J[m + 1], AMPERSAND) = From(pieces, m + 1)
    BY <1>13, <2>2
  <2>5. QED
    BY <1>5, <2>2, <2>3, <2>4, PiecesJoined
<1>15. QED
  BY <1>11, <1>14 DEF pieces, n

\* A query string that is created from fields is read as these fields, and it
\* has no character that ends it.
LEMMA QueryReads ==
    ASSUME NEW q \in Seq(QueryField)
    PROVE  /\ QueryCreate(q) \in TextWithout({LF, SP, QUESTION})
           /\ QueryParse(QueryCreate(q)) = q
           /\ QueryParse(<<>>) = <<>>
<1> DEFINE n == Len(q)
           parts == QueryParts(q)
<1>1. n \in Nat /\ \A i \in 1 .. n : q[i] \in QueryField
  BY LenProperties, ElementOfSeq
<1>2. QueryCreate(q) \in TextWithout({LF, SP, QUESTION})
  <2>1. parts = [i \in 1 .. n |-> parts[i]]
    BY DEF QueryParts
  <2>2. \A i \in 1 .. n : parts[i] \in TextWithout({LF, SP, QUESTION})
    <3>1. <<>> \in Seq(Int)
      OBVIOUS
    <3>2. QED
      BY <3>1, QueryPartIs
  <2>3. QueryCreate(q) = FlattenSeq(parts)
    BY QueryCreateIs
  <2> HIDE DEF n, parts
  <2>4. parts \in [1 .. n -> Seq(Int)]
    BY <2>1, <2>2 DEF TextWithout
  <2>5. parts \in Seq(Seq(Int)) /\ Len(parts) = n
    BY <1>1, <2>4
  <2>6. QED
    BY <2>2, <2>3, <2>5, FlattenWithout
<1>3. QueryParse(<<>>) = <<>>
  <2>1. <<>> \in TextWithout({AMPERSAND}) /\ LastPlace(<<>>, EQUALS) = 0
    <3>1. <<>> \in Seq(Int) /\ \A j \in 1 .. Len(<<>>) : <<>>[j] # EQUALS
      OBVIOUS
    <3>2. LastPlace(<<>>, EQUALS) = 0
      BY <3>1, LastPlaceAt
    <3>3. QED
      BY <3>2, WithoutEmpty
  <2>2. Pieces(<<>>, AMPERSAND) = <<<<>>>>
    BY <2>1, PiecesEnd
  <2>3. FieldsOf(<<>>) = <<>>
    BY <2>1 DEF FieldsOf, FieldOf, Field
  <2>4. Len(<<<<>>>>) = 1 /\ <<<<>>>>[1] = <<>>
    OBVIOUS
  <2>5. QueryParse(<<>>) = FlattenSeq([k \in 1 .. 1 |-> FieldsOf(<<<<>>>>[k])])
    BY <2>2, <2>4, QueryParseIs
  <2>6. [k \in 1 .. 1 |-> FieldsOf(<<<<>>>>[k])] = <<<<>>>>
    BY <2>3
  <2>7. FlattenSeq(<<<<>>>>) = <<<<>>>>[1] \o FlattenSeq(From(<<<<>>>>, 2))
    <3>1. <<<<>>>> \in Seq(Seq(Int)) /\ <<<<>>>> # <<>>
      OBVIOUS
    <3>2. QED
      BY <3>1, FlattenFirst
  <2>8. From(<<<<>>>>, 2) = <<>>
    BY DEF From
  <2>9. FlattenSeq(<<>>) = <<>>
    BY DEF FlattenSeq
  <2>10. <<>> \o <<>> = <<>>
    OBVIOUS
  <2>11. QED
    BY <2>4, <2>5, <2>6, <2>7, <2>8, <2>9, <2>10
<1>4. ASSUME q = <<>> PROVE QueryCreate(q) = <<>>
  <2>1. QueryParts(q) = <<>>
    BY <1>4 DEF QueryParts
  <2>2. QED
    BY <2>1, QueryCreateIs DEF FlattenSeq
<1>5. ASSUME q # <<>> PROVE QueryParse(QueryCreate(q)) = q
  <2> DEFINE pieces == [i \in 1 .. n |-> QueryPiece(q[i])]
  <2>1. Pieces(QueryCreate(q), AMPERSAND) = pieces
    BY <1>5, QueryPieces
  <2>2. QueryParse(QueryCreate(q)) = FlattenSeq([k \in 1 .. Len(pieces) |-> FieldsOf(pieces[k])])
    BY <2>1, QueryParseIs
  <2>3. Len(pieces) = n
    BY <1>1
  <2>4. \A k \in 1 .. n : FieldsOf(pieces[k]) = <<q[k]>>
    <3>1. \A k \in 1 .. n : FieldsOf(QueryPiece(q[k])) = <<q[k]>>
      BY <1>1, QueryPieceIs
    <3>2. QED
      BY <3>1
  <2>5. [k \in 1 .. Len(pieces) |-> FieldsOf(pieces[k])] = [k \in 1 .. n |-> <<q[k]>>]
    BY <2>3, <2>4
  <2>6. QED
    BY <2>2, <2>5, Singles
<1>6. QED
  BY <1>2, <1>3, <1>4, <1>5

-----------------------------------------------------------------------------
(* Headers                                                                 *)

HeaderField == [name : TextWithout({LF, COLON}), value : TextWithout({LF})]

\* The line of a field, without its LF.
FieldLine(f) == f.name \o <<COLON, SP>> \o f.value \o <<CR>>

\* What HeaderParse makes of a line.
FieldAt(line, start) ==
    IF start <= Len(line)
    THEN <<Field(SubSeq(line, 1, Place(line, 1, {COLON}) - 1), SubSeq(line, start, Len(line) - 1))>>
    ELSE <<>>

HeaderFields(line) ==
    FieldAt(line, IF Place(line, 1, {COLON}) < Len(line) /\ line[Place(line, 1, {COLON}) + 1] = SP
                  THEN Place(line, 1, {COLON}) + 2 ELSE Place(line, 1, {COLON}) + 1)

HeaderEnd(lines) == SelectInSeq(lines, LAMBDA line : Place(line, 1, {COLON}) = 0)

\* HeaderParse, line by line.
LEMMA HeaderParseIs ==
    ASSUME NEW lines
    PROVE  HeaderParse(lines) =
             FlattenSeq([k \in 1 .. (IF HeaderEnd(lines) = 0 THEN Len(lines) ELSE HeaderEnd(lines) - 1) |->
                            HeaderFields(lines[k])])
  BY Zenon DEF HeaderParse, HeaderEnd, HeaderFields, FieldAt

\* The line that a field makes has no LF, and the field is read from it.
LEMMA FieldLineIs ==
    ASSUME NEW f \in HeaderField
    PROVE  /\ FieldLine(f) \in TextWithout({LF})
           /\ Place(FieldLine(f), 1, {COLON}) # 0
           /\ HeaderFields(FieldLine(f)) = <<f>>
           /\ f.name \o <<COLON, SP>> \o f.value \o Line = FieldLine(f) \o <<LF>>
<1> DEFINE a == f.name
           v == f.value
           x == <<COLON, SP>>
           y == <<CR>>
           s == FieldLine(f)
           n == Len(a)
           m == Len(v)
           u == <<SP>> \o (v \o y)
<1>1. /\ a \in TextWithout({LF, COLON}) /\ v \in TextWithout({LF}) /\ f = Field(a, v)
      /\ a \in Seq(Int) /\ v \in Seq(Int) /\ \A i \in 1 .. Len(a) : a[i] \notin {COLON}
  BY DEF HeaderField, Field, TextWithout
<1>2. /\ x \in Seq(Int) /\ y \in Seq(Int) /\ <<LF>> \in Seq(Int) /\ <<SP>> \in Seq(Int)
      /\ <<COLON>> \in Seq(Int) /\ COLON \in Int /\ SP \in Int /\ x = <<COLON>> \o <<SP>> /\ Line = y \o <<LF>>
      /\ Len(y) = 1 /\ Len(<<SP>>) = 1 /\ COLON \in {COLON}
  BY DEF COLON, SP, CR, LF, Line
<1>3. n \in Nat /\ m \in Nat
  BY <1>1, LenProperties
<1>4. x \in TextWithout({LF}) /\ y \in TextWithout({LF})
  BY DEF TextWithout, COLON, SP, CR, LF
<1>5. s \in TextWithout({LF})
  <2> HIDE DEF a, v, x, y
  <2>1. a \in TextWithout({LF})
    BY <1>1, WithoutFewer
  <2>2. a \o x \in TextWithout({LF})
    BY <1>4, <2>1, WithoutConcat
  <2>3. a \o x \o v \in TextWithout({LF})
    BY <1>1, <2>2, WithoutConcat
  <2>4. a \o x \o v \o y \in TextWithout({LF})
    BY <1>4, <2>3, WithoutConcat
  <2>5. QED
    BY <2>4 DEF FieldLine, a, v, x, y
<1> HIDE DEF a, v, x, y, n, m
<1>6. s = a \o x \o v \o y
  BY DEF FieldLine, a, v, x, y
<1> HIDE DEF s
<1>7. a \o x \in Seq(Int) /\ a \o x \o v \in Seq(Int)
  <2>1. a \o x \in Seq(Int)
    BY <1>1, <1>2, ConcatProperties
  <2>2. QED
    BY <1>1, <2>1, ConcatProperties
<1>8. a \o x \o v \o Line = s \o <<LF>>
  <2>1. Regroups(a \o x \o v, y, <<LF>>)
    BY <1>2, <1>7, Regroup
  <2>2. QED
    BY <1>2, <1>6, <2>1 DEF Regroups
<1>9. v \o y \in Seq(Int) /\ u \in Seq(Int) /\ Len(v \o y) = m + 1 /\ Len(u) = m + 2
  <2>1. v \o y \in Seq(Int) /\ Len(v \o y) = m + 1
    <3>1. v \o y \in Seq(Int) /\ Len(v \o y) = Len(v) + Len(y)
      BY <1>1, <1>2, Parts
    <3>2. QED
      BY <1>2, <3>1 DEF m
  <2>2. u \in Seq(Int) /\ Len(u) = Len(<<SP>>) + Len(v \o y)
    BY <1>2, <2>1, Parts
  <2>3. QED
    BY <1>2, <1>3, <2>1, <2>2
<1>10. s = a \o <<COLON>> \o u
  <2>1. Regroups(a, <<COLON>>, <<SP>>) /\ a \o <<COLON>> \in Seq(Int)
    BY <1>1, <1>2, Regroup
  <2>2. Regroups(a \o x, v, y)
    BY <1>1, <1>2, <1>7, Regroup
  <2>3. Regroups(a \o <<COLON>>, <<SP>>, v \o y)
    BY <1>2, <1>9, <2>1, Regroup
  <2>4. a \o x = a \o <<COLON>> \o <<SP>>
    BY <1>2, <2>1, Zenon DEF Regroups
  <2>5. QED
    BY <1>6, <2>2, <2>3, <2>4, Zenon DEF Regroups
<1> HIDE DEF u
<1>11. /\ s \in Seq(Int) /\ Len(s) = n + 1 + (m + 2)
       /\ SubSeq(s, 1, n) = a /\ From(s, n + 2) = u
       /\ \A i \in 1 .. m + 2 : s[n + 1 + i] = u[i]
  <2>1. s \in Seq(Int) /\ Len(s) = Len(a) + 1 + Len(u)
        /\ SubSeq(s, 1, Len(a)) = a /\ From(s, Len(a) + 2) = u
        /\ \A i \in 1 .. Len(u) : s[Len(a) + 1 + i] = u[i]
    <3> DEFINE w == a \o <<COLON>> \o u
    <3>1. w \in Seq(Int) /\ Len(w) = Len(a) + 1 + Len(u)
          /\ SubSeq(w, 1, Len(a)) = a /\ From(w, Len(a) + 2) = u
          /\ \A i \in 1 .. Len(u) : w[Len(a) + 1 + i] = u[i]
      <4>1. a \in Seq(Int) /\ u \in Seq(Int) /\ COLON \in Int
        BY <1>1, <1>2, <1>9
      <4>2. QED
        BY <4>1, Between, SMTT(30)
    <3> HIDE DEF w
    <3>2. s = w
      BY <1>10 DEF w
    <3>3. QED
      BY <3>1, <3>2
  <2>2. QED
    BY <1>9, <2>1 DEF n
<1>12. Place(s, 1, {COLON}) = n + 1
  <2>1. Place(a \o <<COLON>> \o u, 1, {COLON}) = Len(a) + 1
    <3> DEFINE chars == {COLON}
    <3>1. COLON \in chars /\ \A i \in 1 .. Len(a) : a[i] \notin chars
      BY <1>1
    <3> HIDE DEF chars
    <3>2. Place(a \o <<COLON>> \o u, 1, chars) = Len(a) + 1
      BY <1>1, <1>2, <1>9, <3>1, PlaceBetween
    <3>3. QED
      BY <3>2 DEF chars
  <2>2. QED
    BY <1>10, <2>1, Zenon DEF n
<1>13. u[1] = SP /\ From(u, 2) = v \o y /\ SubSeq(v \o y, 1, m) = v
  <2>1. <<SP>> = <<SP>>
    OBVIOUS
  <2>2. SubSeq(v \o y, 1, Len(v)) = v /\ From(u, Len(<<SP>>) + 1) = v \o y
    BY <1>1, <1>2, <1>9, CutAt DEF u
  <2>3. u[1] = SP
    <3>1. \A i \in 1 .. Len(<<SP>>) : u[i] = <<SP>>[i]
      BY <1>2, <1>9, Parts DEF u
    <3>2. QED
      BY <1>2, <3>1
  <2>4. QED
    BY <1>2, <2>2, <2>3 DEF m
<1>14. SubSeq(s, n + 3, Len(s) - 1) = v
  <2>1. PICK d \in 0 .. Len(s) : d = n + 2
    BY <1>3, <1>11
  <2>2. From(s, d + 1) = v \o y
    <3>1. PICK e \in 0 .. Len(s) : e = n + 1
      BY <1>3, <1>11
    <3>2. 2 <= Len(s) - e + 1 /\ e + 2 = d + 1 /\ e + 1 = n + 2 /\ 0 <= Len(s) - e
      <4>1. Len(s) = n + 1 + (m + 2)
        BY <1>11
      <4>2. QED
        BY <1>3, <2>1, <3>1, <4>1
    <3>3. From(s, e + 2) = From(From(s, e + 1), 2)
      BY <1>11, <3>2, BetweenBehind
    <3>4. QED
      BY <1>11, <1>13, <3>2, <3>3
  <2>3. m <= Len(s) - d /\ d + 1 = n + 3 /\ d + m = Len(s) - 1
    BY <1>3, <1>11, <2>1
  <2>4. SubSeq(s, d + 1, d + m) = SubSeq(From(s, d + 1), 1, m)
    <3>1. m \in Nat /\ m <= Len(s) - d /\ s \in Seq(Int)
      BY <1>3, <1>11, <2>3
    <3>2. \A i \in Nat \ {0} : SubSeq(s, d + i, d + m) = SubSeq(From(s, d + 1), i, m)
      BY <3>1, BetweenBehind
    <3>3. PICK i \in Nat \ {0} : i = 1
      OBVIOUS
    <3>4. SubSeq(s, d + i, d + m) = SubSeq(From(s, d + 1), i, m)
      BY <3>2
    <3>5. QED
      BY <3>3, <3>4
  <2>5. QED
    BY <1>13, <2>2, <2>3, <2>4
<1>15. HeaderFields(s) = <<Field(a, v)>>
  <2>1. n + 1 < Len(s) /\ n + 1 + 1 \in 1 .. Len(s) /\ s[n + 1 + 1] = SP
    <3>1. 1 \in 1 .. m + 2 /\ n + 1 < Len(s) /\ n + 1 + 1 \in 1 .. Len(s)
      BY <1>3, <1>11
    <3>2. QED
      BY <1>11, <1>13, <3>1
  <2>2. HeaderFields(s) = FieldAt(s, n + 1 + 2)
    BY <1>12, <2>1 DEF HeaderFields
  <2>3. n + 1 + 2 = n + 3 /\ n + 3 <= Len(s) /\ (n + 1) - 1 = n
    BY <1>3, <1>11
  <2>4. FieldAt(s, n + 3) = <<Field(SubSeq(s, 1, n), SubSeq(s, n + 3, Len(s) - 1))>>
    BY <1>12, <2>3 DEF FieldAt
  <2>5. QED
    BY <1>11, <1>14, <2>2, <2>3, <2>4
<1>16. n + 1 # 0
  BY <1>3
<1>17. QED
  BY <1>1, <1>5, <1>8, <1>12, <1>15, <1>16 DEF s, a, v, x

\* Two sequences of anything, one behind the other.
LEMMA Joint ==
    ASSUME NEW X, NEW a \in Seq(X), NEW b \in Seq(X)
    PROVE  /\ a \o b \in Seq(X) /\ Len(a \o b) = Len(a) + Len(b)
           /\ \A i \in 1 .. Len(a) : (a \o b)[i] = a[i]
           /\ \A i \in 1 .. Len(b) : (a \o b)[Len(a) + i] = b[i]
           /\ From(a \o b, Len(a) + 1) = b
<1> DEFINE s == a \o b
           n == Len(a)
           m == Len(b)
<1>1. n \in Nat /\ m \in Nat
  BY LenProperties
<1>2. s \in Seq(X) /\ Len(s) = n + m /\ \A i \in 1 .. n + m : s[i] = IF i <= n THEN a[i] ELSE b[i - n]
  BY ConcatProperties
<1> HIDE DEF s, n, m
<1>3. \A i \in 1 .. n : s[i] = a[i]
  BY <1>1, <1>2
<1>4. ASSUME NEW i \in 1 .. m PROVE s[n + i] = b[i]
  <2>1. n + i \in 1 .. n + m /\ ~(n + i <= n) /\ (n + i) - n = i
    BY <1>1
  <2>2. QED
    BY <1>2, <2>1
<1>5. From(s, n + 1) = b
  <2>1. n + 1 \in 1 .. Len(s) + 1 /\ Len(s) + 1 - (n + 1) = m
    BY <1>1, <1>2
  <2>2. \A k \in 1 .. Len(s) + 1 :
          /\ From(s, k) \in Seq(X) /\ Len(From(s, k)) = Len(s) + 1 - k
          /\ \A i \in 1 .. Len(s) + 1 - k : From(s, k)[i] = s[k - 1 + i]
    BY <1>2, FromParts
  <2> DEFINE f == From(s, n + 1)
  <2>3. /\ f \in Seq(X) /\ Len(f) = m
        /\ \A i \in 1 .. m : f[i] = s[(n + 1) - 1 + i]
    BY <2>1, <2>2
  <2>4. \A i \in 1 .. m : (n + 1) - 1 + i = n + i
    BY <1>1
  <2> HIDE DEF f
  <2>5. \A i \in 1 .. m : f[i] = b[i]
    BY <1>4, <2>3, <2>4
  <2>6. f = b
    BY <2>3, <2>5, SeqEqual DEF m
  <2>7. QED
    BY <2>6 DEF f
<1>6. QED
  BY <1>2, <1>3, <1>4, <1>5 DEF s, n, m

\* A sequence of two.
LEMMA Pair ==
    ASSUME NEW X, NEW p \in X, NEW q \in X
    PROVE  <<p>> \o <<q>> = <<p, q>> /\ <<p, q>> \in Seq(X)
<1> DEFINE a == <<p>>
           b == <<q>>
           s == <<p, q>>
<1>1. a \in Seq(X) /\ b \in Seq(X) /\ Len(a) = 1 /\ Len(b) = 1 /\ a[1] = p /\ b[1] = q
  OBVIOUS
<1>2. s \in Seq(X) /\ Len(s) = 2 /\ s[1] = p /\ s[2] = q
  OBVIOUS
<1> HIDE DEF a, b, s
<1>3. /\ a \o b \in Seq(X) /\ Len(a \o b) = 2
      /\ \A i \in 1 .. 1 : (a \o b)[i] = a[i]
      /\ \A i \in 1 .. 1 : (a \o b)[1 + i] = b[i]
  <2>1. /\ a \o b \in Seq(X) /\ Len(a \o b) = Len(a) + Len(b)
        /\ \A i \in 1 .. Len(a) : (a \o b)[i] = a[i]
        /\ \A i \in 1 .. Len(b) : (a \o b)[Len(a) + i] = b[i]
    BY <1>1, Joint, ZenonT(60)
  <2> DEFINE c == a \o b
  <2>2. Len(a) = 1 /\ Len(b) = 1 /\ 1 + 1 = 2
    BY <1>1
  <2> HIDE DEF c
  <2>3. c \in Seq(X) /\ Len(c) = 2 /\ \A i \in 1 .. 1 : c[i] = a[i] /\ c[1 + i] = b[i]
    BY <2>1, <2>2 DEF c
  <2>4. QED
    BY <2>3 DEF c
<1>4. (a \o b)[1] = p /\ (a \o b)[2] = q
  <2>1. 1 \in 1 .. 1 /\ 1 + 1 = 2
    OBVIOUS
  <2>2. QED
    BY <1>1, <1>3, <2>1
<1>5. \A i \in 1 .. 2 : (a \o b)[i] = s[i]
  <2>1. \A i \in 1 .. 2 : i = 1 \/ i = 2
    OBVIOUS
  <2>2. QED
    BY <1>2, <1>4, <2>1, Zenon
<1>6. a \o b = s
  <2> DEFINE t == a \o b
  <2>1. t \in Seq(X) /\ Len(t) = Len(s) /\ \A i \in 1 .. Len(t) : t[i] = s[i]
    BY <1>2, <1>3, <1>5
  <2> HIDE DEF t
  <2>2. t = s
    BY <1>2, <2>1, SeqEqual
  <2>3. QED
    BY <2>2 DEF t
<1>7. QED
  BY <1>2, <1>6 DEF a, b, s

HeaderParts(h) == [i \in 1 .. Len(h) |-> h[i].name \o <<COLON, SP>> \o h[i].value \o Line]

FieldLines(h) == [i \in 1 .. Len(h) |-> FieldLine(h[i])]

\* What is behind the last LF of a header, and the line before it.
Ending == <<<<CR>>, <<>>>>

\* HeaderText puts the parts together.
LEMMA HeaderTextIs == ASSUME NEW h PROVE HeaderText(h) = FlattenSeq(HeaderParts(h))
  BY Zenon DEF HeaderText, HeaderParts

\* The lines behind a header: that of its end, and nothing.
LEMMA EndingPieces == Pieces(Line, LF) = Ending /\ Ending \in Seq(Seq(Int)) /\ Line \in Seq(Int)
<1>1. /\ LF \in Int /\ <<CR>> \in TextWithout({LF}) /\ <<>> \in TextWithout({LF}) /\ <<>> \in Seq(Int)
  BY DEF LF, CR, TextWithout
<1>2. Pieces(<<CR>> \o <<LF>> \o <<>>, LF) = <<<<CR>>>> \o Pieces(<<>>, LF)
  BY <1>1, PiecesCut
<1>3. Pieces(<<>>, LF) = <<<<>>>>
  BY <1>1, PiecesEnd
<1>4. <<CR>> \o <<LF>> \o <<>> = Line /\ Line \in Seq(Int)
  <2>1. <<CR>> \o <<LF>> = Line /\ Line \in Seq(Int)
    <3>1. CR \in Int /\ LF \in Int
      BY DEF CR, LF
    <3>2. QED
      BY <3>1, Pair DEF Line
  <2>2. Line \o <<>> = Line
    BY <2>1, ConcatSimplifications
  <2>3. QED
    BY <2>1, <2>2, Zenon
<1>5. <<<<CR>>>> \o <<<<>>>> = Ending /\ Ending \in Seq(Seq(Int))
  <2>1. \A p, q \in Seq(Int) : <<p>> \o <<q>> = <<p, q>> /\ <<p, q>> \in Seq(Seq(Int))
    BY Pair, Zenon
  <2>2. <<CR>> \in Seq(Int)
    BY DEF CR
  <2>3. QED
    BY <1>1, <2>1, <2>2 DEF Ending
<1>6. QED
  BY <1>2, <1>3, <1>4, <1>5, Zenon

\* The lines of a header.
LEMMA HeaderLinesAre ==
    ASSUME NEW h \in Seq(HeaderField)
    PROVE  /\ HeaderText(h) \in Seq(Int)
           /\ FieldLines(h) \in Seq(Seq(Int)) /\ Len(FieldLines(h)) = Len(h)
           /\ Pieces(HeaderText(h) \o Line, LF) = FieldLines(h) \o Ending
<1> DEFINE n == Len(h)
           parts == HeaderParts(h)
           own == FieldLines(h)
           lines == own \o Ending
           text(k) == FlattenSeq(From(parts, k))
           J == [k \in 1 .. n + 1 |-> text(k) \o Line]
<1>1. n \in Nat /\ \A i \in 1 .. n : h[i] \in HeaderField
  BY LenProperties, ElementOfSeq
<1>2. \A i \in 1 .. n : /\ own[i] \in TextWithout({LF}) /\ own[i] \in Seq(Int)
                        /\ parts[i] = own[i] \o <<LF>> /\ parts[i] \in Seq(Int)
  <2>1. \A i \in 1 .. n : FieldLine(h[i]) \in TextWithout({LF}) /\ FieldLine(h[i]) \in Seq(Int)
                          /\ h[i].name \o <<COLON, SP>> \o h[i].value \o Line = FieldLine(h[i]) \o <<LF>>
    BY <1>1, FieldLineIs DEF TextWithout
  <2>2. \A i \in 1 .. n : own[i] = FieldLine(h[i])
    BY DEF FieldLines
  <2>3. \A i \in 1 .. n : parts[i] = h[i].name \o <<COLON, SP>> \o h[i].value \o Line
    BY Zenon DEF HeaderParts
  <2>4. <<LF>> \in Seq(Int)
    BY DEF LF
  <2> HIDE DEF own, parts, n
  <2>5. ASSUME NEW i \in 1 .. n
        PROVE  /\ own[i] \in TextWithout({LF}) /\ own[i] \in Seq(Int)
               /\ parts[i] = own[i] \o <<LF>> /\ parts[i] \in Seq(Int)
    <3>1. own[i] \in TextWithout({LF}) /\ own[i] \in Seq(Int)
      BY <2>1, <2>2
    <3>2. parts[i] = own[i] \o <<LF>>
      BY <2>1, <2>2, <2>3, Zenon
    <3>3. own[i] \o <<LF>> \in Seq(Int)
      BY <2>4, <3>1, ConcatProperties
    <3>4. QED
      BY <3>1, <3>2, <3>3
  <2>6. QED
    BY <2>5
<1>3. /\ own \in Seq(Seq(Int)) /\ Len(own) = n
      /\ parts \in Seq(Seq(Int)) /\ Len(parts) = n
  <2>1. own = [i \in 1 .. n |-> own[i]] /\ parts = [i \in 1 .. n |-> parts[i]]
    BY DEF FieldLines, HeaderParts
  <2> HIDE DEF own, parts, n
  <2>2. own \in [1 .. n -> Seq(Int)] /\ parts \in [1 .. n -> Seq(Int)]
    BY <1>2, <2>1
  <2>3. QED
    BY <1>1, <2>2
<1>4. FlattenSeq(parts) = HeaderText(h)
  BY HeaderTextIs
<1> HIDE DEF own, parts, n
<1>5. /\ text(1) = FlattenSeq(parts) /\ text(n + 1) = <<>>
      /\ \A k \in 1 .. n + 1 : text(k) \in Seq(Int)
      /\ \A k \in 1 .. n : text(k) = parts[k] \o text(k + 1)
  <2>1. /\ FlattenSeq(From(parts, 1)) = FlattenSeq(parts)
        /\ FlattenSeq(From(parts, Len(parts) + 1)) = <<>>
        /\ \A k \in 1 .. Len(parts) + 1 : FlattenSeq(From(parts, k)) \in Seq(Int)
        /\ \A k \in 1 .. Len(parts) : FlattenSeq(From(parts, k)) = parts[k] \o FlattenSeq(From(parts, k + 1))
    BY <1>3, FlattenFrom
  <2>2. QED
    BY <1>3, <2>1
<1>6. Ending \in Seq(Seq(Int)) /\ Line \in Seq(Int) /\ Pieces(Line, LF) = Ending
  BY EndingPieces
<1>7. /\ lines \in Seq(Seq(Int)) /\ Len(lines) = n + Len(Ending)
      /\ \A i \in 1 .. n : lines[i] = own[i]
      /\ From(lines, n + 1) = Ending
  <2>1. /\ lines \in Seq(Seq(Int)) /\ Len(lines) = Len(own) + Len(Ending)
        /\ \A i \in 1 .. Len(own) : lines[i] = own[i]
        /\ From(lines, Len(own) + 1) = Ending
    BY <1>3, <1>6, Joint
  <2>2. QED
    BY <1>3, <2>1
<1> HIDE DEF lines, text
<1>8. \A k \in 1 .. n + 1 : J[k] = text(k) \o Line
  BY Zenon
<1> HIDE DEF J
<1>9. \A k \in 1 .. n + 1 : J[k] \in Seq(Int)
  BY <1>5, <1>6, <1>8, ConcatProperties
<1>10. ASSUME NEW k \in 1 .. n
       PROVE  lines[k] \in TextWithout({LF}) /\ J[k] = lines[k] \o <<LF>> \o J[k + 1]
  <2>1. PICK j \in 1 .. n + 1 : j = k + 1
    BY <1>1
  <2>2. k \in 1 .. n + 1
    BY <1>1
  <2>3. text(k) = own[k] \o <<LF>> \o text(j)
    BY <1>2, <1>5, <2>1
  <2>4. Regroups(own[k] \o <<LF>>, text(j), Line)
    <3>1. own[k] \o <<LF>> \in Seq(Int)
      BY <1>2
    <3>2. text(j) \in Seq(Int)
      BY <1>5
    <3>3. QED
      BY <1>6, <3>1, <3>2, Regroup
  <2>5. J[k] = own[k] \o <<LF>> \o J[j]
    BY <1>8, <2>2, <2>3, <2>4, Zenon DEF Regroups
  <2>6. QED
    BY <1>2, <1>7, <2>1, <2>5
<1>11. Pieces(J[n + 1], LF) = From(lines, n + 1)
  <2>1. n + 1 \in 1 .. n + 1
    BY <1>1
  <2>2. <<>> \o Line = Line
    BY <1>6, ConcatSimplifications
  <2>3. J[n + 1] = Line
    BY <1>5, <1>8, <2>1, <2>2
  <2>4. QED
    BY <1>6, <1>7, <2>3
<1>12. J[1] = HeaderText(h) \o Line
  <2>1. 1 \in 1 .. n + 1
    BY <1>1
  <2>2. QED
    BY <1>4, <1>5, <1>8, <2>1
<1>13. Pieces(J[1], LF) = lines
  <2>1. Len(Ending) \in Nat
    BY <1>6, LenProperties
  <2>2. n \in 0 .. Len(lines)
    BY <1>1, <1>7, <2>1
  <2>3. Joins(J, lines, n, LF)
    BY <1>10 DEF Joins
  <2>4. LF \in Int
    BY DEF LF
  <2>5. QED
    BY <1>7, <1>9, <1>11, <2>2, <2>3, <2>4, PiecesJoined
<1>14. HeaderText(h) \in Seq(Int)
  <2>1. 1 \in 1 .. n + 1
    BY <1>1
  <2>2. QED
    BY <1>4, <1>5, <2>1
<1>15. QED
  BY <1>3, <1>12, <1>13, <1>14 DEF lines, own, n

AreJoint(s, a, b) ==
    /\ s \in Seq(Seq(Int)) /\ Len(s) = Len(a) + Len(b)
    /\ \A i \in 1 .. Len(a) : s[i] = a[i]
    /\ \A i \in 1 .. Len(b) : s[Len(a) + i] = b[i]
    /\ From(s, Len(a) + 1) = b

\* Two sequences of texts, joined.
LEMMA JointTexts == \A a, b \in Seq(Seq(Int)) : AreJoint(a \o b, a, b)
  BY Joint DEF AreJoint

\* The header's lines are read as its fields.
LEMMA HeaderReads ==
    ASSUME NEW h \in Seq(HeaderField)
    PROVE  HeaderParse(FieldLines(h) \o Ending) = h
<1> DEFINE n == Len(h)
           own == FieldLines(h)
           lines == own \o Ending
           Without(i) == Place(lines[i], 1, {COLON}) = 0
           I == {i \in 1 .. Len(lines) : Without(i)}
<1>1. n \in Nat /\ \A i \in 1 .. n : h[i] \in HeaderField
  BY LenProperties, ElementOfSeq
<1>2. \A i \in 1 .. n : own[i] = FieldLine(h[i])
  BY DEF FieldLines
<1>3. \A i \in 1 .. n : Place(own[i], 1, {COLON}) # 0 /\ HeaderFields(own[i]) = <<h[i]>>
  <2>1. \A i \in 1 .. n : Place(FieldLine(h[i]), 1, {COLON}) # 0 /\ HeaderFields(FieldLine(h[i])) = <<h[i]>>
    BY <1>1, FieldLineIs
  <2> HIDE DEF n, own
  <2>2. QED
    BY <1>2, <2>1
<1>4. own \in Seq(Seq(Int)) /\ Len(own) = n
  BY HeaderLinesAre
<1>5. Ending \in Seq(Seq(Int)) /\ Len(Ending) = 2 /\ Ending[1] = <<CR>>
  <2>1. Len(Ending) = 2 /\ Ending[1] = <<CR>>
    BY DEF Ending
  <2>2. QED
    BY <2>1, EndingPieces
<1> HIDE DEF own, n
<1>6. /\ lines \in Seq(Seq(Int)) /\ Len(lines) = n + 2
      /\ \A i \in 1 .. n : lines[i] = own[i]
      /\ lines[n + 1] = <<CR>>
  <2>1. /\ lines \in Seq(Seq(Int)) /\ Len(lines) = Len(own) + Len(Ending)
        /\ \A i \in 1 .. Len(own) : lines[i] = own[i]
        /\ \A i \in 1 .. Len(Ending) : lines[Len(own) + i] = Ending[i]
    <3>1. AreJoint(own \o Ending, own, Ending)
      BY <1>4, <1>5, JointTexts
    <3>2. QED
      BY <3>1 DEF AreJoint
  <2>2. 1 \in 1 .. Len(Ending)
    BY <1>5
  <2>3. QED
    BY <1>4, <1>5, <2>1, <2>2
<1>7. HeaderEnd(lines) = IF I # {} THEN Min(I) ELSE 0
  BY Zenon DEF HeaderEnd, SelectInSeq
<1> HIDE DEF lines
<1>8. Without(n + 1) /\ \A i \in 1 .. n : ~Without(i)
  <2>1. <<CR>> \in Seq(Int) /\ \A j \in 1 .. Len(<<CR>>) : <<CR>>[j] \notin {COLON}
    BY DEF CR, COLON
  <2>2. Place(<<CR>>, 1, {COLON}) = 0
    <3> DEFINE y == <<CR>>
               chars == {COLON}
    <3>1. y \in Seq(Int) /\ \A j \in 1 .. Len(y) : y[j] \notin chars
      BY <2>1
    <3> HIDE DEF y, chars
    <3>2. Place(y, 1, chars) = 0
      BY <3>1, PlaceAt
    <3>3. QED
      BY <3>2 DEF y, chars
  <2>3. QED
    BY <1>3, <1>6, <2>2
<1> HIDE DEF Without
<1>9. n + 1 \in I /\ I \in SUBSET Nat
  BY <1>1, <1>6, <1>8
<1>10. Min(I) \in I /\ \A j \in I : Min(I) <= j
  <2> HIDE DEF I
  <2>1. I # {}
    BY <1>9
  <2>2. QED
    BY <1>9, <2>1, MinIs
<1>11. HeaderEnd(lines) = n + 1
  <2> DEFINE e == Min(I)
  <2>1. e \in I /\ e <= n + 1
    BY <1>9, <1>10
  <2>2. HeaderEnd(lines) = e
    BY <1>7, <1>9
  <2> HIDE DEF e
  <2>3. e \in 1 .. n + 1 /\ ~(e \in 1 .. n)
    BY <1>1, <1>6, <1>8, <2>1
  <2>4. QED
    BY <1>1, <2>2, <2>3
<1>12. HeaderParse(lines) = FlattenSeq([k \in 1 .. n |-> HeaderFields(lines[k])])
  <2>1. n + 1 # 0 /\ (n + 1) - 1 = n
    BY <1>1
  <2>2. (IF HeaderEnd(lines) = 0 THEN Len(lines) ELSE HeaderEnd(lines) - 1) = n
    BY <1>11, <2>1
  <2>3. QED
    BY <2>2, HeaderParseIs
<1>13. \A k \in 1 .. n : HeaderFields(lines[k]) = <<h[k]>>
  BY <1>3, <1>6
<1>14. [k \in 1 .. n |-> HeaderFields(lines[k])] = [k \in 1 .. n |-> <<h[k]>>]
  BY <1>13
<1>15. FlattenSeq([k \in 1 .. n |-> <<h[k]>>]) = h
  BY Singles DEF n
<1>16. QED
  BY <1>12, <1>14, <1>15 DEF lines, own

\* A line, then a header: what is behind the first piece is read as the header.
LEMMA FirstLine ==
    ASSUME NEW r \in TextWithout({LF}), NEW h \in Seq(HeaderField)
    PROVE  LET text == r \o Line \o HeaderText(h) \o Line
           IN /\ Pieces(text, LF)[1] = r \o <<CR>>
              /\ HeaderParse(Tail(Pieces(text, LF))) = h
<1> DEFINE y == <<CR>>
           z == <<LF>>
           t == HeaderText(h)
           first == r \o y
           rest == FieldLines(h) \o Ending
           text == r \o Line \o t \o Line
<1>1. y \in Seq(Int) /\ z \in Seq(Int) /\ Line = y \o z /\ y \in TextWithout({LF})
  <2>1. CR \in Int /\ LF \in Int /\ CR # LF
    BY DEF CR, LF
  <2>2. Line = y \o z
    BY <2>1, Pair DEF Line
  <2>3. QED
    BY <2>1, <2>2 DEF TextWithout
<1>2. r \in Seq(Int) /\ t \in Seq(Int) /\ Line \in Seq(Int)
  BY HeaderLinesAre, EndingPieces DEF TextWithout
<1> HIDE DEF y, z, t
<1>3. first \in TextWithout({LF})
  BY <1>1, WithoutConcat
<1>4. first \in Seq(Int) /\ t \o Line \in Seq(Int) /\ first \o z \in Seq(Int)
  <2>1. first \in Seq(Int) /\ t \o Line \in Seq(Int)
    BY <1>1, <1>2, Regroup
  <2>2. QED
    BY <1>1, <2>1, Regroup
<1>5. text = first \o z \o (t \o Line)
  <2>1. Regroups(r, y, z) /\ Regroups(first \o z, t, Line)
    BY <1>1, <1>2, <1>4, Regroup
  <2>2. QED
    BY <1>1, <2>1, Zenon DEF Regroups
<1>6. Pieces(t \o Line, LF) = rest
  BY HeaderLinesAre DEF t
<1> HIDE DEF first, rest
<1>7. Pieces(text, LF) = <<first>> \o rest
  <2>1. LF \in Int
    BY DEF LF
  <2>2. Pieces(first \o <<LF>> \o (t \o Line), LF) = <<first>> \o Pieces(t \o Line, LF)
    BY <1>3, <1>4, <2>1, PiecesCut
  <2>3. QED
    BY <1>5, <1>6, <2>2, Zenon DEF z
<1>8. rest \in Seq(Seq(Int))
  <2>1. FieldLines(h) \in Seq(Seq(Int)) /\ Ending \in Seq(Seq(Int))
    BY HeaderLinesAre, EndingPieces
  <2>2. QED
    BY <2>1, Joint DEF rest
<1>9. (<<first>> \o rest)[1] = first /\ Tail(<<first>> \o rest) = rest
  <2> DEFINE a == <<first>>
             s == a \o rest
  <2>1. a \in Seq(Seq(Int)) /\ Len(a) = 1 /\ a[1] = first
    BY <1>4
  <2> HIDE DEF a
  <2>2. /\ s \in Seq(Seq(Int)) /\ Len(s) = Len(a) + Len(rest)
        /\ \A i \in 1 .. Len(a) : s[i] = a[i]
        /\ From(s, Len(a) + 1) = rest
    <3>1. AreJoint(a \o rest, a, rest)
      BY <1>8, <2>1, JointTexts
    <3>2. QED
      BY <3>1 DEF AreJoint
  <2>3. Len(rest) \in Nat
    BY <1>8, LenProperties
  <2> HIDE DEF s
  <2>4. s[1] = first /\ From(s, 2) = rest /\ Len(s) # 0
    BY <2>1, <2>2, <2>3
  <2>5. Tail(s) = From(s, 2)
    BY <2>2, <2>4, HeadTailProperties, SubSeqFull, EmptySeq DEF From
  <2>6. QED
    BY <2>4, <2>5 DEF s, a
<1>10. HeaderParse(rest) = h
  BY HeaderReads DEF rest
<1>11. QED
  BY <1>7, <1>9, <1>10, Zenon DEF first, y, t

\* Two sequences of texts, put together and joined.
LEMMA FlattenConcat ==
    ASSUME NEW s \in Seq(Seq(Int)), NEW t \in Seq(Seq(Int))
    PROVE  FlattenSeq(s \o t) = FlattenSeq(s) \o FlattenSeq(t)
<1> DEFINE n == Len(s)
           u == s \o t
           T == FlattenSeq(t)
           own(k) == FlattenSeq(From(s, k))
           all(k) == FlattenSeq(From(u, k))
           S == {k \in 1 .. n + 1 : all(k) = own(k) \o T}
<1>1. n \in Nat
  BY LenProperties
<1>2. /\ u \in Seq(Seq(Int)) /\ Len(u) = n + Len(t) /\ Len(t) \in Nat
      /\ \A i \in 1 .. n : u[i] = s[i]
      /\ From(u, n + 1) = t
  BY Joint, LenProperties
<1>3. /\ own(1) = FlattenSeq(s) /\ own(n + 1) = <<>>
      /\ \A k \in 1 .. n + 1 : own(k) \in Seq(Int)
      /\ \A k \in 1 .. n : own(k) = s[k] \o own(k + 1)
  BY FlattenFrom
<1>4. all(1) = FlattenSeq(u) /\ \A k \in 1 .. Len(u) : all(k) = u[k] \o all(k + 1)
  <2> HIDE DEF u
  <2>1. QED
    BY <1>2, FlattenFrom
<1>5. T \in Seq(Int) /\ all(n + 1) = T
  BY <1>2, FlattenFirst, Zenon
<1>6. \A k \in 1 .. n : s[k] \in Seq(Int)
  BY ElementOfSeq
<1> HIDE DEF n, u, T, own, all
<1>7. n + 1 \in S
  <2>1. n + 1 \in 1 .. n + 1 /\ <<>> \o T = T
    BY <1>1, <1>5, ConcatSimplifications
  <2>2. QED
    BY <1>3, <1>5, <2>1
<1>8. ASSUME NEW k \in 1 .. n, k + 1 \in S PROVE k \in S
  <2>1. PICK j \in 1 .. n + 1 : j = k + 1
    BY <1>1
  <2>2. k \in 1 .. n + 1 /\ k \in 1 .. Len(u)
    BY <1>1, <1>2
  <2>3. all(k) = s[k] \o (own(j) \o T)
    BY <1>2, <1>4, <1>8, <2>1, <2>2
  <2>4. Regroups(s[k], own(j), T)
    BY <1>3, <1>5, <1>6, <2>1, Regroup
  <2>5. own(k) = s[k] \o own(j)
    BY <1>3, <2>1
  <2>6. all(k) = own(k) \o T
    BY <2>3, <2>4, <2>5, Zenon DEF Regroups
  <2>7. QED
    BY <2>2, <2>6
<1> HIDE DEF S
<1>9. \A k \in 1 .. n + 1 : k \in S
  BY <1>1, <1>7, <1>8, Down
<1>10. 1 \in S
  BY <1>1, <1>9
<1>11. QED
  BY <1>3, <1>4, <1>10 DEF S, T, u

\* Headers that are written one behind the other.
LEMMA HeaderTextConcat ==
    ASSUME NEW a \in Seq(HeaderField), NEW b \in Seq(HeaderField)
    PROVE  a \o b \in Seq(HeaderField) /\ HeaderText(a \o b) = HeaderText(a) \o HeaderText(b)
<1> DEFINE h == a \o b
           n == Len(a)
           m == Len(b)
           part(f) == f.name \o <<COLON, SP>> \o f.value \o Line
           pa == HeaderParts(a)
           pb == HeaderParts(b)
           ph == HeaderParts(h)
<1>1. /\ h \in Seq(HeaderField) /\ Len(h) = n + m /\ n \in Nat /\ m \in Nat
      /\ \A i \in 1 .. n : h[i] = a[i]
      /\ \A i \in 1 .. m : h[n + i] = b[i]
  BY Joint, LenProperties
<1>2. \A i \in 1 .. n : a[i] \in HeaderField
  BY ElementOfSeq
<1>3. \A i \in 1 .. m : b[i] \in HeaderField
  BY ElementOfSeq
<1>4. \A f \in HeaderField : part(f) \in Seq(Int)
  <2>1. ASSUME NEW f \in HeaderField PROVE part(f) \in Seq(Int)
    <3>1. part(f) = FieldLine(f) \o <<LF>> /\ FieldLine(f) \in Seq(Int) /\ <<LF>> \in Seq(Int)
      <4>1. FieldLine(f) \in TextWithout({LF}) /\ part(f) = FieldLine(f) \o <<LF>>
        BY FieldLineIs
      <4>2. FieldLine(f) \in Seq(Int)
        BY <4>1 DEF TextWithout
      <4>3. <<LF>> \in Seq(Int)
        BY DEF LF
      <4>4. QED
        BY <4>1, <4>2, <4>3, Zenon
    <3> HIDE DEF part
    <3>2. QED
      BY <3>1, ConcatProperties
  <2>2. QED
    BY <2>1
<1>5. /\ pa = [i \in 1 .. n |-> part(a[i])] /\ pb = [i \in 1 .. m |-> part(b[i])]
      /\ ph = [i \in 1 .. Len(h) |-> part(h[i])]
  BY Zenon DEF HeaderParts
<1> HIDE DEF part, pa, pb, ph, h, n, m
<1>6. pa \in Seq(Seq(Int)) /\ Len(pa) = n /\ \A i \in 1 .. n : pa[i] = part(a[i])
  <2>1. pa \in [1 .. n -> Seq(Int)]
    BY <1>2, <1>4, <1>5
  <2>2. n \in Nat
    BY <1>1
  <2>3. pa \in Seq(Seq(Int)) /\ Len(pa) = n
    BY <2>1, <2>2
  <2>4. \A i \in 1 .. n : pa[i] = part(a[i])
    BY <1>5
  <2>5. QED
    BY <2>3, <2>4
<1>7. pb \in Seq(Seq(Int)) /\ Len(pb) = m /\ \A i \in 1 .. m : pb[i] = part(b[i])
  <2>1. pb \in [1 .. m -> Seq(Int)]
    BY <1>3, <1>4, <1>5
  <2>2. m \in Nat
    BY <1>1
  <2>3. pb \in Seq(Seq(Int)) /\ Len(pb) = m
    BY <2>1, <2>2
  <2>4. \A i \in 1 .. m : pb[i] = part(b[i])
    BY <1>5
  <2>5. QED
    BY <2>3, <2>4
<1>8. /\ ph \in Seq(Seq(Int)) /\ Len(ph) = n + m
      /\ \A i \in 1 .. n + m : ph[i] = part(h[i])
  <2>1. \A i \in 1 .. n + m : h[i] \in HeaderField
    BY <1>1, ElementOfSeq
  <2>2. ph \in [1 .. n + m -> Seq(Int)]
    BY <1>1, <1>4, <1>5, <2>1
  <2>3. n + m \in Nat
    BY <1>1
  <2>4. QED
    BY <1>1, <1>5, <2>2, <2>3
<1>9. ph = pa \o pb
  <2> DEFINE s == pa \o pb
  <2>1. /\ s \in Seq(Seq(Int)) /\ Len(s) = n + m
        /\ \A i \in 1 .. n : s[i] = pa[i]
        /\ \A i \in 1 .. m : s[n + i] = pb[i]
    <3>1. AreJoint(pa \o pb, pa, pb)
      BY <1>6, <1>7, JointTexts
    <3>2. QED
      BY <1>6, <1>7, <3>1 DEF AreJoint
  <2> HIDE DEF s
  <2>2. ASSUME NEW i \in 1 .. n + m PROVE ph[i] = s[i]
    <3>1. CASE i <= n
      <4>1. i \in 1 .. n
        BY <1>1, <3>1
      <4>2. QED
        BY <1>1, <1>6, <1>8, <2>1, <4>1
    <3>2. CASE i > n
      <4>1. PICK j \in 1 .. m : i = n + j
        <5>1. i - n \in 1 .. m /\ i = n + (i - n)
          BY <1>1, <3>2
        <5>2. QED
          BY <5>1
      <4>2. s[i] = part(b[j]) /\ h[i] = b[j]
        BY <1>1, <1>7, <2>1, <4>1
      <4>3. QED
        BY <1>8, <4>2
    <3>3. QED
      BY <1>1, <3>1, <3>2
  <2>3. ph = s
    BY <1>8, <2>1, <2>2, SeqEqual
  <2>4. QED
    BY <2>3 DEF s
<1>10. HeaderText(h) = FlattenSeq(ph) /\ HeaderText(a) = FlattenSeq(pa) /\ HeaderText(b) = FlattenSeq(pb)
  BY HeaderTextIs DEF ph, pa, pb
<1>11. FlattenSeq(ph) = FlattenSeq(pa) \o FlattenSeq(pb)
  BY <1>6, <1>7, <1>9, FlattenConcat
<1>12. QED
  BY <1>1, <1>10, <1>11 DEF h

-----------------------------------------------------------------------------
(* The first line of a message                                             *)

IsBetween(s, a, c, t) ==
    /\ s \in Seq(Int) /\ Len(s) = Len(a) + 1 + Len(t)
    /\ SubSeq(s, 1, Len(a)) = a /\ From(s, Len(a) + 2) = t
    /\ s = a \o (<<c>> \o t)

\* Two texts with a character between them.
LEMMA BetweenTexts == \A a, t \in Seq(Int) : \A c \in Int : IsBetween(a \o <<c>> \o t, a, c, t)
<1>1. ASSUME NEW a \in Seq(Int), NEW t \in Seq(Int), NEW c \in Int
      PROVE  IsBetween(a \o <<c>> \o t, a, c, t)
  <2>1. a \o <<c>> \o t \in Seq(Int) /\ Len(a \o <<c>> \o t) = Len(a) + 1 + Len(t)
    BY Between
  <2>2. SubSeq(a \o <<c>> \o t, 1, Len(a)) = a /\ From(a \o <<c>> \o t, Len(a) + 2) = t
    BY Between
  <2>3. a \o <<c>> \o t = a \o (<<c>> \o t)
    BY Between
  <2>4. QED
    BY <2>1, <2>2, <2>3, Zenon DEF IsBetween
<1>2. QED
  BY <1>1, Zenon
\* From a place on, a text has a part, then at e a character, then the rest.
PartIs(s, d, a, c, t, e) ==
    /\ e \in 1 .. Len(s) /\ Place(s, d + 1, {c}) = e /\ e > d
    /\ SubSeq(s, d + 1, e - 1) = a
    /\ From(s, e + 1) = t
    /\ Len(s) = e + Len(t)

\* Where a part of a line ends, and what is behind it.
LEMMA Part ==
    ASSUME NEW s \in Seq(Int), NEW d \in 0 .. Len(s), NEW c \in Int, NEW a \in TextWithout({c}),
           NEW t \in Seq(Int), From(s, d + 1) = a \o <<c>> \o t
    PROVE  \E e \in 1 .. Len(s) : PartIs(s, d, a, c, t, e)
<1> DEFINE u == From(s, d + 1)
           n == Len(a)
           m == Len(t)
           p == Len(s)
           chars == {c}
<1>0. a \in Seq(Int) /\ \A i \in 1 .. Len(a) : a[i] # c
  BY DEF TextWithout
<1>1. n \in Nat /\ m \in Nat /\ p \in Nat /\ d \in 0 .. p
  BY <1>0, LenProperties
<1>2. /\ u \in Seq(Int) /\ Len(u) = n + 1 + m
      /\ SubSeq(u, 1, n) = a /\ From(u, n + 2) = t
  <2> DEFINE w == a \o <<c>> \o t
  <2>1. IsBetween(w, a, c, t)
    BY <1>0, BetweenTexts
  <2>2. u = w
    OBVIOUS
  <2> HIDE DEF w, u
  <2>3. QED
    BY <2>1, <2>2 DEF IsBetween
<1>3. Len(u) = p - d
  <2>1. d + 1 \in 1 .. Len(s) + 1
    BY <1>1
  <2>2. Len(u) = Len(s) + 1 - (d + 1)
    BY <2>1, FromParts
  <2>3. QED
    BY <1>1, <2>2
<1>4. Place(u, 1, chars) = n + 1
  <2>1. c \in chars /\ \A i \in 1 .. Len(a) : a[i] \notin chars
    BY <1>0
  <2> HIDE DEF chars
  <2>2. Place(a \o <<c>> \o t, 1, chars) = Len(a) + 1
    BY <1>0, <2>1, PlaceBetween
  <2>3. QED
    BY <2>2, Zenon
<1> HIDE DEF u, chars
<1>5. \A i \in 1 .. Len(s) - d + 1 :
        Place(s, d + i, chars) = IF Place(u, i, chars) = 0 THEN 0 ELSE d + Place(u, i, chars)
  BY PlaceBehind DEF u
<1>6. \A i \in Nat \ {0} : \A j \in Nat : j <= Len(s) - d =>
        /\ SubSeq(s, d + i, d + j) = SubSeq(u, i, j)
        /\ i <= Len(s) - d + 1 => From(s, d + i) = From(u, i)
  BY BetweenBehind DEF u
<1> HIDE DEF n, m, p
<1>7. p = d + n + 1 + m /\ d + n + 1 \in 0 .. p
  BY <1>1, <1>2, <1>3
<1>8. PICK i \in Nat \ {0} : i = 1
  OBVIOUS
<1>9. i \in 1 .. p - d + 1 /\ n <= p - d
  BY <1>1, <1>7, <1>8
<1>10. Place(s, d + 1, chars) = d + n + 1
  <2>1. Place(s, d + i, chars) = IF Place(u, i, chars) = 0 THEN 0 ELSE d + Place(u, i, chars)
    BY <1>5, <1>9 DEF p
  <2>2. n + 1 # 0 /\ d + (n + 1) = d + n + 1
    BY <1>1
  <2>3. QED
    BY <1>4, <1>8, <2>1, <2>2
<1>11. SubSeq(s, d + 1, d + n) = a
  <2>1. SubSeq(s, d + i, d + n) = SubSeq(u, i, n)
    BY <1>1, <1>6, <1>9 DEF p
  <2>2. QED
    BY <1>2, <1>8, <2>1
<1>12. From(s, d + n + 2) = t
  <2>1. PICK k \in Nat \ {0} : k = n + 2
    BY <1>1
  <2>2. k <= p - d + 1 /\ d + k = d + n + 2
    BY <1>1, <1>7, <2>1
  <2>3. From(s, d + k) = From(u, k)
    BY <1>1, <1>6, <1>9, <2>2 DEF p
  <2>4. QED
    BY <1>2, <2>1, <2>2, <2>3
<1>13. PICK e \in 1 .. p : e = d + n + 1
  BY <1>1, <1>7
<1>14. e > d /\ e - 1 = d + n /\ e + 1 = d + n + 2 /\ p = e + m
  BY <1>1, <1>7, <1>13
<1>15. PartIs(s, d, a, c, t, e)
  BY <1>10, <1>11, <1>12, <1>13, <1>14 DEF PartIs, p, m, chars
<1>16. QED
  BY <1>13, <1>15 DEF p

\* The texts that the first lines have in common.
LEMMA Words ==
    /\ \A c \in {LF, SP, SLASH, CR, COLON} : HTTP \in TextWithout({c}) /\ Version \in TextWithout({c})
    /\ HTTP \in Seq(Int) /\ Version \in Seq(Int) /\ <<SP>> \in Seq(Int) /\ <<SLASH>> \in Seq(Int)
    /\ <<CR>> \in Seq(Int) /\ LF \in Int /\ SP \in Int /\ SLASH \in Int /\ CR \in Int
    /\ SLASH \notin {LF, SP, QUESTION} /\ SP # LF /\ Len(HTTP) = 4 /\ Len(Version) = 3
    /\ HTTP \in TextWithout({LF, SP}) /\ Version \in TextWithout({LF, SP})
<1>1. HTTP \in Seq(Int) /\ Len(HTTP) = 4 /\ \A i \in 1 .. 4 : HTTP[i] \in 65 .. 90
  BY DEF HTTP
<1>2. Version \in Seq(Int) /\ Len(Version) = 3 /\ \A i \in 1 .. 3 : Version[i] \in {46, 49}
  BY DEF Version
<1>3. /\ LF \notin 65 .. 90 /\ SP \notin 65 .. 90 /\ SLASH \notin 65 .. 90 /\ CR \notin 65 .. 90 /\ COLON \notin 65 .. 90
      /\ LF \notin {46, 49} /\ SP \notin {46, 49} /\ SLASH \notin {46, 49} /\ CR \notin {46, 49} /\ COLON \notin {46, 49}
      /\ LF \in Int /\ SP \in Int /\ SLASH \in Int /\ CR \in Int
      /\ SLASH \notin {LF, SP, QUESTION} /\ SP # LF
  BY DEF LF, SP, SLASH, CR, QUESTION, COLON
<1>4. ASSUME NEW C, \A c \in C : c \notin 65 .. 90 /\ c \notin {46, 49}
      PROVE  HTTP \in TextWithout(C) /\ Version \in TextWithout(C)
  BY <1>1, <1>2, <1>4, ZenonT(40) DEF TextWithout
<1>5. \A c \in {LF, SP, SLASH, CR, COLON} : HTTP \in TextWithout({c}) /\ Version \in TextWithout({c})
  <2>1. ASSUME NEW c \in {LF, SP, SLASH, CR, COLON}
        PROVE  HTTP \in TextWithout({c}) /\ Version \in TextWithout({c})
    <3> DEFINE C == {c}
    <3>1. \A b \in C : b \notin 65 .. 90 /\ b \notin {46, 49}
      BY <1>3
    <3> HIDE DEF C
    <3>2. HTTP \in TextWithout(C) /\ Version \in TextWithout(C)
      BY <1>4, <3>1
    <3>3. QED
      BY <3>2 DEF C
  <2>2. QED
    BY <2>1
<1>6. HTTP \in TextWithout({LF, SP}) /\ Version \in TextWithout({LF, SP})
  <2> DEFINE C == {LF, SP}
  <2>1. \A c \in C : c \notin 65 .. 90 /\ c \notin {46, 49}
    BY <1>3
  <2> HIDE DEF C
  <2>2. HTTP \in TextWithout(C) /\ Version \in TextWithout(C)
    BY <1>4, <2>1
  <2>3. QED
    BY <2>2 DEF C
<1>7. <<SP>> \in Seq(Int) /\ <<SLASH>> \in Seq(Int) /\ <<CR>> \in Seq(Int)
  BY <1>3
<1>8. QED
  BY <1>1, <1>2, <1>3, <1>5, <1>6, <1>7

RequestLine(method, target) == method \o <<SP>> \o target \o <<SP>> \o HTTP \o <<SLASH>> \o Version

\* A request line and its parts.
LEMMA RequestLineIs ==
    ASSUME NEW method \in TextWithout({LF, SP}), NEW target \in TextWithout({LF, SP})
    PROVE  /\ RequestLine(method, target) \in TextWithout({LF})
           /\ RequestLine(method, target) \o <<CR>> \in Seq(Int)
           /\ RequestLine(method, target) \o <<CR>>
                = method \o <<SP>> \o (target \o <<SP>> \o (HTTP \o <<SLASH>> \o (Version \o <<CR>> \o <<>>)))
<1> DEFINE x == <<SP>>
           y == <<SLASH>>
           z == <<CR>>
           m1 == method \o x
           m2 == m1 \o target
           m3 == m2 \o x
           m4 == m3 \o HTTP
           m5 == m4 \o y
           m6 == m5 \o Version
           u3 == Version \o z
           u2 == HTTP \o y \o u3
           u1 == target \o x \o u2
<1>1. x \in Seq(Int) /\ y \in Seq(Int) /\ z \in Seq(Int) /\ HTTP \in Seq(Int) /\ Version \in Seq(Int)
      /\ method \in Seq(Int) /\ target \in Seq(Int)
  BY Words DEF TextWithout
<1>2. x \in TextWithout({LF}) /\ y \in TextWithout({LF}) /\ method \in TextWithout({LF}) /\ target \in TextWithout({LF})
      /\ HTTP \in TextWithout({LF}) /\ Version \in TextWithout({LF})
  <2>1. SP \in Int \ {LF} /\ SLASH \in Int \ {LF}
    BY Words
  <2>2. x \in TextWithout({LF}) /\ y \in TextWithout({LF})
    BY <2>1, WithoutOne
  <2>3. QED
    BY <2>2, WithoutFewer, Words
<1> HIDE DEF x, y, z
<1>3. m6 \in TextWithout({LF})
  <2>1. m1 \in TextWithout({LF})
    BY <1>2, WithoutConcat
  <2> HIDE DEF m1
  <2>2. m2 \in TextWithout({LF})
    BY <1>2, <2>1, WithoutConcat
  <2> HIDE DEF m2
  <2>3. m3 \in TextWithout({LF})
    BY <1>2, <2>2, WithoutConcat
  <2> HIDE DEF m3
  <2>4. m4 \in TextWithout({LF})
    BY <1>2, <2>3, WithoutConcat
  <2> HIDE DEF m4
  <2>5. m5 \in TextWithout({LF})
    BY <1>2, <2>4, WithoutConcat
  <2> HIDE DEF m5
  <2>6. QED
    BY <1>2, <2>5, WithoutConcat
<1>4. m1 \in Seq(Int) /\ u3 \in Seq(Int)
  BY <1>1, Regroup
<1>5. u2 \in Seq(Int)
  <2> HIDE DEF u3
  <2>1. QED
    BY <1>1, <1>4, Joined
<1>6. m3 \in Seq(Int) /\ AreJoined(m1, target, x, u2)
  <2> HIDE DEF m1, u2
  <2>1. QED
    BY <1>1, <1>4, <1>5, Joined
<1>7. m5 \in Seq(Int) /\ AreJoined(m3, HTTP, y, u3)
  <2> HIDE DEF m3, u3
  <2>1. QED
    BY <1>1, <1>4, <1>6, Joined
<1>8. Regroups(m5, Version, z) /\ m6 \in Seq(Int)
  <2> HIDE DEF m5
  <2>1. QED
    BY <1>1, <1>7, Regroup
<1>9. m6 \o z \in Seq(Int)
  <2> HIDE DEF m6
  <2>1. QED
    BY <1>1, <1>8, Regroup
<1>10. m6 \o z = m1 \o u1
  <2>1. m6 \o z = m5 \o u3
    BY <1>8, Zenon DEF Regroups
  <2>2. m5 \o u3 = m3 \o u2
    BY <1>7, Zenon DEF AreJoined
  <2>3. m3 \o u2 = m1 \o u1
    BY <1>6, Zenon DEF AreJoined
  <2>4. QED
    BY <2>1, <2>2, <2>3, Zenon
<1>11. u3 \o <<>> = u3
  <2> HIDE DEF u3
  <2>1. QED
    BY <1>4, ConcatSimplifications
<1>12. RequestLine(method, target) = m6
  BY Zenon DEF RequestLine, x, y
<1>13. QED
  BY <1>3, <1>9, <1>10, <1>11, <1>12, Zenon DEF x, y, z

\* What RequestParse makes of the first line, in which it has found the places of
\* two blanks and a slash, and of the header.
RequestOf(line, blank, end, slash, target, header) ==
    IF blank = 0 \/ end = 0 \/ slash = 0 \/ SubSeq(line, end + 1, slash - 1) # HTTP
    THEN NotParsed
    ELSE [ok |-> TRUE,
          method |-> SubSeq(line, 1, blank - 1),
          path |-> IF LastPlace(target, QUESTION) = 0 THEN target
                   ELSE SubSeq(target, 1, LastPlace(target, QUESTION) - 1),
          query |-> IF LastPlace(target, QUESTION) = 0 THEN <<>>
                    ELSE From(target, LastPlace(target, QUESTION) + 1),
          version |-> SubSeq(line, slash + 1, Len(line) - 1),
          header |-> header]

RequestIn(line, blank, end, header) ==
    RequestOf(line, blank, end, Place(line, end + 1, {SLASH}), SubSeq(line, blank + 1, end - 1), header)

RequestAt(line, header) ==
    RequestIn(line, Place(line, 1, {SP}), Place(line, Place(line, 1, {SP}) + 1, {SP}), header)

\* RequestParse, by the places in the first line.
LEMMA RequestParseIs ==
    ASSUME NEW text
    PROVE  RequestParse(text) = RequestAt(Pieces(text, LF)[1], HeaderParse(Tail(Pieces(text, LF))))
  BY Zenon DEF RequestParse, RequestAt, RequestIn, RequestOf

\* A request that is written is read as what was written.
LEMMA RequestReads ==
    ASSUME NEW method \in TextWithout({LF, SP}), NEW target \in TextWithout({LF, SP}),
           NEW h \in Seq(HeaderField)
    PROVE  RequestParse(RequestLine(method, target) \o Line \o HeaderText(h) \o Line)
             = [ok |-> TRUE,
                method |-> method,
                path |-> IF LastPlace(target, QUESTION) = 0 THEN target
                         ELSE SubSeq(target, 1, LastPlace(target, QUESTION) - 1),
                query |-> IF LastPlace(target, QUESTION) = 0 THEN <<>>
                          ELSE From(target, LastPlace(target, QUESTION) + 1),
                version |-> Version,
                header |-> h]
<1> DEFINE line == RequestLine(method, target) \o <<CR>>
           text == RequestLine(method, target) \o Line \o HeaderText(h) \o Line
           u3 == Version \o <<CR>> \o <<>>
           u2 == HTTP \o <<SLASH>> \o u3
           u1 == target \o <<SP>> \o u2
<1>1. /\ RequestLine(method, target) \in TextWithout({LF})
      /\ line \in Seq(Int) /\ line = method \o <<SP>> \o u1
  BY RequestLineIs
<1>2. Pieces(text, LF)[1] = line /\ HeaderParse(Tail(Pieces(text, LF))) = h
  BY <1>1, FirstLine
<1>3. RequestParse(text) = RequestAt(line, h)
  BY <1>2, RequestParseIs, Zenon
<1>4. /\ SP \in Int /\ SLASH \in Int /\ CR \in Int
      /\ method \in TextWithout({SP}) /\ target \in TextWithout({SP})
      /\ HTTP \in TextWithout({SLASH}) /\ Version \in TextWithout({CR})
  <2>1. method \in TextWithout({SP}) /\ target \in TextWithout({SP})
    BY WithoutFewer
  <2>2. QED
    BY <2>1, Words
<1>5. u3 \in Seq(Int)
  <2>1. Version \in Seq(Int) /\ <<>> \in Seq(Int)
    BY Words
  <2>2. IsBetween(u3, Version, CR, <<>>)
    BY <1>4, <2>1, BetweenTexts
  <2>3. QED
    BY <2>2 DEF IsBetween
<1>6. u2 \in Seq(Int)
  <2> HIDE DEF u3
  <2>1. IsBetween(u2, HTTP, SLASH, u3)
    BY <1>4, <1>5, BetweenTexts, Words
  <2>2. QED
    BY <2>1 DEF IsBetween
<1>7. u1 \in Seq(Int)
  <2> HIDE DEF u2
  <2>1. IsBetween(u1, target, SP, u2)
    BY <1>4, <1>6, BetweenTexts DEF TextWithout
  <2>2. QED
    BY <2>1 DEF IsBetween
<1> HIDE DEF line, u1
<1>8. Len(line) \in Nat /\ From(line, 0 + 1) = line
  <2>1. Len(line) \in Nat /\ From(line, 1) = line
    BY <1>1, FromParts
  <2>2. 0 + 1 = 1
    OBVIOUS
  <2>3. QED
    BY <2>1, <2>2, Zenon
<1>9. PICK blank \in 1 .. Len(line) : PartIs(line, 0, method, SP, u1, blank)
  <2>1. 0 \in 0 .. Len(line) /\ From(line, 0 + 1) = method \o <<SP>> \o u1
    <3>1. 0 \in 0 .. Len(line)
      BY <1>8
    <3>2. From(line, 0 + 1) = method \o <<SP>> \o u1
      BY <1>1, <1>8, Zenon
    <3>3. QED
      BY <3>1, <3>2
  <2>2. QED
    BY <1>1, <1>4, <1>7, <2>1, Part
<1> USE DEF u1
<1> HIDE DEF u2
<1>10. PICK end \in 1 .. Len(line) : PartIs(line, blank, target, SP, u2, end)
  <2>1. blank \in 0 .. Len(line) /\ From(line, blank + 1) = target \o <<SP>> \o u2
    BY <1>9, SMTT(30) DEF PartIs
  <2>2. QED
    BY <1>1, <1>4, <1>6, <2>1, Part
<1> USE DEF u2
<1> HIDE DEF u1, u3
<1>11. PICK slash \in 1 .. Len(line) : PartIs(line, end, HTTP, SLASH, u3, slash)
  <2>1. end \in 0 .. Len(line) /\ From(line, end + 1) = HTTP \o <<SLASH>> \o u3
    BY <1>10, SMTT(30) DEF PartIs
  <2>2. QED
    BY <1>1, <1>4, <1>5, <2>1, Part
<1> USE DEF u3
<1> HIDE DEF u2
<1>12. PICK last \in 1 .. Len(line) : PartIs(line, slash, Version, CR, <<>>, last)
  <2>1. slash \in 0 .. Len(line) /\ From(line, slash + 1) = Version \o <<CR>> \o <<>> /\ <<>> \in Seq(Int)
    BY <1>11 DEF PartIs
  <2>2. QED
    BY <1>1, <1>4, <2>1, Part
<1> HIDE DEF u3
<1>13. /\ Place(line, 1, {SP}) = blank /\ SubSeq(line, 1, blank - 1) = method /\ blank # 0
  BY <1>9 DEF PartIs
<1>14. Place(line, blank + 1, {SP}) = end /\ SubSeq(line, blank + 1, end - 1) = target /\ end # 0
  BY <1>10 DEF PartIs
<1>15. Place(line, end + 1, {SLASH}) = slash /\ SubSeq(line, end + 1, slash - 1) = HTTP /\ slash # 0
  BY <1>11 DEF PartIs
<1>16. SubSeq(line, slash + 1, Len(line) - 1) = Version
  <2>1. Len(line) = last + Len(<<>>) /\ Len(<<>>) = 0 /\ SubSeq(line, slash + 1, last - 1) = Version
    BY <1>12 DEF PartIs
  <2>2. QED
    BY <2>1
<1>17. RequestAt(line, h) = RequestIn(line, blank, end, h)
  BY <1>13, <1>14, Zenon DEF RequestAt
<1>18. RequestIn(line, blank, end, h) = RequestOf(line, blank, end, slash, target, h)
  BY <1>14, <1>15, Zenon DEF RequestIn
<1>19. RequestOf(line, blank, end, slash, target, h)
         = [ok |-> TRUE,
            method |-> method,
            path |-> IF LastPlace(target, QUESTION) = 0 THEN target
                     ELSE SubSeq(target, 1, LastPlace(target, QUESTION) - 1),
            query |-> IF LastPlace(target, QUESTION) = 0 THEN <<>>
                      ELSE From(target, LastPlace(target, QUESTION) + 1),
            version |-> Version,
            header |-> h]
  BY <1>13, <1>14, <1>15, <1>16, Zenon DEF RequestOf
<1>20. QED
  BY <1>3, <1>17, <1>18, <1>19, Zenon

StatusLine(status) == HTTP \o <<SLASH>> \o Version \o <<SP>> \o status

\* The first line of a response, and where its parts are.
LEMMA StatusLineIs ==
    ASSUME NEW status \in TextWithout({LF})
    PROVE  /\ StatusLine(status) \in TextWithout({LF})
           /\ StatusLine(status) \o <<CR>> \in Seq(Int)
           /\ HTTP \o <<SLASH>> \o Version \in TextWithout({SP})
           /\ StatusLine(status) \o <<CR>>
                = HTTP \o <<SLASH>> \o Version \o <<SP>> \o (status \o <<CR>> \o <<>>)
           /\ StatusLine(status) \o <<CR>>
                = HTTP \o <<SLASH>> \o (Version \o <<SP>> \o (status \o <<CR>> \o <<>>))
<1> DEFINE x == <<SP>>
           y == <<SLASH>>
           z == <<CR>>
           m1 == HTTP \o y
           m2 == m1 \o Version
           m3 == m2 \o x
           m4 == m3 \o status
           u == status \o z
<1>1. x \in Seq(Int) /\ y \in Seq(Int) /\ z \in Seq(Int) /\ HTTP \in Seq(Int) /\ Version \in Seq(Int)
      /\ status \in Seq(Int)
  BY Words DEF TextWithout
<1>2. /\ x \in TextWithout({LF}) /\ y \in TextWithout({LF}) /\ y \in TextWithout({SP})
      /\ HTTP \in TextWithout({LF}) /\ Version \in TextWithout({LF})
      /\ HTTP \in TextWithout({SP}) /\ Version \in TextWithout({SP})
  <2>1. SP \in Int \ {LF} /\ SLASH \in Int \ {LF} /\ SLASH \in Int \ {SP}
    BY Words
  <2>2. x \in TextWithout({LF}) /\ y \in TextWithout({LF}) /\ y \in TextWithout({SP})
    BY <2>1, WithoutOne
  <2>3. QED
    BY <2>2, Words
<1> HIDE DEF x, y, z
<1>3. m2 \in TextWithout({SP})
  <2>1. m1 \in TextWithout({SP})
    BY <1>2, WithoutConcat
  <2> HIDE DEF m1
  <2>2. QED
    BY <1>2, <2>1, WithoutConcat
<1>4. m4 \in TextWithout({LF})
  <2>1. m1 \in TextWithout({LF})
    BY <1>2, WithoutConcat
  <2> HIDE DEF m1
  <2>2. m2 \in TextWithout({LF})
    BY <1>2, <2>1, WithoutConcat
  <2> HIDE DEF m2
  <2>3. m3 \in TextWithout({LF})
    BY <1>2, <2>2, WithoutConcat
  <2> HIDE DEF m3
  <2>4. QED
    BY <2>3, WithoutConcat
<1>5. m1 \in Seq(Int) /\ u \in Seq(Int)
  BY <1>1, Regroup
<1>6. m3 \in Seq(Int) /\ AreJoined(m1, Version, x, u)
  <2> HIDE DEF m1, u
  <2>1. QED
    BY <1>1, <1>5, Joined
<1>7. Regroups(m3, status, z) /\ m4 \in Seq(Int)
  <2> HIDE DEF m3
  <2>1. QED
    BY <1>1, <1>6, Regroup
<1>8. m4 \o z \in Seq(Int)
  <2> HIDE DEF m4
  <2>1. QED
    BY <1>1, <1>7, Regroup
<1>9. m4 \o z = m3 \o u /\ m3 \o u = m1 \o (Version \o x \o u)
  BY <1>6, <1>7, Zenon DEF Regroups, AreJoined
<1>10. u \o <<>> = u
  <2> HIDE DEF u
  <2>1. QED
    BY <1>5, ConcatSimplifications
<1>11. StatusLine(status) = m4
  BY Zenon DEF StatusLine, x, y
<1>12. QED
  BY <1>3, <1>4, <1>8, <1>9, <1>10, <1>11, Zenon DEF x, y, z

\* What ResponseParse makes of the first line, in which it has found a blank.
ResponseAt(line, blank, header) ==
    IF blank = 0 \/ Len(line) <= 5 \/ blank = Len(line)
    THEN NotParsed
    ELSE [ok |-> TRUE,
          version |-> SubSeq(line, 6, IF blank > 5 THEN blank - 1 ELSE Len(line)),
          status |-> SubSeq(line, blank + 1, Len(line) - 1),
          header |-> header]

\* ResponseParse, by the place in the first line.
LEMMA ResponseParseIs ==
    ASSUME NEW text
    PROVE  ResponseParse(text) =
             ResponseAt(Pieces(text, LF)[1], Place(Pieces(text, LF)[1], 1, {SP}), HeaderParse(Tail(Pieces(text, LF))))
  BY Zenon DEF ResponseParse, ResponseAt

\* A response that is written is read as what was written.
LEMMA ResponseReads ==
    ASSUME NEW status \in TextWithout({LF, CR}), NEW h \in Seq(HeaderField)
    PROVE  ResponseParse(StatusLine(status) \o Line \o HeaderText(h) \o Line)
             = [ok |-> TRUE, version |-> Version, status |-> status, header |-> h]
<1> DEFINE line == StatusLine(status) \o <<CR>>
           text == StatusLine(status) \o Line \o HeaderText(h) \o Line
           v == HTTP \o <<SLASH>> \o Version
           u == status \o <<CR>> \o <<>>
           w == Version \o <<SP>> \o u
<1>1. status \in TextWithout({LF}) /\ status \in TextWithout({CR}) /\ status \in Seq(Int)
  BY WithoutFewer DEF TextWithout
<1>2. /\ StatusLine(status) \in TextWithout({LF})
      /\ line \in Seq(Int) /\ line = v \o <<SP>> \o u /\ line = HTTP \o <<SLASH>> \o w
      /\ v \in TextWithout({SP})
  BY <1>1, StatusLineIs
<1>3. Pieces(text, LF)[1] = line /\ HeaderParse(Tail(Pieces(text, LF))) = h
  BY <1>2, FirstLine
<1>4. ResponseParse(text) = ResponseAt(line, Place(line, 1, {SP}), h)
  BY <1>3, ResponseParseIs, Zenon
<1>5. /\ SP \in Int /\ SLASH \in Int /\ CR \in Int
      /\ HTTP \in TextWithout({SLASH}) /\ Version \in TextWithout({SP}) /\ HTTP \in Seq(Int) /\ Version \in Seq(Int)
      /\ Len(HTTP) = 4 /\ <<>> \in Seq(Int) /\ Len(<<>>) = 0
  BY Words
<1>6. u \in Seq(Int) /\ Len(u) = Len(status) + 1 + 0 /\ Len(status) \in Nat
  <2>1. IsBetween(u, status, CR, <<>>)
    BY <1>1, <1>5, BetweenTexts
  <2>2. QED
    BY <1>1, <1>5, <2>1, LenProperties DEF IsBetween
<1>7. w \in Seq(Int)
  <2> HIDE DEF u
  <2>1. IsBetween(w, Version, SP, u)
    BY <1>5, <1>6, BetweenTexts
  <2>2. QED
    BY <2>1 DEF IsBetween
<1>8. Len(line) = 5 + Len(w) /\ Len(w) \in Nat
  <2> HIDE DEF w
  <2>1. IsBetween(HTTP \o <<SLASH>> \o w, HTTP, SLASH, w)
    BY <1>5, <1>7, BetweenTexts
  <2>2. Len(HTTP \o <<SLASH>> \o w) = 4 + 1 + Len(w)
    BY <1>5, <2>1 DEF IsBetween
  <2>3. Len(line) = 4 + 1 + Len(w)
    BY <1>2, <2>2, Zenon
  <2>4. Len(w) \in Nat
    BY <1>7, LenProperties
  <2>5. QED
    BY <2>3, <2>4
<1> HIDE DEF line, u, w, v
<1>9. Len(line) \in Nat /\ From(line, 0 + 1) = line
  <2>1. Len(line) \in Nat /\ From(line, 1) = line
    BY <1>2, FromParts
  <2>2. 0 + 1 = 1
    OBVIOUS
  <2>3. QED
    BY <2>1, <2>2, Zenon
<1>10. 0 \in 0 .. Len(line)
  BY <1>9
<1>11. PICK blank \in 1 .. Len(line) : PartIs(line, 0, v, SP, u, blank)
  <2>1. From(line, 0 + 1) = v \o <<SP>> \o u
    BY <1>2, <1>9, Zenon
  <2>2. QED
    BY <1>2, <1>5, <1>6, <1>10, <2>1, Part
<1>12. PICK slash \in 1 .. Len(line) : PartIs(line, 0, HTTP, SLASH, w, slash)
  <2>1. From(line, 0 + 1) = HTTP \o <<SLASH>> \o w
    BY <1>2, <1>9, Zenon
  <2>2. QED
    BY <1>2, <1>5, <1>7, <1>10, <2>1, Part
<1>13. PICK b \in 1 .. Len(line) : PartIs(line, slash, Version, SP, u, b)
  <2>1. slash \in 0 .. Len(line) /\ From(line, slash + 1) = Version \o <<SP>> \o u
    BY <1>12, SMTT(30) DEF PartIs, w
  <2>2. QED
    BY <1>2, <1>5, <1>6, <2>1, Part
<1>14. PICK last \in 1 .. Len(line) : PartIs(line, blank, status, CR, <<>>, last)
  <2>1. blank \in 0 .. Len(line) /\ From(line, blank + 1) = status \o <<CR>> \o <<>>
    BY <1>11 DEF PartIs, u
  <2>2. QED
    BY <1>1, <1>2, <1>5, <2>1, Part
<1>15. /\ Len(line) = blank + Len(u) /\ Len(line) = b + Len(u) /\ Len(line) = slash + Len(w)
       /\ Len(line) = last + 0 /\ Place(line, 1, {SP}) = blank /\ b > slash
       /\ SubSeq(line, slash + 1, b - 1) = Version
       /\ SubSeq(line, blank + 1, last - 1) = status
  <2>1. Len(line) = blank + Len(u) /\ Place(line, 1, {SP}) = blank
    BY <1>11 DEF PartIs
  <2>2. Len(line) = slash + Len(w)
    BY <1>12 DEF PartIs
  <2>3. Len(line) = b + Len(u) /\ b > slash /\ SubSeq(line, slash + 1, b - 1) = Version
    BY <1>13 DEF PartIs
  <2>4. Len(line) = last + Len(<<>>) /\ SubSeq(line, blank + 1, last - 1) = status
    BY <1>14 DEF PartIs
  <2>5. QED
    BY <1>5, <2>1, <2>2, <2>3, <2>4
<1>16. slash = 5 /\ b = blank /\ blank > 5 /\ Len(line) > 5 /\ blank # Len(line) /\ last = Len(line) /\ blank # 0
  BY <1>6, <1>8, <1>15, SMTT(30)
<1>17. SubSeq(line, 6, blank - 1) = Version /\ SubSeq(line, blank + 1, Len(line) - 1) = status
  BY <1>15, <1>16
<1>18. ResponseAt(line, blank, h)
         = [ok |-> TRUE, version |-> Version, status |-> status, header |-> h]
  <2>1. ~(blank = 0 \/ Len(line) <= 5 \/ blank = Len(line)) /\ (IF blank > 5 THEN blank - 1 ELSE Len(line)) = blank - 1
    BY <1>9, <1>16
  <2>2. QED
    BY <1>17, <2>1, Zenon DEF ResponseAt
<1>19. QED
  BY <1>4, <1>15, <1>18, Zenon

-----------------------------------------------------------------------------
(* What a header says of the end of the content                            *)

\* The values of a name in two headers, joined.
LEMMA ValuesConcat ==
    ASSUME NEW a \in Seq(HeaderField), NEW b \in Seq(HeaderField), NEW name
    PROVE  Values(a \o b, name) = Values(a, name) \cup Values(b, name)
<1> DEFINE s == a \o b
           n == Len(a)
           m == Len(b)
<1>1. /\ s \in Seq(HeaderField) /\ Len(s) = n + m /\ n \in Nat /\ m \in Nat
      /\ \A i \in 1 .. n : s[i] = a[i]
      /\ \A i \in 1 .. m : s[n + i] = b[i]
  BY Joint, LenProperties
<1>2. /\ ToSet(a) = {a[i] : i \in 1 .. n} /\ ToSet(b) = {b[i] : i \in 1 .. m}
      /\ ToSet(s) = {s[i] : i \in 1 .. Len(s)}
  <2>1. DOMAIN a = 1 .. n /\ DOMAIN b = 1 .. m
    BY LenProperties
  <2>2. DOMAIN s = 1 .. Len(s)
    <3> HIDE DEF s
    <3>1. QED
      BY <1>1, LenProperties
  <2>3. QED
    BY <2>1, <2>2, Zenon DEF ToSet
<1> HIDE DEF s, n, m
<1>3. ToSet(s) = ToSet(a) \cup ToSet(b)
  <2>1. ASSUME NEW i \in 1 .. n + m PROVE s[i] \in ToSet(a) \cup ToSet(b)
    <3>1. CASE i <= n
      <4>1. i \in 1 .. n
        BY <1>1, <3>1
      <4>2. QED
        BY <1>1, <1>2, <4>1
    <3>2. CASE i > n
      <4>1. PICK j \in 1 .. m : i = n + j
        <5>1. i - n \in 1 .. m /\ i = n + (i - n)
          BY <1>1, <3>2
        <5>2. QED
          BY <5>1
      <4>2. QED
        BY <1>1, <1>2, <4>1
    <3>3. QED
      BY <1>1, <3>1, <3>2
  <2>2. ASSUME NEW i \in 1 .. n PROVE a[i] \in ToSet(s)
    <3>1. i \in 1 .. Len(s) /\ s[i] = a[i]
      BY <1>1
    <3>2. QED
      BY <1>2, <3>1
  <2>3. ASSUME NEW i \in 1 .. m PROVE b[i] \in ToSet(s)
    <3>1. n + i \in 1 .. Len(s) /\ s[n + i] = b[i]
      BY <1>1
    <3>2. QED
      BY <1>2, <3>1
  <2>4. ToSet(s) \subseteq ToSet(a) \cup ToSet(b)
    <3>1. ToSet(s) = {s[i] : i \in 1 .. n + m}
      BY <1>1, <1>2
    <3>2. QED
      BY <2>1, <3>1
  <2>5. ToSet(a) \cup ToSet(b) \subseteq ToSet(s)
    <3>1. ToSet(a) = {a[i] : i \in 1 .. n} /\ ToSet(b) = {b[i] : i \in 1 .. m}
      BY <1>1, <1>2
    <3>2. QED
      BY <2>2, <2>3, <3>1
  <2>6. QED
    BY <2>4, <2>5
<1>4. QED
  BY <1>3 DEF Values, s

\* The values of a name in a header of one field.
LEMMA ValuesOne ==
    ASSUME NEW n, NEW v, NEW name
    PROVE  Values(<<Field(n, v)>>, name) = IF EqualNoCase(n, name) THEN {v} ELSE {}
<1> DEFINE f == Field(n, v)
<1>1. f.name = n /\ f.value = v
  BY DEF Field
<1> HIDE DEF f
<1>2. ToSet(<<f>>) = {f}
  BY DEF ToSet
<1>3. QED
  BY <1>1, <1>2 DEF Values, f

\* Names of different lengths are different.
LEMMA NamesDiffer ==
    /\ \A n : Len(n) = 4 => ~EqualNoCase(n, ContentLength) /\ ~EqualNoCase(n, TransferEncoding)
    /\ ~EqualNoCase(ContentLength, TransferEncoding)
    /\ EqualNoCase(ContentLength, ContentLength) /\ EqualNoCase(Chunked, Chunked)
    /\ Len(Host) = 4
    /\ Host \in TextWithout({LF, COLON}) /\ HTTP \in TextWithout({LF, COLON})
    /\ ContentLength \in TextWithout({LF, COLON})
<1>1. Len(Host) = 4 /\ Host \in Seq(Int) /\ \A i \in 1 .. 4 : Host[i] \in 65 .. 122
  BY DEF Host
<1>2. Len(ContentLength) = 14
  BY DEF ContentLength
<1>3. Len(TransferEncoding) = 17
  BY DEF TransferEncoding
<1>4. Len(HTTP) = 4 /\ HTTP \in Seq(Int) /\ \A i \in 1 .. 4 : HTTP[i] \in 65 .. 122
  BY DEF HTTP
<1>5. ContentLength \in Seq(Int) /\ \A i \in 1 .. 14 : ContentLength[i] \in 45 .. 57 \cup 65 .. 122
  BY DEF ContentLength
<1>6. \A c \in {LF, COLON} : c \notin 45 .. 57 \cup 65 .. 122 /\ c \notin 65 .. 122
  BY DEF LF, COLON
<1>7. Host \in TextWithout({LF, COLON}) /\ HTTP \in TextWithout({LF, COLON})
      /\ ContentLength \in TextWithout({LF, COLON})
  <2> DEFINE a == Host
             b == HTTP
             c == ContentLength
             marks == {LF, COLON}
             letters == 65 .. 122
             others == 45 .. 57 \cup 65 .. 122
  <2>1. /\ a \in Seq(Int) /\ b \in Seq(Int) /\ c \in Seq(Int)
        /\ \A m \in marks : m \notin others /\ m \notin letters
    BY <1>1, <1>4, <1>5, <1>6
  <2>2. /\ \A i \in 1 .. Len(a) : a[i] \in letters
        /\ \A i \in 1 .. Len(b) : b[i] \in letters
        /\ \A i \in 1 .. Len(c) : c[i] \in others
    BY <1>1, <1>2, <1>4, <1>5
  <2> HIDE DEF a, b, c, marks, letters, others
  <2>3. a \in TextWithout(marks)
    BY <2>1, <2>2, Zenon DEF TextWithout
  <2>4. b \in TextWithout(marks)
    BY <2>1, <2>2, Zenon DEF TextWithout
  <2>5. c \in TextWithout(marks)
    BY <2>1, <2>2, Zenon DEF TextWithout
  <2>6. QED
    BY <2>3, <2>4, <2>5, Zenon DEF a, b, c, marks
<1>8. EqualNoCase(ContentLength, ContentLength) /\ EqualNoCase(Chunked, Chunked)
  BY DEF EqualNoCase
<1>9. /\ \A n : Len(n) = 4 => ~EqualNoCase(n, ContentLength) /\ ~EqualNoCase(n, TransferEncoding)
      /\ ~EqualNoCase(ContentLength, TransferEncoding)
  BY <1>2, <1>3 DEF EqualNoCase
<1>10. QED
  BY <1>1, <1>7, <1>8, <1>9

\* A length is a field that a header may have.
LEMMA LengthFieldIs ==
    ASSUME NEW n \in 0 .. 9
    PROVE  LengthField(n) \in HeaderField /\ <<LengthField(n)>> \in Seq(HeaderField)
<1>1. Digits(n) \in TextWithout({LF})
  <2>1. 48 + n \in Int \ {LF}
    BY DEF LF
  <2>2. QED
    BY <2>1, WithoutOne DEF Digits
<1>2. LengthField(n) \in HeaderField
  BY <1>1, NamesDiffer DEF LengthField, Field, HeaderField
<1>3. QED
  BY <1>2

\* What a header says of the end of the content, as the user of a writer has to.
SaysEnds(ends, h) ==
    /\ ends \in {"open", "length", "chunked"}
    /\ ends = "length" <=> Values(h, ContentLength) # {}
    /\ ends = "chunked" => Chunked \in Values(h, TransferEncoding)
    /\ ends = "open" => \A v \in Values(h, TransferEncoding) : ~EqualNoCase(v, Chunked)

\* Another field, and a length that is added, change nothing else.
LEMMA EndsAre ==
    ASSUME NEW h \in Seq(HeaderField), NEW f \in HeaderField, Len(f.name) = 4,
           NEW ends, SaysEnds(ends, h), NEW n \in 0 .. 9
    PROVE  LET all == <<f>> \o h
               long == all \o <<LengthField(n)>>
           IN /\ all \in Seq(HeaderField) /\ all \o <<>> = all
              /\ ends # "open" <=> Values(h, ContentLength) # {} \/ Chunked \in Values(h, TransferEncoding)
              /\ ends # "open" <=> \/ Values(all, ContentLength) # {}
                                   \/ \E v \in Values(all, TransferEncoding) : EqualNoCase(v, Chunked)
              /\ ends = "chunked" => Framing(all) = "chunked"
              /\ ends = "length" => Framing(all) = "length"
              /\ Framing(long) = "length"
<1> DEFINE all == <<f>> \o h
           long == all \o <<LengthField(n)>>
           one == <<f>>
           last == <<LengthField(n)>>
<1>1. one \in Seq(HeaderField) /\ last \in Seq(HeaderField)
  BY LengthFieldIs
<1>2. \A name : Values(last, name) = IF EqualNoCase(ContentLength, name) THEN {Digits(n)} ELSE {}
  BY ValuesOne DEF LengthField
<1>3. \A name : Values(one, name) = IF EqualNoCase(f.name, name) THEN {f.value} ELSE {}
  <2>1. f = Field(f.name, f.value)
    BY DEF HeaderField, Field
  <2>2. \A name : Values(<<Field(f.name, f.value)>>, name) = IF EqualNoCase(f.name, name) THEN {f.value} ELSE {}
    BY ValuesOne
  <2>3. QED
    BY <2>1, <2>2, Zenon
<1> HIDE DEF one, last
<1>4. all = one \o h /\ long = all \o last
  BY DEF one, last
<1> HIDE DEF all, long
<1>5. all \in Seq(HeaderField) /\ \A name : Values(all, name) = Values(one, name) \cup Values(h, name)
  <2>1. one \o h \in Seq(HeaderField)
    BY <1>1, Joint
  <2>2. ASSUME NEW name PROVE Values(one \o h, name) = Values(one, name) \cup Values(h, name)
    BY <1>1, ValuesConcat
  <2>3. QED
    BY <1>4, <2>1, <2>2
<1>6. \A name : Values(long, name) = Values(all, name) \cup Values(last, name)
  <2>1. ASSUME NEW name PROVE Values(all \o last, name) = Values(all, name) \cup Values(last, name)
    BY <1>1, <1>5, ValuesConcat
  <2>2. QED
    BY <1>4, <2>1
<1>7. Values(all, ContentLength) = Values(h, ContentLength)
      /\ Values(all, TransferEncoding) = Values(h, TransferEncoding)
  BY <1>3, <1>5, NamesDiffer
<1>8. Values(long, ContentLength) # {}
  BY <1>2, <1>6, NamesDiffer
<1>9. all \o <<>> = all
  BY <1>5, ConcatSimplifications
<1>10. ends # "open" <=> Values(h, ContentLength) # {} \/ Chunked \in Values(h, TransferEncoding)
  BY NamesDiffer DEF SaysEnds
<1>11. ends # "open" <=> \/ Values(all, ContentLength) # {}
                         \/ \E v \in Values(all, TransferEncoding) : EqualNoCase(v, Chunked)
  BY <1>7, NamesDiffer DEF SaysEnds
<1>12. /\ ends = "chunked" => Framing(all) = "chunked"
       /\ ends = "length" => Framing(all) = "length"
  BY <1>7 DEF SaysEnds, Framing
<1>13. Framing(long) = "length"
  BY <1>8 DEF Framing
<1>14. QED
  BY <1>4, <1>5, <1>9, <1>10, <1>11, <1>12, <1>13, Zenon DEF all, long, last

-----------------------------------------------------------------------------
(* A request that the client writes                                        *)

\* What is known of a sample.
LEMMA SampleIs ==
    ASSUME sample \in Samples
    PROVE  /\ sample.path \in TextWithout({LF, SP, QUESTION})
           /\ sample.query \in Seq(QueryField)
           /\ sample.header \in Seq(HeaderField)
           /\ sample.length \in 0 .. 9
           /\ SaysEnds(sample.ends, sample.header)
  BY SamplesAssumption DEF Fields, QueryField, HeaderField, SaysEnds

\* The target of a request: its path and, behind the last "?", its query.
LEMMA TargetReads ==
    ASSUME NEW path \in TextWithout({LF, SP, QUESTION}), NEW query \in TextWithout({LF, SP, QUESTION})
    PROVE  LET target == path \o <<QUESTION>> \o query
           IN /\ target \in TextWithout({LF, SP}) /\ target # <<>>
              /\ LastPlace(target, QUESTION) # 0
              /\ SubSeq(target, 1, LastPlace(target, QUESTION) - 1) = path
              /\ From(target, LastPlace(target, QUESTION) + 1) = query
<1> DEFINE target == path \o <<QUESTION>> \o query
           n == Len(path)
<1>1. /\ path \in Seq(Int) /\ query \in Seq(Int) /\ QUESTION \in Int
      /\ \A i \in 1 .. Len(query) : query[i] # QUESTION
  BY DEF TextWithout, QUESTION
<1>2. IsBetween(target, path, QUESTION, query)
  BY <1>1, BetweenTexts
<1>3. LastPlace(target, QUESTION) = Len(path) + 1
  BY <1>1, LastPlaceBetween
<1>4. target \in TextWithout({LF, SP})
  <2>1. path \in TextWithout({LF, SP}) /\ query \in TextWithout({LF, SP})
    BY WithoutFewer
  <2>2. <<QUESTION>> \in TextWithout({LF, SP})
    <3>1. QUESTION \in Int \ {LF, SP}
      BY DEF QUESTION, LF, SP
    <3>2. QED
      BY <3>1, WithoutOne
  <2>3. path \o <<QUESTION>> \in TextWithout({LF, SP})
    BY <2>1, <2>2, WithoutConcat
  <2>4. QED
    BY <2>1, <2>3, WithoutConcat
<1> HIDE DEF target
<1>5. n \in Nat /\ Len(query) \in Nat
  BY <1>1, LenProperties
<1>6. Len(target) = n + 1 + Len(query) /\ SubSeq(target, 1, n) = path /\ From(target, n + 2) = query
  BY <1>2 DEF IsBetween
<1> HIDE DEF n
<1>7. n + 1 # 0 /\ (n + 1) - 1 = n /\ (n + 1) + 1 = n + 2 /\ Len(target) # 0
  BY <1>5, <1>6
<1>8. target # <<>>
  BY <1>7
<1>9. QED
  BY <1>3, <1>4, <1>6, <1>7, <1>8 DEF n, target

\* The text of a request, with all fields of its header.
AddsLength(h, n) == n > 0 /\ ~(Values(h, ContentLength) # {} \/ Chunked \in Values(h, TransferEncoding))

AllFields(f, h, n, adds) == IF adds THEN <<f>> \o h \o <<LengthField(n)>> ELSE <<f>> \o h

Target(path) == IF path = <<>> THEN <<SLASH>> ELSE path

WrittenAs(method, path, host, h, n) ==
    RequestText(method, path, host, h, n)
      = RequestLine(method, Target(path)) \o Line
          \o HeaderText(AllFields(Field(Host, host), h, n, AddsLength(h, n))) \o Line

\* A request is its first line, all fields of its header and an end.
LEMMA RequestTextIs ==
    ASSUME NEW method \in TextWithout({LF, SP}), NEW path \in TextWithout({LF, SP}), NEW host \in TextWithout({LF}),
           NEW h \in Seq(HeaderField), NEW n \in 0 .. 9
    PROVE  WrittenAs(method, path, host, h, n)
<1> DEFINE target == Target(path)
           adds == AddsLength(h, n)
           r == RequestLine(method, target)
           first == <<Field(Host, host)>> \o h
           extra == IF adds THEN <<LengthField(n)>> ELSE <<>>
           a == HeaderText(first)
           b == HeaderText(extra)
<1>1. target \in TextWithout({LF, SP})
  <2>1. SLASH \in Int \ {LF, SP}
    BY Words
  <2>2. <<SLASH>> \in TextWithout({LF, SP})
    BY <2>1, WithoutOne
  <2>3. QED
    BY <2>2 DEF Target
<1> HIDE DEF target
<1>2. r \in Seq(Int)
  BY <1>1, RequestLineIs DEF TextWithout
<1>3. Field(Host, host) \in HeaderField
  BY NamesDiffer DEF Field, HeaderField
<1>4. first \in Seq(HeaderField)
  BY <1>3, Joint
<1>5. <<>> \in Seq(HeaderField) /\ <<LengthField(n)>> \in Seq(HeaderField)
  BY LengthFieldIs
<1>6. extra \in Seq(HeaderField)
  BY <1>5, Zenon
<1>7. RequestText(method, path, host, h, n) = r \o Line \o a \o b \o Line
  BY Zenon DEF RequestText, RequestLine, Target, AddsLength, target
<1> HIDE DEF r, first, extra, adds
<1>8. a \in Seq(Int) /\ b \in Seq(Int) /\ Line \in Seq(Int)
  BY <1>4, <1>6, HeaderLinesAre, EndingPieces
<1>9. HeaderText(first \o extra) = a \o b
  BY <1>4, <1>6, HeaderTextConcat
<1> HIDE DEF a, b
<1>10. r \o Line \in Seq(Int)
  BY <1>2, <1>8, Regroup
<1>11. Regroups(r \o Line, a, b)
  BY <1>8, <1>10, Regroup
<1>12. RequestText(method, path, host, h, n) = r \o Line \o HeaderText(first \o extra) \o Line
  BY <1>7, <1>9, <1>11, Zenon DEF Regroups
<1>13. first \o extra = IF adds THEN first \o <<LengthField(n)>> ELSE first
  <2>1. first \o <<>> = first
    BY <1>4, ConcatSimplifications
  <2>2. QED
    BY <2>1, Zenon DEF extra
<1>14. QED
  BY <1>12, <1>13, Zenon DEF WrittenAs, AllFields, r, first, target, adds

\* Every sample is read by the server as the client has written it.
LEMMA RequestReadsBack == ASSUME sample \in Samples PROVE RequestRoundTrip
<1> DEFINE path == sample.path
           query == sample.query
           h == sample.header
           n == sample.length
           ends == sample.ends
           given == IF query = <<>> THEN path ELSE path \o <<QUESTION>> \o QueryCreate(query)
           target == Target(given)
           first == <<Field(Host, Version)>> \o h
           long == first \o <<LengthField(n)>>
           adds == n > 0 /\ ends = "open"
           all == IF adds THEN long ELSE first
           q == LastPlace(target, QUESTION)
           r == RequestParse(RequestText(HTTP, given, Version, h, n))
<1>1. /\ path \in TextWithout({LF, SP, QUESTION}) /\ query \in Seq(QueryField)
      /\ h \in Seq(HeaderField) /\ n \in 0 .. 9 /\ SaysEnds(ends, h)
  BY SampleIs
<1>2. /\ HTTP \in TextWithout({LF, SP}) /\ Version \in TextWithout({LF}) /\ Len(Host) = 4
      /\ Field(Host, Version) \in HeaderField /\ Field(Host, Version).name = Host
  BY Words, NamesDiffer DEF Field, HeaderField
<1>3. path \in TextWithout({LF, SP}) /\ path \in Seq(Int) /\ \A i \in 1 .. Len(path) : path[i] # QUESTION
  BY <1>1, WithoutFewer DEF TextWithout
<1>4. /\ QueryCreate(query) \in TextWithout({LF, SP, QUESTION})
      /\ QueryParse(QueryCreate(query)) = query /\ QueryParse(<<>>) = <<>>
  BY <1>1, QueryReads
<1> HIDE DEF path, query, h, n, ends
<1>5. /\ first \in Seq(HeaderField)
      /\ ends # "open" <=> Values(h, ContentLength) # {} \/ Chunked \in Values(h, TransferEncoding)
      /\ ends = "chunked" => Framing(first) = "chunked"
      /\ ends = "length" => Framing(first) = "length"
      /\ Framing(long) = "length"
      /\ first \o <<>> = first
  <2> DEFINE f == Field(Host, Version)
  <2>1. f \in HeaderField /\ Len(f.name) = 4
    BY <1>2, Zenon
  <2> HIDE DEF f
  <2>2. LET all1 == <<f>> \o h
            long1 == all1 \o <<LengthField(n)>>
        IN /\ all1 \in Seq(HeaderField) /\ all1 \o <<>> = all1
           /\ ends # "open" <=> Values(h, ContentLength) # {} \/ Chunked \in Values(h, TransferEncoding)
           /\ ends = "chunked" => Framing(all1) = "chunked"
           /\ ends = "length" => Framing(all1) = "length"
           /\ Framing(long1) = "length"
    BY <1>1, <2>1, EndsAre, Zenon
  <2>3. QED
    BY <2>2, Zenon DEF f
<1>6. all \in Seq(HeaderField)
  <2>1. <<LengthField(n)>> \in Seq(HeaderField)
    BY <1>1, LengthFieldIs
  <2> HIDE DEF first
  <2>2. long \in Seq(HeaderField)
    BY <1>5, <2>1, Joint
  <2>3. QED
    BY <1>5, <2>2
<1>7. /\ given \in TextWithout({LF, SP}) /\ target \in TextWithout({LF, SP})
      /\ (IF q = 0 THEN target ELSE SubSeq(target, 1, q - 1)) = IF given = <<>> THEN <<SLASH>> ELSE path
      /\ QueryParse(IF q = 0 THEN <<>> ELSE From(target, q + 1)) = query
  <2>1. CASE query = <<>>
    <3>1. given = path
      BY <2>1
    <3>2. target \in TextWithout({LF, SP}) /\ \A i \in 1 .. Len(target) : target[i] # QUESTION
      <4>1. CASE path = <<>>
        <5>1. <<SLASH>> \in TextWithout({LF, SP})
          <6>1. SLASH \in Int \ {LF, SP}
            BY Words
          <6>2. QED
            BY <6>1, WithoutOne
        <5>2. \A i \in 1 .. Len(<<SLASH>>) : <<SLASH>>[i] # QUESTION
          BY Words
        <5>3. target = <<SLASH>>
          BY <3>1, <4>1 DEF Target
        <5>4. QED
          BY <5>1, <5>2, <5>3, Zenon
      <4>2. CASE path # <<>>
        BY <1>3, <3>1, <4>2 DEF Target
      <4>3. QED
        BY <4>1, <4>2
    <3>3. q = 0
      <4> HIDE DEF target
      <4>1. target \in Seq(Int)
        BY <3>2 DEF TextWithout
      <4>2. QED
        BY <3>2, <4>1, LastPlaceAt
    <3>4. (IF q = 0 THEN target ELSE SubSeq(target, 1, q - 1)) = target /\ (IF q = 0 THEN <<>> ELSE From(target, q + 1)) = <<>>
      BY <3>3, Zenon
    <3>5. QED
      BY <1>3, <1>4, <2>1, <3>1, <3>2, <3>4, Zenon DEF Target
  <2>2. CASE query # <<>>
    <3> DEFINE t == path \o <<QUESTION>> \o QueryCreate(query)
    <3>1. /\ t \in TextWithout({LF, SP}) /\ t # <<>>
          /\ LastPlace(t, QUESTION) # 0
          /\ SubSeq(t, 1, LastPlace(t, QUESTION) - 1) = path
          /\ From(t, LastPlace(t, QUESTION) + 1) = QueryCreate(query)
      BY <1>1, <1>4, TargetReads
    <3> HIDE DEF t
    <3>2. given = t
      BY <2>2 DEF t
    <3>3. target = t
      BY <3>1, <3>2 DEF Target
    <3> HIDE DEF given, target
    <3>4. (IF q = 0 THEN target ELSE SubSeq(target, 1, q - 1)) = path
          /\ (IF q = 0 THEN <<>> ELSE From(target, q + 1)) = QueryCreate(query)
      BY <3>1, <3>3, Zenon
    <3>5. QED
      BY <1>4, <3>1, <3>2, <3>3, <3>4, Zenon
  <2>3. QED
    BY <2>1, <2>2
<1>8. adds = (n > 0 /\ ~(Values(h, ContentLength) # {} \/ Chunked \in Values(h, TransferEncoding)))
  BY <1>1, <1>5 DEF SaysEnds
<1> HIDE DEF given, first, adds
<1>9. RequestText(HTTP, given, Version, h, n) = RequestLine(HTTP, target) \o Line \o HeaderText(all) \o Line
  <2>1. adds = AddsLength(h, n)
    BY <1>8 DEF AddsLength
  <2>2. WrittenAs(HTTP, given, Version, h, n)
    BY <1>1, <1>2, <1>7, RequestTextIs
  <2>3. QED
    BY <2>1, <2>2, Zenon DEF WrittenAs, AllFields, first
<1> HIDE DEF all, target, q
<1>10. r = [ok |-> TRUE, method |-> HTTP,
            path |-> IF q = 0 THEN target ELSE SubSeq(target, 1, q - 1),
            query |-> IF q = 0 THEN <<>> ELSE From(target, q + 1),
            version |-> Version, header |-> all]
  BY <1>2, <1>6, <1>7, <1>9, RequestReads, Zenon DEF q
<1> HIDE DEF r
<1>11. /\ r.ok /\ r.method = HTTP /\ r.version = Version
       /\ r.path = (IF given = <<>> THEN <<SLASH>> ELSE path)
       /\ QueryParse(r.query) = query
       /\ r.header = all
  BY <1>7, <1>10
<1>12. Announces(all, first, adds)
  <2>1. all = first \o (IF adds THEN <<LengthField(n)>> ELSE <<>>)
    BY <1>5 DEF all
  <2>2. ends = "chunked" => Framing(all) = "chunked"
    BY <1>5 DEF all, adds
  <2>3. ends = "length" \/ adds => Framing(all) = "length"
    BY <1>5 DEF all, adds
  <2>4. QED
    BY <2>1, <2>2, <2>3, Zenon DEF Announces, n, ends
<1>13. QED
  BY <1>11, <1>12, Zenon DEF RequestRoundTrip, r, path, query, h, n, ends, first, adds, given

-----------------------------------------------------------------------------
(* Attributes of a field                                                   *)

\* What AttributesParse looks for from a place on: where a name begins and ends,
\* where its value begins and ends.
NameAt(s, i) == Place(s, i, Int \ {SP, SEMICOLON})
NameEnd(s, i) == Place(s, NameAt(s, i) + 1, {SEMICOLON, EQUALS})
IsQuoted(s, end) == end + 1 < Len(s) /\ s[end + 1] = QUOTE
ValueAt(s, end) == IF IsQuoted(s, end) THEN end + 2 ELSE end + 1
ValueEnd(s, end) == Place(s, end + 2, {QUOTE, SEMICOLON})

AttributeAt(s, begin, end) ==
    IF begin = 0 THEN <<>>
    ELSE IF end = 0 THEN <<Field(From(s, begin), <<>>)>>
    ELSE IF s[end] = SEMICOLON THEN <<Field(SubSeq(s, begin, end - 1), <<>>)>>
    ELSE IF end = Len(s) THEN <<>>
    ELSE IF ValueEnd(s, end) = 0 THEN <<Field(SubSeq(s, begin, end - 1), Decode(From(s, ValueAt(s, end))))>>
    ELSE <<Field(SubSeq(s, begin, end - 1), Decode(SubSeq(s, ValueAt(s, end), ValueEnd(s, end) - 1)))>>

BehindAttribute(s, begin, end) ==
    IF begin = 0 \/ end = 0 THEN 0
    ELSE IF s[end] = SEMICOLON THEN end + 1
    ELSE IF end = Len(s) \/ ValueEnd(s, end) = 0 THEN 0
    ELSE ValueEnd(s, end) + 1

Attributes(s) == [i \in 1 .. Len(s) + 1 |-> AttributeAt(s, NameAt(s, i), NameEnd(s, i))]
NextAttribute(s) == [i \in 1 .. Len(s) + 1 |-> BehindAttribute(s, NameAt(s, i), NameEnd(s, i))]

\* AttributesParse at a place, as it is written.
AttributesFrom(f, s, begin, end) ==
    IF begin = 0 THEN <<>>
    ELSE IF end = 0 THEN <<Field(From(s, begin), <<>>)>>
    ELSE IF s[end] = SEMICOLON THEN <<Field(SubSeq(s, begin, end - 1), <<>>)>> \o f[end + 1]
    ELSE IF end = Len(s) THEN <<>>
    ELSE IF ValueEnd(s, end) = 0 THEN <<Field(SubSeq(s, begin, end - 1), Decode(From(s, ValueAt(s, end))))>>
    ELSE <<Field(SubSeq(s, begin, end - 1), Decode(SubSeq(s, ValueAt(s, end), ValueEnd(s, end) - 1)))>>
           \o f[ValueEnd(s, end) + 1]

\* Where the places are.
LEMMA AttributePlaces ==
    ASSUME NEW s \in Seq(Int), NEW i \in 1 .. Len(s) + 1
    PROVE  /\ Len(s) \in Nat
           /\ NameAt(s, i) = 0 \/ NameAt(s, i) \in i .. Len(s)
           /\ NameAt(s, i) # 0 => NameEnd(s, i) = 0 \/ NameEnd(s, i) \in NameAt(s, i) + 1 .. Len(s)
           /\ NameAt(s, i) # 0 /\ NameEnd(s, i) # 0 =>
                ValueEnd(s, NameEnd(s, i)) = 0 \/ ValueEnd(s, NameEnd(s, i)) \in NameEnd(s, i) + 2 .. Len(s)
<1> DEFINE b == NameAt(s, i)
           e == NameEnd(s, i)
<1>1. Len(s) \in Nat /\ i \in Nat \ {0}
  BY LenProperties
<1>2. b = 0 \/ b \in i .. Len(s)
  BY <1>1, PlaceIs DEF NameAt
<1>3. ASSUME b # 0 PROVE e = 0 \/ e \in b + 1 .. Len(s)
  <2> HIDE DEF b
  <2>1. b + 1 \in Nat \ {0}
    BY <1>1, <1>2, <1>3
  <2>2. PICK k \in Nat \ {0} : k = b + 1
    BY <2>1
  <2>3. e = Place(s, k, {SEMICOLON, EQUALS})
    BY <2>2 DEF NameEnd, b
  <2>4. QED
    BY <2>2, <2>3, PlaceIs
<1>4. ASSUME b # 0, e # 0 PROVE ValueEnd(s, e) = 0 \/ ValueEnd(s, e) \in e + 2 .. Len(s)
  <2> HIDE DEF b, e
  <2>1. e + 2 \in Nat \ {0}
    BY <1>1, <1>2, <1>3, <1>4, SMTT(30)
  <2>2. PICK k \in Nat \ {0} : k = e + 2
    BY <2>1
  <2>3. ValueEnd(s, e) = Place(s, k, {QUOTE, SEMICOLON})
    BY <2>2 DEF ValueEnd
  <2>4. QED
    BY <2>2, <2>3, PlaceIs
<1>5. QED
  BY <1>1, <1>2, <1>3, <1>4

\* AttributesParse walks from an attribute to the next.
LEMMA AttributesWalk ==
    ASSUME NEW s \in Seq(Int)
    PROVE  /\ GoesOn(Len(s) + 1, NextAttribute(s))
           /\ \E f : Walks(f, Len(s) + 1, Attributes(s), NextAttribute(s)) /\ AttributesParse(s) = f[1]
<1> DEFINE n == Len(s) + 1
           parts == Attributes(s)
           next == NextAttribute(s)
           b(i) == NameAt(s, i)
           e(i) == NameEnd(s, i)
           Is(f) == f = [i \in 1 .. n |-> AttributesFrom(f, s, b(i), e(i))]
           g == CHOOSE f : Is(f)
<1>1. n \in Nat /\ Len(s) \in Nat
  BY LenProperties
<1>2. ASSUME NEW i \in 1 .. n
      PROVE  /\ next[i] = BehindAttribute(s, b(i), e(i)) /\ parts[i] = AttributeAt(s, b(i), e(i))
             /\ next[i] = 0 \/ next[i] \in i + 1 .. n
             /\ b(i) # 0 /\ e(i) # 0 => e(i) + 1 # 0 /\ (ValueEnd(s, e(i)) # 0 => ValueEnd(s, e(i)) + 1 # 0)
  <2>1. /\ b(i) = 0 \/ b(i) \in i .. Len(s)
        /\ b(i) # 0 => e(i) = 0 \/ e(i) \in b(i) + 1 .. Len(s)
        /\ b(i) # 0 /\ e(i) # 0 => ValueEnd(s, e(i)) = 0 \/ ValueEnd(s, e(i)) \in e(i) + 2 .. Len(s)
    BY AttributePlaces
  <2>2. next[i] = BehindAttribute(s, b(i), e(i)) /\ parts[i] = AttributeAt(s, b(i), e(i))
    BY Zenon DEF NextAttribute, Attributes
  <2> DEFINE B == b(i)
             E == e(i)
             V == ValueEnd(s, E)
  <2>3. B # 0 /\ E # 0 => E + 1 # 0 /\ (V # 0 => V + 1 # 0)
    <3> DEFINE L == Len(s)
    <3>1. /\ B = 0 \/ B \in i .. L
          /\ B # 0 => E = 0 \/ E \in B + 1 .. L
          /\ B # 0 /\ E # 0 => V = 0 \/ V \in E + 2 .. L
      BY <2>1
    <3>2. i \in 1 .. L + 1 /\ L \in Nat
      BY <1>1
    <3> HIDE DEF B, E, V, L
    <3>3. QED
      BY <3>1, <3>2
  <2>4. next[i] = 0 \/ next[i] \in i + 1 .. n
    <3>1. next[i] = 0 \/ (B # 0 /\ E # 0 /\ (next[i] = E + 1 \/ (V # 0 /\ next[i] = V + 1)))
      BY <2>2, Zenon DEF BehindAttribute
    <3> DEFINE L == Len(s)
               x == next[i]
    <3>2. /\ B = 0 \/ B \in i .. L
          /\ B # 0 => E = 0 \/ E \in B + 1 .. L
          /\ B # 0 /\ E # 0 => V = 0 \/ V \in E + 2 .. L
      BY <2>1
    <3>3. i \in 1 .. L + 1 /\ L \in Nat
      BY <1>1
    <3> HIDE DEF B, E, V, L, next
    <3>4. x = 0 \/ x \in i + 1 .. L + 1
      <4>1. x = 0 \/ (B # 0 /\ E # 0 /\ (x = E + 1 \/ (V # 0 /\ x = V + 1)))
        BY <3>1
      <4> HIDE DEF x
      <4>2. QED
        BY <3>2, <3>3, <4>1
    <3>5. QED
      BY <3>4 DEF L
  <2>5. QED
    BY <2>2, <2>3, <2>4
<1>3. GoesOn(n, next)
  BY <1>2 DEF GoesOn
<1>4. PICK f : IsWalk(f, n, parts, next)
  <2> HIDE DEF n, parts, next
  <2>1. QED
    BY <1>1, <1>3, WalkExists
<1>5. ASSUME NEW u, NEW i \in 1 .. n
      PROVE  (IF next[i] = 0 THEN parts[i] ELSE parts[i] \o u[next[i]]) = AttributesFrom(u, s, b(i), e(i))
  BY <1>2, Zenon DEF AttributesFrom, AttributeAt, BehindAttribute
<1>6. Is(f)
  <2> HIDE DEF n, parts, next, b, e
  <2> DEFINE h == [i \in 1 .. n |-> AttributesFrom(f, s, b(i), e(i))]
             k == [i \in 1 .. n |-> IF next[i] = 0 THEN parts[i] ELSE parts[i] \o f[next[i]]]
  <2>1. f = k
    BY <1>4, Zenon DEF IsWalk
  <2>2. k = h
    BY <1>5, Zenon
  <2>3. QED
    BY <2>1, <2>2
<1>7. Is(g)
  <2> HIDE DEF Is
  <2>1. QED
    BY <1>6
<1>8. AttributesParse(s) = g[1]
  BY Zenon DEF AttributesParse, AttributesFrom, NameAt, NameEnd, ValueAt, ValueEnd, IsQuoted
<1>9. Walks(g, n, parts, next)
  <2> HIDE DEF g, n, parts, next, b, e
  <2>1. ASSUME NEW i \in 1 .. n PROVE g[i] = IF next[i] = 0 THEN parts[i] ELSE parts[i] \o g[next[i]]
    <3>1. g[i] = AttributesFrom(g, s, b(i), e(i))
      BY <1>7, Zenon
    <3>2. QED
      BY <1>5, <3>1, Zenon
  <2>2. QED
    BY <2>1 DEF Walks
<1>10. QED
  BY <1>3, <1>8, <1>9

\* Behind d characters the places of an attribute are counted anew.
PlacesBehind(s, t, d, b, e, begin, end) ==
    /\ begin = IF b = 0 THEN 0 ELSE d + b
    /\ b # 0 => end = IF e = 0 THEN 0 ELSE d + e
    /\ b # 0 => From(s, begin) = From(t, b)
    /\ b # 0 /\ e # 0 =>
         /\ s[end] = t[e] /\ (end = Len(s) <=> e = Len(t))
         /\ SubSeq(s, begin, end - 1) = SubSeq(t, b, e - 1)

\* So it is with the place of a name.
LEMMA NamesBehind ==
    ASSUME NEW s \in Seq(Int), NEW d \in 0 .. Len(s), NEW i \in 1 .. Len(s) - d + 1
    PROVE  LET t == From(s, d + 1)
           IN PlacesBehind(s, t, d, NameAt(t, i), NameEnd(t, i), NameAt(s, d + i), NameEnd(s, d + i))
<1> DEFINE t == From(s, d + 1)
           m == Len(s) - d
           p == Len(s)
           b == NameAt(t, i)
           e == NameEnd(t, i)
           begin == NameAt(s, d + i)
           end == NameEnd(s, d + i)
<1>1. p \in Nat /\ d \in Nat /\ m \in Nat /\ d + m = p /\ i \in 1 .. m + 1
  BY LenProperties
<1>2. t \in Seq(Int) /\ Len(t) = m /\ \A k \in 1 .. m : t[k] = s[d + k]
  BY FromIs
<1>3. \A chars : \A k \in 1 .. Len(s) - d + 1 :
        Place(s, d + k, chars) = IF Place(t, k, chars) = 0 THEN 0 ELSE d + Place(t, k, chars)
  BY PlaceBehind
<1>4. \A k \in Nat \ {0} : \A j \in Nat : j <= Len(s) - d =>
        /\ SubSeq(s, d + k, d + j) = SubSeq(t, k, j)
        /\ k <= Len(s) - d + 1 => From(s, d + k) = From(t, k)
  BY BetweenBehind, SMTT(30)
<1> HIDE DEF t
<1>5. /\ b = 0 \/ b \in i .. m
      /\ b # 0 => e = 0 \/ e \in b + 1 .. m
  BY <1>1, <1>2, AttributePlaces
<1>6. begin = IF b = 0 THEN 0 ELSE d + b
  BY <1>1, <1>3, Zenon DEF NameAt
<1> HIDE DEF begin, b
<1>7. ASSUME b # 0
      PROVE  /\ end = IF e = 0 THEN 0 ELSE d + e
             /\ From(s, begin) = From(t, b)
  <2>1. b \in 1 .. m /\ begin = d + b
    BY <1>1, <1>5, <1>6, <1>7
  <2>2. PICK k \in 1 .. m + 1 : k = b + 1
    BY <1>1, <2>1
  <2>3. begin + 1 = d + k
    BY <1>1, <2>1, <2>2
  <2>4. end = Place(s, d + k, {SEMICOLON, EQUALS}) /\ e = Place(t, k, {SEMICOLON, EQUALS})
    BY <2>2, <2>3, Zenon DEF NameEnd, b, begin
  <2>5. From(s, d + b) = From(t, b)
    <3>1. b \in Nat \ {0} /\ b <= Len(s) - d + 1 /\ 0 \in Nat /\ 0 <= Len(s) - d
      BY <1>1, <2>1
    <3>2. QED
      BY <1>4, <3>1
  <2>6. end = IF e = 0 THEN 0 ELSE d + e
    BY <1>3, <2>4, Zenon DEF m
  <2>7. QED
    BY <2>1, <2>5, <2>6
<1>8. ASSUME b # 0, e # 0
      PROVE  /\ s[end] = t[e] /\ (end = Len(s) <=> e = Len(t))
             /\ SubSeq(s, begin, end - 1) = SubSeq(t, b, e - 1)
  <2> HIDE DEF e, end
  <2>1. b \in 1 .. m /\ begin = d + b /\ e \in 1 .. m /\ e > b /\ end = d + e
    <3>1. end = IF e = 0 THEN 0 ELSE d + e
      BY <1>7, <1>8
    <3> HIDE DEF m, p
    <3>2. QED
      BY <1>1, <1>5, <1>6, <1>8, <3>1
  <2>2. s[end] = t[e]
    BY <1>2, <2>1
  <2>3. end = Len(s) <=> e = Len(t)
    <3>1. end = p <=> e = m
      <4> HIDE DEF m, p
      <4>1. QED
        BY <1>1, <2>1
    <3>2. QED
      BY <1>2, <3>1
  <2>4. SubSeq(s, begin, end - 1) = SubSeq(t, b, e - 1)
    <3>1. PICK j \in Nat : j = e - 1
      BY <1>1, <2>1
    <3>2. b \in Nat \ {0} /\ j <= Len(s) - d /\ end - 1 = d + j
      BY <1>1, <2>1, <3>1
    <3>3. SubSeq(s, d + b, d + j) = SubSeq(t, b, j)
      BY <1>4, <3>2
    <3>4. QED
      BY <2>1, <3>1, <3>2, <3>3
  <2>5. QED
    BY <2>2, <2>3, <2>4
<1>9. QED
  BY <1>6, <1>7, <1>8, Zenon DEF PlacesBehind, t, b, e, begin, end

ValuesBehind(s, t, d, e, end) ==
    /\ ValueEnd(s, end) = IF ValueEnd(t, e) = 0 THEN 0 ELSE d + ValueEnd(t, e)
    /\ From(s, ValueAt(s, end)) = From(t, ValueAt(t, e))
    /\ ValueEnd(t, e) # 0 =>
         SubSeq(s, ValueAt(s, end), ValueEnd(s, end) - 1) = SubSeq(t, ValueAt(t, e), ValueEnd(t, e) - 1)

\* And so with the place of a value.
LEMMA ValueBehind ==
    ASSUME NEW s \in Seq(Int), NEW d \in 0 .. Len(s), NEW e \in 1 .. Len(s) - d - 1
    PROVE  ValuesBehind(s, From(s, d + 1), d, e, d + e)
<1> DEFINE t == From(s, d + 1)
           m == Len(s) - d
           p == Len(s)
           end == d + e
           v == ValueAt(t, e)
           value == ValueAt(s, end)
           x == ValueEnd(t, e)
           stop == ValueEnd(s, end)
<1>1. p \in Nat /\ d \in Nat /\ m \in Nat /\ d + m = p /\ e \in 1 .. m - 1
  BY LenProperties
<1>2. t \in Seq(Int) /\ Len(t) = m /\ \A k \in 1 .. m : t[k] = s[d + k]
  BY FromIs
<1>3. \A chars : \A k \in 1 .. Len(s) - d + 1 :
        Place(s, d + k, chars) = IF Place(t, k, chars) = 0 THEN 0 ELSE d + Place(t, k, chars)
  BY PlaceBehind
<1>4. \A k \in Nat \ {0} : \A j \in Nat : j <= Len(s) - d =>
        /\ SubSeq(s, d + k, d + j) = SubSeq(t, k, j)
        /\ k <= Len(s) - d + 1 => From(s, d + k) = From(t, k)
  BY BetweenBehind, Zenon
<1> HIDE DEF t
<1>5. e \in Nat /\ end \in Nat /\ end + 1 = d + (e + 1) /\ end + 2 = d + (e + 2) /\ e + 2 \in 1 .. m + 1
  BY <1>1
<1>6. stop = IF x = 0 THEN 0 ELSE d + x
  <2>1. PICK k \in 1 .. m + 1 : k = e + 2
    BY <1>5
  <2>2. stop = Place(s, d + k, {QUOTE, SEMICOLON}) /\ x = Place(t, k, {QUOTE, SEMICOLON})
    BY <1>5, <2>1, Zenon DEF ValueEnd
  <2>3. QED
    BY <1>3, <2>2, Zenon DEF m
<1>7. x = 0 \/ x \in e + 2 .. m
  <2>1. PICK k \in Nat \ {0} : k = e + 2
    BY <1>1
  <2>2. x = Place(t, k, {QUOTE, SEMICOLON})
    BY <2>1, Zenon DEF ValueEnd
  <2> HIDE DEF x
  <2>3. x = 0 \/ x \in k .. Len(t)
    BY <1>2, <2>2, PlaceIs
  <2>4. QED
    BY <1>2, <2>1, <2>3
<1>8. value = d + v /\ v \in e + 1 .. e + 2 /\ v <= m
  <2>1. e + 1 \in 1 .. m /\ d + (e + 1) = end + 1
    BY <1>1
  <2>2. t[e + 1] = s[end + 1]
    BY <1>2, <2>1, SMTT(30)
  <2>3. IsQuoted(s, end) <=> IsQuoted(t, e)
    <3>1. end + 1 < p <=> e + 1 < m
      <4> HIDE DEF m, p, end
      <4>1. QED
        BY <1>1, <1>5
    <3>2. QED
      BY <1>2, <2>2, <3>1, Zenon DEF IsQuoted
  <2>4. CASE IsQuoted(t, e)
    <3>1. v = e + 2 /\ value = end + 2
      BY <2>3, <2>4 DEF ValueAt
    <3>2. e + 1 < m
      BY <1>2, <2>4 DEF IsQuoted
    <3> HIDE DEF v, value
    <3>3. QED
      BY <1>1, <3>1, <3>2
  <2>5. CASE ~IsQuoted(t, e)
    <3>1. v = e + 1 /\ value = end + 1
      BY <2>3, <2>5 DEF ValueAt
    <3> HIDE DEF v, value
    <3>2. QED
      BY <1>1, <3>1
  <2>6. QED
    BY <2>4, <2>5
<1> HIDE DEF v, value, x, stop
<1>9. v \in Nat \ {0} /\ v <= Len(s) - d + 1
  BY <1>1, <1>8
<1>10. From(s, value) = From(t, v)
  <2>1. 0 \in Nat /\ 0 <= Len(s) - d
    BY <1>1
  <2>2. QED
    BY <1>4, <1>8, <1>9, <2>1
<1>11. ASSUME x # 0 PROVE SubSeq(s, value, stop - 1) = SubSeq(t, v, x - 1)
  <2>1. PICK j \in Nat : j = x - 1
    BY <1>1, <1>7, <1>11
  <2>2. j <= Len(s) - d /\ stop - 1 = d + j
    BY <1>1, <1>6, <1>7, <1>11, <2>1, SMTT(30)
  <2>3. SubSeq(s, d + v, d + j) = SubSeq(t, v, j)
    BY <1>4, <1>9, <2>2
  <2>4. QED
    BY <1>8, <2>1, <2>2, <2>3
<1>12. QED
  BY <1>6, <1>10, <1>11, Zenon DEF ValuesBehind, t, v, value, x, stop, end

\* Behind d characters attributes are read as from the first on.
LEMMA AttributeBehind ==
    ASSUME NEW s \in Seq(Int), NEW d \in 0 .. Len(s), NEW i \in 1 .. Len(s) - d + 1
    PROVE  LET t == From(s, d + 1)
           IN /\ Attributes(s)[d + i] = Attributes(t)[i]
              /\ NextAttribute(s)[d + i] = IF NextAttribute(t)[i] = 0 THEN 0 ELSE d + NextAttribute(t)[i]
<1> DEFINE t == From(s, d + 1)
           m == Len(s) - d
           p == Len(s)
           b == NameAt(t, i)
           e == NameEnd(t, i)
           x == ValueEnd(t, e)
           begin == NameAt(s, d + i)
           end == NameEnd(s, d + i)
           stop == ValueEnd(s, end)
           next == BehindAttribute(t, b, e)
<1>1. p \in Nat /\ d \in Nat /\ m \in Nat /\ d + m = p /\ i \in 1 .. m + 1
  BY LenProperties
<1>2. t \in Seq(Int) /\ Len(t) = m
  BY FromIs
<1>3. PlacesBehind(s, t, d, b, e, begin, end)
  BY NamesBehind
<1>4. ASSUME NEW k \in 1 .. m - 1 PROVE ValuesBehind(s, t, d, k, d + k)
  BY <1>4, ValueBehind
<1> HIDE DEF t
<1>5. /\ b = 0 \/ b \in i .. m
      /\ b # 0 => e = 0 \/ e \in b + 1 .. m
      /\ b # 0 /\ e # 0 => x = 0 \/ x \in e + 2 .. m
  BY <1>1, <1>2, AttributePlaces
<1>6. /\ Attributes(t)[i] = AttributeAt(t, b, e) /\ NextAttribute(t)[i] = next
      /\ Attributes(s)[d + i] = AttributeAt(s, begin, end)
      /\ NextAttribute(s)[d + i] = BehindAttribute(s, begin, end)
  <2>1. d + i \in 1 .. Len(s) + 1 /\ i \in 1 .. Len(t) + 1
    BY <1>1, <1>2
  <2>2. QED
    BY <2>1, Zenon DEF Attributes, NextAttribute
<1> HIDE DEF begin, b, end, e, m, p
<1>7. CASE b = 0
  <2>1. begin = 0
    BY <1>3, <1>7 DEF PlacesBehind
  <2>2. AttributeAt(s, begin, end) = AttributeAt(t, b, e) /\ BehindAttribute(s, begin, end) = 0 /\ next = 0
    BY <1>7, <2>1, Zenon DEF AttributeAt, BehindAttribute
  <2>3. QED
    BY <1>6, <2>2, Zenon DEF t
<1>8. CASE b # 0 /\ e = 0
  <2>1. begin # 0 /\ end = 0 /\ From(s, begin) = From(t, b)
    <3>1. begin = d + b /\ end = 0 /\ From(s, begin) = From(t, b)
      BY <1>3, <1>8 DEF PlacesBehind
    <3>2. QED
      BY <1>1, <1>5, <1>8, <3>1
  <2>2. AttributeAt(s, begin, end) = AttributeAt(t, b, e) /\ BehindAttribute(s, begin, end) = 0 /\ next = 0
    BY <1>8, <2>1, Zenon DEF AttributeAt, BehindAttribute
  <2>3. QED
    BY <1>6, <2>2, Zenon DEF t
<1>9. CASE b # 0 /\ e # 0
  <2>1. /\ begin = d + b /\ end = d + e /\ s[end] = t[e] /\ (end = Len(s) <=> e = Len(t))
        /\ SubSeq(s, begin, end - 1) = SubSeq(t, b, e - 1)
    BY <1>3, <1>9 DEF PlacesBehind
  <2>2. begin # 0 /\ end # 0 /\ e + 1 # 0 /\ d + (e + 1) = end + 1 /\ e \in 1 .. m
    <3>1. b \in i .. m /\ e \in b + 1 .. m /\ begin = d + b /\ end = d + e
      BY <1>5, <1>9, <2>1
    <3>2. QED
      BY <1>1, <3>1
  <2>3. CASE s[end] = SEMICOLON
    <3>1. /\ AttributeAt(s, begin, end) = AttributeAt(t, b, e)
          /\ BehindAttribute(s, begin, end) = end + 1 /\ next = e + 1
      BY <1>9, <2>1, <2>2, <2>3, Zenon DEF AttributeAt, BehindAttribute
    <3> HIDE DEF next
    <3>2. BehindAttribute(s, begin, end) = IF next = 0 THEN 0 ELSE d + next
      BY <2>2, <3>1, Zenon
    <3>3. QED
      BY <1>6, <3>1, <3>2, Zenon DEF t, next
  <2>4. CASE s[end] # SEMICOLON /\ e = Len(t)
    <3>1. /\ AttributeAt(s, begin, end) = AttributeAt(t, b, e)
          /\ BehindAttribute(s, begin, end) = 0 /\ next = 0
      BY <1>9, <2>1, <2>2, <2>4, Zenon DEF AttributeAt, BehindAttribute
    <3>2. QED
      BY <1>6, <3>1, Zenon DEF t
  <2>5. CASE s[end] # SEMICOLON /\ e # Len(t)
    <3>1. e \in 1 .. m - 1
      BY <1>1, <1>2, <2>2, <2>5
    <3>2. ValuesBehind(s, t, d, e, end)
      BY <1>4, <2>1, <3>1
    <3>3. /\ stop = IF x = 0 THEN 0 ELSE d + x
          /\ From(s, ValueAt(s, end)) = From(t, ValueAt(t, e))
          /\ x # 0 => SubSeq(s, ValueAt(s, end), stop - 1) = SubSeq(t, ValueAt(t, e), x - 1)
      BY <3>2, Zenon DEF ValuesBehind
    <3>4. CASE x = 0
      <4>1. /\ AttributeAt(s, begin, end) = AttributeAt(t, b, e)
            /\ BehindAttribute(s, begin, end) = 0 /\ next = 0
        BY <1>9, <2>1, <2>2, <2>5, <3>3, <3>4, Zenon DEF AttributeAt, BehindAttribute
      <4>2. QED
        BY <1>6, <4>1, Zenon DEF t
    <3>5. CASE x # 0
      <4>1. stop # 0 /\ x + 1 # 0 /\ stop + 1 = d + (x + 1)
        <5>1. stop = d + x
          BY <3>3, <3>5
        <5> HIDE DEF stop, x
        <5>2. QED
          BY <1>1, <1>5, <1>9, <2>2, <3>5, <5>1, SMTT(30)
      <4>2. /\ AttributeAt(s, begin, end) = AttributeAt(t, b, e)
            /\ BehindAttribute(s, begin, end) = stop + 1 /\ next = x + 1
        BY <1>9, <2>1, <2>2, <2>5, <3>3, <3>5, <4>1, Zenon DEF AttributeAt, BehindAttribute
      <4> HIDE DEF next, stop, x
      <4>3. BehindAttribute(s, begin, end) = IF next = 0 THEN 0 ELSE d + next
        BY <4>1, <4>2, Zenon
      <4>4. QED
        BY <1>6, <4>2, <4>3, Zenon DEF t, next
    <3>6. QED
      BY <3>4, <3>5
  <2>6. QED
    BY <2>3, <2>4, <2>5
<1>10. QED
  BY <1>7, <1>8, <1>9

\* AttributesParse goes on behind what it has read.
LEMMA AttributesBehind ==
    ASSUME NEW s \in Seq(Int), NEW f, Walks(f, Len(s) + 1, Attributes(s), NextAttribute(s)),
           NEW d \in 0 .. Len(s)
    PROVE  f[d + 1] = AttributesParse(From(s, d + 1))
<1> DEFINE t == From(s, d + 1)
           m == Len(s) - d
           n == m + 1
           A == Attributes(s)
           nextA == NextAttribute(s)
           B == Attributes(t)
           nextB == NextAttribute(t)
<1>1. Len(s) \in Nat /\ d \in Nat /\ n \in Nat /\ d + n = Len(s) + 1 /\ 1 \in 1 .. n
  BY LenProperties
<1>2. t \in Seq(Int) /\ Len(t) = m
  BY FromIs
<1>3. GoesOn(n, nextB) /\ \E g : Walks(g, n, B, nextB) /\ AttributesParse(t) = g[1]
  <2> HIDE DEF t
  <2>1. QED
    BY <1>2, AttributesWalk
<1>4. PICK g : Walks(g, n, B, nextB) /\ AttributesParse(t) = g[1]
  BY <1>3
<1>5. \A i \in 1 .. n : A[d + i] = B[i] /\ nextA[d + i] = IF nextB[i] = 0 THEN 0 ELSE d + nextB[i]
  BY AttributeBehind
<1> HIDE DEF A, nextA, B, nextB, t
<1>6. Shifted(d, n, A, nextA, B, nextB)
  BY <1>5 DEF Shifted
<1>7. Walks(f, d + n, A, nextA)
  BY <1>1 DEF A, nextA
<1> HIDE DEF n
<1>8. f[d + 1] = g[1]
  BY <1>1, <1>3, <1>4, <1>6, <1>7, WalkShift
<1>9. QED
  BY <1>4, <1>8 DEF t

\* AttributesParse takes one attribute and goes on behind it.
LEMMA AttributesStep ==
    ASSUME NEW s \in Seq(Int)
    PROVE  LET a == AttributeAt(s, NameAt(s, 1), NameEnd(s, 1))
               next == BehindAttribute(s, NameAt(s, 1), NameEnd(s, 1))
           IN /\ next = 0 \/ next \in 2 .. Len(s) + 1
              /\ AttributesParse(s) = IF next = 0 THEN a ELSE a \o AttributesParse(From(s, next))
<1> DEFINE n == Len(s) + 1
           a == AttributeAt(s, NameAt(s, 1), NameEnd(s, 1))
           next == BehindAttribute(s, NameAt(s, 1), NameEnd(s, 1))
<1>1. n \in Nat /\ 1 \in 1 .. n /\ Len(s) \in Nat /\ 1 + 1 = 2
  BY LenProperties
<1>2. Attributes(s)[1] = a /\ NextAttribute(s)[1] = next
  BY <1>1, Zenon DEF Attributes, NextAttribute
<1> HIDE DEF a, next
<1>3. GoesOn(n, NextAttribute(s)) /\ \E f : Walks(f, n, Attributes(s), NextAttribute(s)) /\ AttributesParse(s) = f[1]
  BY AttributesWalk
<1>4. PICK f : Walks(f, n, Attributes(s), NextAttribute(s)) /\ AttributesParse(s) = f[1]
  BY <1>3
<1>5. next = 0 \/ next \in 2 .. n
  <2>1. next = 0 \/ next \in 1 + 1 .. n
    BY <1>1, <1>2, <1>3 DEF GoesOn
  <2>2. QED
    BY <1>1, <2>1
<1>6. f[1] = IF next = 0 THEN a ELSE a \o f[next]
  BY <1>1, <1>2, <1>4, Zenon DEF Walks
<1>7. ASSUME next # 0 PROVE f[next] = AttributesParse(From(s, next))
  <2>1. PICK d \in 0 .. Len(s) : d + 1 = next
    <3>1. next - 1 \in 0 .. Len(s) /\ (next - 1) + 1 = next
      BY <1>1, <1>5, <1>7
    <3>2. QED
      BY <3>1
  <2>2. f[d + 1] = AttributesParse(From(s, d + 1))
    BY <1>4, AttributesBehind
  <2>3. QED
    BY <2>1, <2>2
<1>8. QED
  BY <1>4, <1>5, <1>6, <1>7, Zenon DEF a, next, n

\* Blanks and semicolons before a name do not count.
LEMMA AttributesSkip ==
    ASSUME NEW s \in Seq(Int), NEW d \in 0 .. Len(s), \A j \in 1 .. d : s[j] \in {SP, SEMICOLON}
    PROVE  AttributesParse(s) = AttributesParse(From(s, d + 1))
<1> DEFINE n == Len(s) + 1
           C == Int \ {SP, SEMICOLON}
           b == Place(s, d + 1, C)
<1>1. /\ n \in Nat /\ 1 \in 1 .. n /\ Len(s) \in Nat /\ d + 1 \in 1 .. n
      /\ d + 1 \in Nat \ {0} /\ 1 \in Nat \ {0} /\ d \in Nat
  BY LenProperties
<1>2. \A j \in 1 .. d : s[j] \notin C
  OBVIOUS
<1> HIDE DEF C
<1>3. \/ b = 0 /\ \A j \in d + 1 .. Len(s) : s[j] \notin C
      \/ b \in d + 1 .. Len(s) /\ s[b] \in C /\ \A j \in d + 1 .. b - 1 : s[j] \notin C
  BY <1>1, PlaceIs
<1> HIDE DEF b
<1>4. Place(s, 1, C) = b
  <2>1. CASE b = 0
    <3>1. \A j \in 1 .. Len(s) : s[j] \notin C
      BY <1>1, <1>2, <1>3, <2>1
    <3>2. QED
      BY <1>1, <2>1, <3>1, PlaceAt
  <2>2. CASE b # 0
    <3>1. b \in 1 .. Len(s) /\ s[b] \in C /\ \A j \in 1 .. b - 1 : s[j] \notin C
      BY <1>1, <1>2, <1>3, <2>2
    <3>2. QED
      BY <1>1, <3>1, PlaceAt
  <2>3. QED
    BY <2>1, <2>2
<1>5. NameAt(s, d + 1) = NameAt(s, 1)
  BY <1>4 DEF NameAt, b, C
<1>6. NameEnd(s, d + 1) = NameEnd(s, 1)
  BY <1>5, Zenon DEF NameEnd
<1>7. Attributes(s)[d + 1] = Attributes(s)[1] /\ NextAttribute(s)[d + 1] = NextAttribute(s)[1]
  BY <1>1, <1>5, <1>6, Zenon DEF Attributes, NextAttribute
<1>8. PICK f : Walks(f, n, Attributes(s), NextAttribute(s)) /\ AttributesParse(s) = f[1]
  BY AttributesWalk
<1>9. f[d + 1] = f[1]
  <2>1. \A i \in 1 .. n : f[i] = IF NextAttribute(s)[i] = 0 THEN Attributes(s)[i]
                                 ELSE Attributes(s)[i] \o f[NextAttribute(s)[i]]
    BY <1>8, Zenon DEF Walks
  <2> DEFINE k == d + 1
  <2> HIDE DEF k, n
  <2>2. k \in 1 .. n /\ Attributes(s)[k] = Attributes(s)[1] /\ NextAttribute(s)[k] = NextAttribute(s)[1]
    BY <1>1, <1>7 DEF k
  <2>3. f[k] = f[1]
    BY <1>1, <2>1, <2>2, Zenon
  <2>4. QED
    BY <2>3 DEF k
<1>10. f[d + 1] = AttributesParse(From(s, d + 1))
  BY <1>8, AttributesBehind
<1>11. QED
  BY <1>8, <1>9, <1>10

\* The first place behind the first character.
LEMMA PlaceSecond ==
    ASSUME NEW s \in Seq(Int), NEW chars, 1 <= Len(s) => s[1] \notin chars
    PROVE  Place(s, 1 + 1, chars) = Place(s, 1, chars)
<1> DEFINE p == Place(s, 1, chars)
<1>1. Len(s) \in Nat /\ 1 \in Nat \ {0} /\ 2 \in Nat \ {0} /\ 1 + 1 = 2
  BY LenProperties
<1>2. \/ p = 0 /\ \A j \in 1 .. Len(s) : s[j] \notin chars
      \/ p \in 1 .. Len(s) /\ s[p] \in chars /\ \A j \in 1 .. p - 1 : s[j] \notin chars
  BY <1>1, PlaceIs
<1> HIDE DEF p
<1>3. CASE p = 0
  <2>1. \A j \in 2 .. Len(s) : s[j] \notin chars
    BY <1>1, <1>2, <1>3
  <2>2. Place(s, 2, chars) = 0
    BY <1>1, <2>1, PlaceAt
  <2>3. QED
    BY <1>1, <1>3, <2>2 DEF p
<1>4. CASE p # 0
  <2>1. p \in 2 .. Len(s) /\ s[p] \in chars /\ \A j \in 2 .. p - 1 : s[j] \notin chars
    BY <1>1, <1>2, <1>4
  <2>2. Place(s, 2, chars) = p
    BY <1>1, <2>1, PlaceAt
  <2>3. QED
    BY <1>1, <2>2 DEF p
<1>5. QED
  BY <1>3, <1>4

AttributeName == {n \in TextWithout({SEMICOLON, EQUALS}) : n # <<>> /\ n[1] # SP}

\* The name of an attribute, alone or before a semicolon or "=".
NameIs(s, name, c, t) ==
    /\ s \in Seq(Int) /\ Len(s) = Len(name) + 1 + Len(t)
    /\ NameAt(s, 1) = 1 /\ NameEnd(s, 1) = Len(name) + 1
    /\ s[Len(name) + 1] = c
    /\ SubSeq(s, 1, Len(name)) = name
    /\ From(s, Len(name) + 2) = t

\* A name is found, whether anything follows it or not.
LEMMA NameFound ==
    ASSUME NEW name \in AttributeName
    PROVE  /\ NameAt(name, 1) = 1 /\ NameEnd(name, 1) = 0 /\ From(name, 1) = name
           /\ \A t \in Seq(Int) : \A c \in {SEMICOLON, EQUALS} : NameIs(name \o <<c>> \o t, name, c, t)
<1> DEFINE C == {SEMICOLON, EQUALS}
           B == Int \ {SP, SEMICOLON}
           n == Len(name)
<1>1. /\ name \in Seq(Int) /\ n \in Nat /\ n # 0 /\ \A i \in 1 .. n : name[i] \notin C /\ name[i] \in Int
  BY LenProperties, EmptySeq, ElementOfSeq DEF AttributeName, TextWithout
<1>2. name[1] \in B /\ name[1] \notin C
  <2>1. 1 \in 1 .. n
    BY <1>1
  <2>2. QED
    BY <1>1, <2>1 DEF AttributeName
<1>3. \A c \in C : c \in Int
  BY DEF SEMICOLON, EQUALS
<1> HIDE DEF C, B
<1>4. ASSUME NEW s \in Seq(Int), Len(s) # 0, s[1] \in B, s[1] \notin C
      PROVE  NameAt(s, 1) = 1 /\ NameEnd(s, 1) = Place(s, 1, C)
  <2>1. Len(s) \in Nat /\ 1 \in 1 .. Len(s) /\ 1 \in Nat \ {0}
    BY <1>4, LenProperties
  <2>2. \A j \in 1 .. 1 - 1 : s[j] \notin B
    OBVIOUS
  <2>3. Place(s, 1, B) = 1
    BY <1>4, <2>1, <2>2, PlaceAt
  <2>4. NameAt(s, 1) = 1
    BY <2>3 DEF NameAt, B
  <2>5. Place(s, 1 + 1, C) = Place(s, 1, C)
    BY <1>4, PlaceSecond
  <2>6. QED
    BY <2>4, <2>5, Zenon DEF NameEnd, C
<1>5. NameAt(name, 1) = 1 /\ NameEnd(name, 1) = 0 /\ From(name, 1) = name
  <2>1. Place(name, 1, C) = 0
    BY <1>1, PlaceAt
  <2>2. NameAt(name, 1) = 1 /\ NameEnd(name, 1) = Place(name, 1, C)
    BY <1>1, <1>2, <1>4
  <2>3. From(name, 1) = name
    BY <1>1, FromParts
  <2>4. QED
    BY <2>1, <2>2, <2>3
<1>6. ASSUME NEW t \in Seq(Int), NEW c \in C PROVE NameIs(name \o <<c>> \o t, name, c, t)
  <2> DEFINE s == name \o <<c>> \o t
  <2>1. IsBetween(s, name, c, t)
    BY <1>1, <1>3, BetweenTexts
  <2>2. s[n + 1] = c
    BY <1>1, <1>3, Between
  <2>3. Place(s, 1, C) = n + 1
    BY <1>1, <1>3, PlaceBetween
  <2> HIDE DEF s
  <2>4. s \in Seq(Int) /\ Len(s) = n + 1 + Len(t) /\ SubSeq(s, 1, n) = name /\ From(s, n + 2) = t
    BY <2>1 DEF IsBetween
  <2>5. n \in 0 .. Len(s) /\ 1 \in 1 .. n /\ Len(s) # 0
    <3>1. Len(t) \in Nat
      BY LenProperties
    <3> HIDE DEF n
    <3>2. QED
      BY <1>1, <2>4, <3>1
  <2>6. s[1] = name[1]
    <3>1. \A i \in 1 .. n : SubSeq(s, 1, n)[i] = s[i]
      BY <2>4, <2>5, FrontIs
    <3>2. QED
      BY <2>4, <2>5, <3>1
  <2>7. NameAt(s, 1) = 1 /\ NameEnd(s, 1) = Place(s, 1, C)
    BY <1>2, <1>4, <2>4, <2>5, <2>6
  <2>8. NameIs(s, name, c, t)
    BY <2>2, <2>3, <2>4, <2>7, Zenon DEF NameIs
  <2>9. QED
    BY <2>8 DEF s
<1>7. QED
  BY <1>5, <1>6 DEF C

\* A name alone, and a name before a semicolon.
LEMMA NameReads ==
    ASSUME NEW name \in AttributeName
    PROVE  /\ AttributesParse(name) = <<Field(name, <<>>)>>
           /\ \A t \in Seq(Int) :
                AttributesParse(name \o <<SEMICOLON>> \o t) = <<Field(name, <<>>)>> \o AttributesParse(t)
<1> DEFINE n == Len(name)
<1>1. name \in Seq(Int) /\ n \in Nat
  BY LenProperties DEF AttributeName, TextWithout
<1>2. AttributesParse(name) = <<Field(name, <<>>)>>
  <2>1. NameAt(name, 1) = 1 /\ NameEnd(name, 1) = 0 /\ From(name, 1) = name
    BY NameFound
  <2>2. /\ AttributeAt(name, NameAt(name, 1), NameEnd(name, 1)) = <<Field(name, <<>>)>>
        /\ BehindAttribute(name, NameAt(name, 1), NameEnd(name, 1)) = 0
    <3>1. 1 # 0
      OBVIOUS
    <3>2. QED
      BY <2>1, <3>1, Zenon DEF AttributeAt, BehindAttribute
  <2>3. QED
    BY <1>1, <2>2, AttributesStep
<1>3. ASSUME NEW t \in Seq(Int)
      PROVE  AttributesParse(name \o <<SEMICOLON>> \o t) = <<Field(name, <<>>)>> \o AttributesParse(t)
  <2> DEFINE s == name \o <<SEMICOLON>> \o t
             e == NameEnd(s, 1)
  <2>1. NameIs(s, name, SEMICOLON, t)
    BY NameFound
  <2> HIDE DEF s
  <2>2. /\ s \in Seq(Int) /\ NameAt(s, 1) = 1 /\ e = n + 1 /\ s[e] = SEMICOLON
        /\ SubSeq(s, 1, n) = name /\ From(s, n + 2) = t
    BY <2>1 DEF NameIs
  <2> HIDE DEF e, n
  <2>3. 1 # 0 /\ e # 0 /\ e - 1 = n /\ e + 1 = n + 2 /\ n + 2 # 0
    BY <1>1, <2>2
  <2>4. AttributeAt(s, 1, e) = <<Field(name, <<>>)>> /\ BehindAttribute(s, 1, e) = n + 2
    BY <2>2, <2>3, Zenon DEF AttributeAt, BehindAttribute
  <2>5. AttributesParse(s) = AttributeAt(s, 1, e) \o AttributesParse(From(s, n + 2))
    <3>1. AttributesParse(s) =
            IF BehindAttribute(s, NameAt(s, 1), NameEnd(s, 1)) = 0
            THEN AttributeAt(s, NameAt(s, 1), NameEnd(s, 1))
            ELSE AttributeAt(s, NameAt(s, 1), NameEnd(s, 1))
                   \o AttributesParse(From(s, BehindAttribute(s, NameAt(s, 1), NameEnd(s, 1))))
      BY <2>2, AttributesStep
    <3>2. QED
      BY <2>2, <2>3, <2>4, <3>1, Zenon DEF e
  <2>6. QED
    BY <2>2, <2>4, <2>5, Zenon DEF s
<1>4. QED
  BY <1>2, <1>3

\* A name and what follows "=": a value up to the first quote or semicolon that
\* is not its first character.
ValueIn(u) == Len(u) > 1 /\ u[1] = QUOTE
FirstIn(u) == IF ValueIn(u) THEN 2 ELSE 1
EndIn(u) == Place(u, 1 + 1, {QUOTE, SEMICOLON})

\* AttributesParse of a name, "=" and a value.
LEMMA ValueReads ==
    ASSUME NEW name \in AttributeName, NEW u \in Seq(Int), u # <<>>
    PROVE  AttributesParse(name \o <<EQUALS>> \o u) =
             IF EndIn(u) = 0 THEN <<Field(name, Decode(From(u, FirstIn(u))))>>
             ELSE <<Field(name, Decode(SubSeq(u, FirstIn(u), EndIn(u) - 1)))>>
                    \o AttributesParse(From(u, EndIn(u) + 1))
<1> DEFINE n == Len(name)
           m == Len(u)
           s == name \o <<EQUALS>> \o u
           p == Len(s)
           e == NameEnd(s, 1)
           y == EndIn(u)
           i == FirstIn(u)
           stop == ValueEnd(s, e)
           v == ValueAt(s, e)
<1>1. name \in Seq(Int) /\ n \in Nat /\ m \in Nat /\ m # 0
  BY LenProperties, EmptySeq DEF AttributeName, TextWithout
<1>2. NameIs(s, name, EQUALS, u)
  BY NameFound
<1> HIDE DEF s
<1>3. /\ s \in Seq(Int) /\ p = n + 1 + m /\ NameAt(s, 1) = 1 /\ e = n + 1 /\ s[e] = EQUALS
      /\ SubSeq(s, 1, n) = name /\ From(s, n + 2) = u
  BY <1>2 DEF NameIs
<1> HIDE DEF n, m, p, e
<1>4. PICK d \in 0 .. Len(s) : d = n + 1
  BY <1>1, <1>3 DEF p
<1>5. e = d /\ e # 0 /\ e # p /\ d + m = p /\ e - 1 = n /\ d \in Nat /\ From(s, d + 1) = u
  BY <1>1, <1>3, <1>4
<1>6. \A chars : \A k \in 1 .. Len(s) - d + 1 :
        Place(s, d + k, chars) = IF Place(u, k, chars) = 0 THEN 0 ELSE d + Place(u, k, chars)
  BY <1>3, <1>5, PlaceBehind
<1>7. \A k \in Nat \ {0} : \A j \in Nat : j <= Len(s) - d =>
        /\ SubSeq(s, d + k, d + j) = SubSeq(u, k, j)
        /\ k <= Len(s) - d + 1 => From(s, d + k) = From(u, k)
  <2> DEFINE w == From(s, d + 1)
  <2>0. s \in Seq(Int)
    BY <1>3
  <2>1. ASSUME NEW k \in Nat \ {0}, NEW j \in Nat, j <= Len(s) - d
        PROVE  /\ SubSeq(s, d + k, d + j) = SubSeq(w, k, j)
               /\ k <= Len(s) - d + 1 => From(s, d + k) = From(w, k)
    BY <2>0, <2>1, BetweenBehind, SMTT(30)
  <2>2. w = u
    BY <1>5
  <2> HIDE DEF w
  <2>3. QED
    BY <2>1, <2>2, Zenon
<1>8. stop = IF y = 0 THEN 0 ELSE d + y
  <2>1. PICK k \in 1 .. Len(s) - d + 1 : k = 1 + 1
    BY <1>1, <1>5 DEF p
  <2>2. e + 2 = d + k
    BY <1>5, <2>1
  <2>3. stop = Place(s, d + k, {QUOTE, SEMICOLON}) /\ y = Place(u, k, {QUOTE, SEMICOLON})
    BY <2>1, <2>2, Zenon DEF ValueEnd, EndIn
  <2>4. QED
    BY <1>6, <2>3, Zenon
<1>9. y = 0 \/ y \in 2 .. m
  <2>1. PICK k \in Nat \ {0} : k = 1 + 1
    OBVIOUS
  <2>2. y = Place(u, k, {QUOTE, SEMICOLON})
    BY <2>1, Zenon DEF EndIn
  <2> HIDE DEF y
  <2>3. y = 0 \/ y \in k .. Len(u)
    BY <2>2, PlaceIs
  <2>4. QED
    BY <2>1, <2>3 DEF m
<1>10. v = d + i /\ i \in Nat \ {0} /\ i <= m
  <2>1. u[1] = s[e + 1]
    <3>1. \A j \in 1 .. Len(s) - d : From(s, d + 1)[j] = s[d + j]
      BY <1>3, FromIs
    <3>2. 1 \in 1 .. Len(s) - d
      BY <1>1, <1>5 DEF p
    <3>3. QED
      BY <1>5, <3>1, <3>2
  <2>2. e + 1 < Len(s) <=> Len(u) > 1
    <3>1. e + 1 < p <=> m > 1
      BY <1>1, <1>5
    <3>2. QED
      BY <3>1 DEF p, m
  <2>3. IsQuoted(s, e) <=> ValueIn(u)
    BY <2>1, <2>2, Zenon DEF IsQuoted, ValueIn
  <2>4. CASE ValueIn(u)
    <3>1. v = e + 2 /\ i = 2
      BY <2>3, <2>4 DEF ValueAt, FirstIn
    <3>2. m > 1
      BY <2>4 DEF ValueIn, m
    <3> HIDE DEF v, i
    <3>3. QED
      BY <1>1, <1>5, <3>1, <3>2
  <2>5. CASE ~ValueIn(u)
    <3>1. v = e + 1 /\ i = 1
      BY <2>3, <2>5 DEF ValueAt, FirstIn
    <3> HIDE DEF v, i
    <3>2. QED
      BY <1>1, <1>5, <3>1
  <2>6. QED
    BY <2>4, <2>5
<1> HIDE DEF y, i, stop, v
<1>11. AttributesParse(s) =
         IF BehindAttribute(s, 1, e) = 0 THEN AttributeAt(s, 1, e)
         ELSE AttributeAt(s, 1, e) \o AttributesParse(From(s, BehindAttribute(s, 1, e)))
  <2>1. AttributesParse(s) =
          IF BehindAttribute(s, NameAt(s, 1), NameEnd(s, 1)) = 0
          THEN AttributeAt(s, NameAt(s, 1), NameEnd(s, 1))
          ELSE AttributeAt(s, NameAt(s, 1), NameEnd(s, 1))
                 \o AttributesParse(From(s, BehindAttribute(s, NameAt(s, 1), NameEnd(s, 1))))
    BY <1>3, AttributesStep
  <2>2. QED
    BY <1>3, <2>1, Zenon DEF e
<1>12. 1 # 0 /\ EQUALS # SEMICOLON /\ e # Len(s) /\ SubSeq(s, 1, e - 1) = name /\ s[e] # SEMICOLON
  BY <1>3, <1>5 DEF p, EQUALS, SEMICOLON
<1>13. CASE y = 0
  <2>1. stop = 0 /\ From(s, v) = From(u, i)
    <3>1. 0 \in Nat /\ 0 <= Len(s) - d /\ i <= Len(s) - d + 1
      BY <1>1, <1>5, <1>10 DEF p
    <3>2. QED
      BY <1>7, <1>8, <1>10, <1>13, <3>1
  <2>2. AttributeAt(s, 1, e) = <<Field(name, Decode(From(u, i)))>> /\ BehindAttribute(s, 1, e) = 0
    BY <1>5, <1>12, <2>1, Zenon DEF AttributeAt, BehindAttribute, stop, v
  <2>3. QED
    BY <1>11, <1>13, <2>2, Zenon DEF s, y, i
<1>14. CASE y # 0
  <2>1. /\ stop = d + y /\ stop # 0 /\ stop + 1 # 0 /\ SubSeq(s, v, stop - 1) = SubSeq(u, i, y - 1)
        /\ From(s, stop + 1) = From(u, y + 1)
    <3>1. stop = d + y /\ y \in 2 .. m
      BY <1>8, <1>9, <1>14
    <3>2. stop # 0 /\ stop + 1 # 0 /\ stop + 1 = d + (y + 1)
      BY <1>1, <1>5, <3>1
    <3>3. PICK j \in Nat : j = y - 1
      BY <1>1, <3>1
    <3>4. PICK k \in Nat \ {0} : k = y + 1
      BY <1>1, <3>1
    <3>5. j <= Len(s) - d /\ stop - 1 = d + j /\ k <= Len(s) - d + 1
      BY <1>1, <1>5, <3>1, <3>3, <3>4 DEF p
    <3>6. SubSeq(s, d + i, d + j) = SubSeq(u, i, j) /\ From(s, d + k) = From(u, k)
      BY <1>7, <1>10, <3>5
    <3>7. QED
      BY <1>10, <3>1, <3>2, <3>3, <3>4, <3>5, <3>6
  <2>2. /\ AttributeAt(s, 1, e) = <<Field(name, Decode(SubSeq(u, i, y - 1)))>>
        /\ BehindAttribute(s, 1, e) = stop + 1
    BY <1>5, <1>12, <2>1, Zenon DEF AttributeAt, BehindAttribute, stop, v
  <2>3. QED
    BY <1>11, <1>14, <2>1, <2>2, Zenon DEF s, y, i
<1>15. QED
  BY <1>13, <1>14

\* A value, up to the end or a semicolon, or between two quotes.
LEMMA ValueForms ==
    ASSUME NEW name \in AttributeName, NEW v \in TextWithout({LF, PERCENT, PLUS, QUOTE, SEMICOLON}), v # <<>>
    PROVE  /\ AttributesParse(name \o <<EQUALS>> \o v) = <<Field(name, v)>>
           /\ \A t \in Seq(Int) :
                AttributesParse(name \o <<EQUALS>> \o (v \o <<SEMICOLON>> \o t))
                  = <<Field(name, v)>> \o AttributesParse(t)
           /\ \A t \in Seq(Int) :
                AttributesParse(name \o <<EQUALS>> \o (<<QUOTE>> \o (v \o <<QUOTE>> \o t)))
                  = <<Field(name, v)>> \o AttributesParse(t)
<1> DEFINE n == Len(v)
           C == {QUOTE, SEMICOLON}
<1>1. /\ v \in Seq(Int) /\ n \in Nat /\ n # 0 /\ 1 \in 1 .. n
      /\ \A i \in 1 .. n : v[i] \notin C /\ v[i] # PERCENT /\ v[i] # PLUS
  <2>1. v \in Seq(Int) /\ \A i \in 1 .. n : v[i] \notin C /\ v[i] # PERCENT /\ v[i] # PLUS
    BY DEF TextWithout
  <2>2. n \in Nat /\ n # 0
    BY <2>1, LenProperties, EmptySeq
  <2>3. QED
    BY <2>1, <2>2
<1>2. Decode(v) = v
  BY <1>1, DecodePlain
<1>3. QUOTE \in C /\ SEMICOLON \in C /\ QUOTE \in Int /\ SEMICOLON \in Int /\ 1 # 0
  BY DEF QUOTE, SEMICOLON
<1>4. v[1] \notin C /\ v[1] # QUOTE
  BY <1>1
<1> HIDE DEF C
<1>5. AttributesParse(name \o <<EQUALS>> \o v) = <<Field(name, v)>>
  <2>1. Place(v, 1 + 1, C) = 0
    <3>1. Place(v, 1, C) = 0
      BY <1>1, PlaceAt
    <3>2. Place(v, 1 + 1, C) = Place(v, 1, C)
      BY <1>1, <1>4, PlaceSecond
    <3>3. QED
      BY <3>1, <3>2
  <2>2. EndIn(v) = 0 /\ FirstIn(v) = 1
    BY <1>4, <2>1 DEF EndIn, FirstIn, ValueIn, C
  <2>3. From(v, 1) = v
    BY <1>1, FromParts
  <2>4. AttributesParse(name \o <<EQUALS>> \o v) =
          IF EndIn(v) = 0 THEN <<Field(name, Decode(From(v, FirstIn(v))))>>
          ELSE <<Field(name, Decode(SubSeq(v, FirstIn(v), EndIn(v) - 1)))>>
                 \o AttributesParse(From(v, EndIn(v) + 1))
    BY <1>1, ValueReads
  <2>5. QED
    BY <1>2, <2>2, <2>3, <2>4, Zenon
<1>6. ASSUME NEW c \in C, NEW t \in Seq(Int)
      PROVE  LET w == v \o <<c>> \o t
             IN /\ w \in Seq(Int) /\ Len(w) > 1 /\ w # <<>> /\ w[1] = v[1]
                /\ Place(w, 1, C) = n + 1
                /\ SubSeq(w, 1, n) = v /\ From(w, n + 2) = t /\ n <= Len(w) - 1 /\ n + 2 <= Len(w) + 1
  <2> DEFINE w == v \o <<c>> \o t
             p == Len(w)
  <2>1. c \in Int
    BY <1>3 DEF C
  <2>2. IsBetween(w, v, c, t)
    BY <1>1, <2>1, BetweenTexts
  <2>3. Place(w, 1, C) = n + 1
    BY <1>1, <2>1, PlaceBetween
  <2> HIDE DEF w
  <2>4. w \in Seq(Int) /\ p = n + 1 + Len(t) /\ SubSeq(w, 1, n) = v /\ From(w, n + 2) = t
    BY <2>2 DEF IsBetween
  <2>5. p > 1 /\ n <= p - 1 /\ n + 2 <= p + 1 /\ n \in 0 .. p
    <3>1. Len(t) \in Nat
      BY LenProperties
    <3> HIDE DEF n, p
    <3>2. QED
      BY <1>1, <2>4, <3>1
  <2>6. w # <<>>
    BY <2>5
  <2>7. w[1] = v[1]
    <3>1. \A i \in 1 .. n : SubSeq(w, 1, n)[i] = w[i]
      BY <2>4, <2>5, FrontIs
    <3>2. QED
      BY <1>1, <2>4, <3>1
  <2>8. QED
    BY <2>3, <2>4, <2>5, <2>6, <2>7 DEF w
<1>7. ASSUME NEW t \in Seq(Int)
      PROVE  AttributesParse(name \o <<EQUALS>> \o (v \o <<SEMICOLON>> \o t))
               = <<Field(name, v)>> \o AttributesParse(t)
  <2> DEFINE u == v \o <<SEMICOLON>> \o t
  <2>1. /\ u \in Seq(Int) /\ u # <<>> /\ u[1] = v[1] /\ Place(u, 1, C) = n + 1
        /\ SubSeq(u, 1, n) = v /\ From(u, n + 2) = t
    BY <1>3, <1>6
  <2> HIDE DEF u, n
  <2>2. Place(u, 1 + 1, C) = n + 1
    <3>1. Place(u, 1 + 1, C) = Place(u, 1, C)
      BY <1>4, <2>1, PlaceSecond
    <3>2. QED
      BY <2>1, <3>1
  <2>3. EndIn(u) = n + 1 /\ FirstIn(u) = 1
    BY <1>4, <2>1, <2>2 DEF EndIn, FirstIn, ValueIn, C
  <2>4. n + 1 # 0 /\ (n + 1) - 1 = n /\ (n + 1) + 1 = n + 2
    BY <1>1
  <2>5. AttributesParse(name \o <<EQUALS>> \o u) =
          IF EndIn(u) = 0 THEN <<Field(name, Decode(From(u, FirstIn(u))))>>
          ELSE <<Field(name, Decode(SubSeq(u, FirstIn(u), EndIn(u) - 1)))>>
                 \o AttributesParse(From(u, EndIn(u) + 1))
    BY <2>1, ValueReads
  <2>6. AttributesParse(name \o <<EQUALS>> \o u) = <<Field(name, v)>> \o AttributesParse(t)
    BY <1>2, <2>1, <2>3, <2>4, <2>5, Zenon
  <2>7. QED
    BY <2>6 DEF u
<1>8. ASSUME NEW t \in Seq(Int)
      PROVE  AttributesParse(name \o <<EQUALS>> \o (<<QUOTE>> \o (v \o <<QUOTE>> \o t)))
               = <<Field(name, v)>> \o AttributesParse(t)
  <2> DEFINE w == v \o <<QUOTE>> \o t
             q == <<QUOTE>>
             u == q \o w
             m == Len(w)
             p == Len(u)
  <2>1. /\ w \in Seq(Int) /\ Place(w, 1, C) = n + 1
        /\ SubSeq(w, 1, n) = v /\ From(w, n + 2) = t
        /\ m > 1 /\ n <= m - 1 /\ n + 2 <= m + 1
    BY <1>3, <1>6
  <2> HIDE DEF w
  <2>2. q \in Seq(Int) /\ Len(q) = 1 /\ q[1] = QUOTE /\ 1 \in 1 .. 1
    BY <1>3
  <2> HIDE DEF q
  <2>3. u \in Seq(Int) /\ p = 1 + m /\ u[1] = QUOTE /\ From(u, 1 + 1) = w
    <3>1. /\ u \in Seq(Int) /\ Len(u) = Len(q) + Len(w) /\ \A i \in 1 .. Len(q) : u[i] = q[i]
      BY <2>1, <2>2, Parts
    <3>2. From(u, Len(q) + 1) = w
      BY <2>1, <2>2, CutAt
    <3> HIDE DEF u
    <3>3. QED
      BY <2>2, <3>1, <3>2
  <2> HIDE DEF u, m, p, n
  <2>4. m \in Nat /\ p > 1 /\ p - 1 = m
    BY <2>1, <2>3, LenProperties DEF m
  <2>5. PICK d \in 0 .. Len(u) : d = 1
    BY <2>4 DEF p
  <2>6. Place(u, 1 + 1, C) = n + 2
    <3>1. PICK k \in 1 .. Len(u) - d + 1 : k = 1
      BY <2>4, <2>5 DEF p
    <3>2. Place(u, d + k, C) = IF Place(From(u, d + 1), k, C) = 0 THEN 0 ELSE d + Place(From(u, d + 1), k, C)
      BY <2>3, PlaceBehind
    <3>3. Place(u, 1 + 1, C) = IF n + 1 = 0 THEN 0 ELSE 1 + (n + 1)
      BY <2>1, <2>3, <2>5, <3>1, <3>2
    <3>4. QED
      BY <1>1, <3>3
  <2>7. SubSeq(u, 2, n + 1) = v /\ From(u, n + 3) = t
    <3>1. PICK i \in Nat \ {0} : i = 1
      OBVIOUS
    <3>2. PICK k \in Nat \ {0} : k = n + 2
      BY <1>1
    <3>3. /\ n \in Nat /\ n <= Len(u) - d /\ k <= Len(u) - d + 1
          /\ d + i = 2 /\ d + n = n + 1 /\ d + k = n + 3
      BY <1>1, <2>1, <2>4, <2>5, <3>1, <3>2 DEF p
    <3>4. SubSeq(u, d + i, d + n) = SubSeq(From(u, d + 1), i, n)
      <4>1. u \in Seq(Int)
        BY <2>3
      <4>2. \A j \in Nat : j <= Len(u) - d => SubSeq(u, d + i, d + j) = SubSeq(From(u, d + 1), i, j)
        BY <4>1, BetweenBehind
      <4>3. QED
        BY <3>3, <4>2
    <3>5. From(u, d + k) = From(From(u, d + 1), k)
      BY <2>3, <3>3, BetweenBehind
    <3>6. From(u, d + 1) = w
      BY <2>3, <2>5
    <3>7. QED
      BY <2>1, <3>1, <3>2, <3>3, <3>4, <3>5, <3>6
  <2>8. EndIn(u) = n + 2 /\ FirstIn(u) = 2 /\ u # <<>>
    <3>1. EndIn(u) = n + 2
      BY <2>6, Zenon DEF EndIn, C
    <3>2. FirstIn(u) = 2 /\ u # <<>>
      BY <2>3, <2>4 DEF FirstIn, ValueIn, p
    <3>3. QED
      BY <3>1, <3>2
  <2>9. n + 2 # 0 /\ (n + 2) - 1 = n + 1 /\ (n + 2) + 1 = n + 3
    BY <1>1
  <2>10. AttributesParse(name \o <<EQUALS>> \o u) =
          IF EndIn(u) = 0 THEN <<Field(name, Decode(From(u, FirstIn(u))))>>
          ELSE <<Field(name, Decode(SubSeq(u, FirstIn(u), EndIn(u) - 1)))>>
                 \o AttributesParse(From(u, EndIn(u) + 1))
    BY <2>3, <2>8, ValueReads
  <2>11. AttributesParse(name \o <<EQUALS>> \o u) = <<Field(name, v)>> \o AttributesParse(t)
    BY <1>2, <2>7, <2>8, <2>9, <2>10, Zenon
  <2>12. QED
    BY <2>11 DEF u, q, w
<1>9. QED
  BY <1>5, <1>7, <1>8

\* Nothing is read as no attribute, and a blank or a semicolon before a name
\* does not count.
LEMMA NothingRead == AttributesParse(<<>>) = <<>>
<1> DEFINE s == <<>>
<1>1. s \in Seq(Int) /\ Len(s) = 0
  OBVIOUS
<1> HIDE DEF s
<1>2. PICK i \in 1 .. Len(s) + 1 : i = 1
  BY <1>1
<1>3. NameAt(s, 1) = 0
  <2>1. NameAt(s, i) = 0 \/ NameAt(s, i) \in i .. Len(s)
    BY <1>1, AttributePlaces
  <2>2. QED
    BY <1>1, <1>2, <2>1
<1>4. /\ AttributeAt(s, NameAt(s, 1), NameEnd(s, 1)) = <<>>
      /\ BehindAttribute(s, NameAt(s, 1), NameEnd(s, 1)) = 0
  BY <1>3, Zenon DEF AttributeAt, BehindAttribute
<1>5. AttributesParse(s) = <<>>
  BY <1>1, <1>4, AttributesStep
<1>6. QED
  BY <1>5 DEF s

\* One blank or semicolon does not count.
LEMMA SkipOne ==
    ASSUME NEW c \in {SP, SEMICOLON}, NEW t \in Seq(Int)
    PROVE  AttributesParse(<<c>> \o t) = AttributesParse(t) /\ <<c>> \o t \in Seq(Int)
<1> DEFINE q == <<c>>
           s == q \o t
<1>1. q \in Seq(Int) /\ Len(q) = 1 /\ q[1] = c /\ 1 \in 1 .. 1
  BY DEF SP, SEMICOLON
<1> HIDE DEF q
<1>2. /\ s \in Seq(Int) /\ Len(s) = Len(q) + Len(t) /\ \A i \in 1 .. Len(q) : s[i] = q[i]
  BY <1>1, Parts
<1>3. From(s, Len(q) + 1) = t
  BY <1>1, CutAt
<1> HIDE DEF s
<1>4. Len(t) \in Nat
  BY LenProperties
<1>5. 1 \in 0 .. Len(s) /\ s[1] = c /\ From(s, 1 + 1) = t
  BY <1>1, <1>2, <1>3, <1>4
<1>6. PICK d \in 0 .. Len(s) : d = 1
  BY <1>5
<1>7. \A j \in 1 .. d : s[j] \in {SP, SEMICOLON}
  BY <1>5, <1>6
<1>8. AttributesParse(s) = AttributesParse(From(s, d + 1))
  BY <1>2, <1>7, AttributesSkip
<1>9. QED
  BY <1>2, <1>5, <1>6, <1>8 DEF s, q

-----------------------------------------------------------------------------
(* Attributes that are written                                            *)

AttributeField ==
    [name : {n \in TextWithout({LF, SEMICOLON, EQUALS}) : n # <<>> /\ n[1] # SP},
     value : TextWithout({LF, PERCENT, PLUS, QUOTE, SEMICOLON})]

\* What is written of an attribute.
AttributePiece(a) ==
    a.name \o (IF a.value = <<>> THEN <<>>
               ELSE IF sample.quoted THEN <<EQUALS, QUOTE>> \o a.value \o <<QUOTE>>
               ELSE <<EQUALS>> \o a.value)

\* The characters that are written between names and values.
LEMMA AttributeMarks ==
    /\ <<EQUALS>> \o <<QUOTE>> = <<EQUALS, QUOTE>>
    /\ <<SEMICOLON>> \o <<SP>> = <<SEMICOLON, SP>>
    /\ <<EQUALS>> \in TextWithout({LF}) /\ <<QUOTE>> \in TextWithout({LF})
    /\ <<SEMICOLON>> \in TextWithout({LF}) /\ <<SP>> \in TextWithout({LF})
<1>1. /\ EQUALS \in Int \ {LF} /\ QUOTE \in Int \ {LF} /\ SEMICOLON \in Int \ {LF} /\ SP \in Int \ {LF}
  BY DEF EQUALS, QUOTE, SEMICOLON, SP, LF
<1>2. EQUALS \in Int /\ QUOTE \in Int /\ SEMICOLON \in Int /\ SP \in Int
  BY <1>1
<1>3. <<EQUALS>> \o <<QUOTE>> = <<EQUALS, QUOTE>>
  BY <1>2, Pair
<1>4. <<SEMICOLON>> \o <<SP>> = <<SEMICOLON, SP>>
  BY <1>2, Pair
<1>5. <<EQUALS>> \in TextWithout({LF}) /\ <<QUOTE>> \in TextWithout({LF})
  BY <1>1, WithoutOne
<1>6. <<SEMICOLON>> \in TextWithout({LF}) /\ <<SP>> \in TextWithout({LF})
  BY <1>1, WithoutOne
<1>7. QED
  BY <1>3, <1>4, <1>5, <1>6

\* A piece is read as its attribute, at the end or before a semicolon.
LEMMA AttributePieceReads ==
    ASSUME NEW a \in AttributeField
    PROVE  /\ AttributePiece(a) \in TextWithout({LF})
           /\ AttributesParse(AttributePiece(a)) = <<a>>
           /\ \A t \in Seq(Int) :
                AttributesParse(AttributePiece(a) \o (<<SEMICOLON>> \o t)) = <<a>> \o AttributesParse(t)
<1> DEFINE x == a.name
           v == a.value
           y == <<EQUALS>>
           b == <<QUOTE>>
           z == <<SEMICOLON>>
           C == {LF}
           p == AttributePiece(a)
<1>1. /\ x \in TextWithout({LF, SEMICOLON, EQUALS}) /\ x # <<>> /\ x[1] # SP
      /\ v \in TextWithout({LF, PERCENT, PLUS, QUOTE, SEMICOLON})
      /\ Field(x, v) = a
  BY DEF AttributeField, Field
<1>2. /\ y \in TextWithout(C) /\ b \in TextWithout(C) /\ z \in TextWithout(C)
      /\ y \o b = <<EQUALS, QUOTE>>
  BY AttributeMarks
<1> HIDE DEF x, v, y, b, z, C, p
<1>3. x \in TextWithout(C) /\ v \in TextWithout(C) /\ x \in AttributeName
  <2>1. x \in TextWithout({SEMICOLON, EQUALS})
    BY <1>1, WithoutFewer
  <2>2. x \in TextWithout(C) /\ v \in TextWithout(C)
    BY <1>1, WithoutFewer DEF C
  <2>3. QED
    BY <1>1, <2>1, <2>2 DEF AttributeName
<1>4. x \in Seq(Int) /\ v \in Seq(Int) /\ y \in Seq(Int) /\ b \in Seq(Int) /\ z \in Seq(Int)
  BY <1>2, <1>3 DEF TextWithout
<1>5. CASE v = <<>>
  <2>1. p = x
    <3>1. x \o <<>> = x
      BY <1>4, ConcatSimplifications
    <3>2. QED
      BY <1>5, <3>1, Zenon DEF AttributePiece, p, x, v
  <2>2. AttributesParse(x) = <<Field(x, <<>>)>>
    BY <1>3, NameReads
  <2>3. ASSUME NEW t \in Seq(Int) PROVE AttributesParse(p \o (z \o t)) = <<a>> \o AttributesParse(t)
    <3>1. AttributesParse(x \o z \o t) = <<Field(x, <<>>)>> \o AttributesParse(t)
      BY <1>3, NameReads DEF z
    <3>2. Regroups(x, z, t)
      BY <1>4, Regroup
    <3>3. QED
      BY <1>1, <1>5, <2>1, <3>1, <3>2, Zenon DEF Regroups
  <2>4. QED
    BY <1>1, <1>3, <1>5, <2>1, <2>2, <2>3, Zenon DEF p, z, C
<1>6. CASE v # <<>> /\ ~sample.quoted
  <2> DEFINE X == x \o y
  <2>1. p = x \o (y \o v)
    BY <1>6, Zenon DEF AttributePiece, p, x, v, y
  <2>2. X \in Seq(Int) /\ Regroups(x, y, v)
    BY <1>4, Regroup
  <2>3. p = X \o v
    BY <2>1, <2>2, Zenon DEF Regroups
  <2>4. p \in TextWithout(C)
    <3>1. X \in TextWithout(C)
      BY <1>2, <1>3, WithoutConcat
    <3> HIDE DEF X
    <3>2. QED
      BY <1>3, <2>3, <3>1, WithoutConcat
  <2>5. AttributesParse(x \o y \o v) = <<Field(x, v)>>
    BY <1>1, <1>3, <1>6, ValueForms DEF y
  <2>6. ASSUME NEW t \in Seq(Int) PROVE AttributesParse(p \o (z \o t)) = <<a>> \o AttributesParse(t)
    <3>1. AttributesParse(x \o y \o (v \o z \o t)) = <<Field(x, v)>> \o AttributesParse(t)
      <4>1. \A r \in Seq(Int) : AttributesParse(x \o <<EQUALS>> \o (v \o <<SEMICOLON>> \o r)) = <<Field(x, v)>> \o AttributesParse(r)
        BY <1>1, <1>3, <1>6, ValueForms
      <4>2. QED
        BY <4>1, Zenon DEF y, z
    <3> HIDE DEF X
    <3>2. AreJoined(X, v, z, t)
      BY <1>4, <2>2, Joined
    <3>3. X \o v \in Seq(Int)
      BY <1>4, <2>2, Regroup
    <3>4. Regroups(X \o v, z, t)
      BY <1>4, <3>3, Regroup
    <3>5. p \o (z \o t) = X \o (v \o z \o t)
      BY <2>3, <3>2, <3>4, Zenon DEF Regroups, AreJoined
    <3>6. QED
      BY <1>1, <3>1, <3>5, Zenon DEF X
  <2>7. QED
    BY <1>1, <2>3, <2>4, <2>5, <2>6, Zenon DEF p, z, C
<1>7. CASE v # <<>> /\ sample.quoted
  <2> DEFINE X == x \o y
             Y == y \o b
             Z == X \o b
             W == Z \o v
             V == Y \o v
  <2>1. p = x \o (V \o b)
    BY <1>2, <1>7, Zenon DEF AttributePiece, p, x, v, y, b
  <2>2. X \in Seq(Int) /\ Y \in Seq(Int) /\ Regroups(x, y, b)
    BY <1>4, Regroup
  <2>3. V \in Seq(Int) /\ Regroups(x, Y, v)
    <3> HIDE DEF Y, X
    <3>1. QED
      BY <1>4, <2>2, Regroup
  <2>4. Regroups(x, V, b)
    <3> HIDE DEF V
    <3>1. QED
      BY <1>4, <2>3, Regroup
  <2>5. Z \in Seq(Int)
    <3> HIDE DEF X
    <3>1. QED
      BY <1>4, <2>2, Regroup
  <2>6. W \in Seq(Int)
    <3> HIDE DEF Z
    <3>1. QED
      BY <1>4, <2>5, Regroup
  <2>7. p = W \o b
    BY <2>1, <2>2, <2>3, <2>4, Zenon DEF Regroups
  <2>8. p \in TextWithout(C)
    <3>1. X \in TextWithout(C)
      BY <1>2, <1>3, WithoutConcat
    <3> HIDE DEF X
    <3>2. Z \in TextWithout(C)
      BY <1>2, <3>1, WithoutConcat
    <3> HIDE DEF Z
    <3>3. W \in TextWithout(C)
      BY <1>3, <3>2, WithoutConcat
    <3> HIDE DEF W
    <3>4. QED
      BY <1>2, <2>7, <3>3, WithoutConcat
  <2> HIDE DEF W, V, Y
  <2>9. ASSUME NEW t \in Seq(Int) PROVE AttributesParse(p \o t) = <<a>> \o AttributesParse(t)
    <3> DEFINE u == v \o b \o t
    <3>1. AttributesParse(X \o (b \o u)) = <<Field(x, v)>> \o AttributesParse(t)
      <4>1. \A r \in Seq(Int) :
              AttributesParse(x \o <<EQUALS>> \o (<<QUOTE>> \o (v \o <<QUOTE>> \o r))) = <<Field(x, v)>> \o AttributesParse(r)
        BY <1>1, <1>3, <1>7, ValueForms
      <4>2. QED
        BY <4>1, Zenon DEF y, b
    <3> HIDE DEF X
    <3>2. Z \in Seq(Int)
      BY <2>5
    <3> HIDE DEF Z
    <3>3. AreJoined(Z, v, b, t) /\ u \in Seq(Int)
      BY <1>4, <3>2, Joined
    <3> HIDE DEF u
    <3>4. Regroups(X, b, u)
      BY <1>4, <2>2, <3>3, Regroup
    <3>5. p \o t = X \o (b \o u)
      BY <2>7, <3>3, <3>4, Zenon DEF Regroups, AreJoined, W, Z, u
    <3>6. QED
      BY <1>1, <3>1, <3>5, Zenon
  <2>10. AttributesParse(p) = <<a>>
    <3>1. <<>> \in Seq(Int)
      OBVIOUS
    <3>2. p \in Seq(Int) /\ p \o <<>> = p
      BY <2>8, ConcatSimplifications DEF TextWithout
    <3>3. <<a>> \o <<>> = <<a>>
      <4>1. <<a>> \in Seq({a})
        OBVIOUS
      <4>2. QED
        BY <4>1, ConcatSimplifications
    <3>4. AttributesParse(p \o <<>>) = <<a>> \o AttributesParse(<<>>)
      BY <2>9, <3>1
    <3>5. QED
      BY <3>2, <3>3, <3>4, NothingRead, Zenon
  <2>11. ASSUME NEW t \in Seq(Int) PROVE AttributesParse(p \o (z \o t)) = <<a>> \o AttributesParse(t)
    <3>1. SEMICOLON \in {SP, SEMICOLON}
      OBVIOUS
    <3>2. AttributesParse(z \o t) = AttributesParse(t) /\ z \o t \in Seq(Int)
      BY <3>1, SkipOne DEF z
    <3>3. AttributesParse(p \o (z \o t)) = <<a>> \o AttributesParse(z \o t)
      BY <2>9, <3>2
    <3>4. QED
      BY <3>2, <3>3, Zenon
  <2>12. QED
    BY <2>8, <2>10, <2>11, Zenon DEF p, z, C
<1>8. QED
  BY <1>5, <1>6, <1>7

\* What AttributesText writes for each attribute.
AttributeParts(q) ==
    [i \in 1 .. Len(q) |->
        (IF i = 1 THEN <<>> ELSE <<SEMICOLON, SP>>) \o q[i].name
          \o (IF q[i].value = <<>> THEN <<>>
              ELSE IF sample.quoted THEN <<EQUALS, QUOTE>> \o q[i].value \o <<QUOTE>>
              ELSE <<EQUALS>> \o q[i].value)]

\* AttributesText puts the parts together.
LEMMA AttributesTextIs == ASSUME NEW q PROVE AttributesText(q) = FlattenSeq(AttributeParts(q))
  BY Zenon DEF AttributesText, AttributeParts

\* A part is its piece, behind a semicolon and a blank unless it is the first.
LEMMA AttributePartIs ==
    ASSUME NEW q \in Seq(AttributeField), NEW i \in 1 .. Len(q), NEW t \in Seq(Int)
    PROVE  /\ AttributeParts(q)[i] \in TextWithout({LF})
           /\ i = 1 => AttributeParts(q)[i] = AttributePiece(q[i])
           /\ i # 1 => AttributeParts(q)[i] \o t = <<SEMICOLON>> \o (<<SP>> \o (AttributePiece(q[i]) \o t))
<1> DEFINE a == q[i]
           x == a.name
           v == IF a.value = <<>> THEN <<>>
                ELSE IF sample.quoted THEN <<EQUALS, QUOTE>> \o a.value \o <<QUOTE>>
                ELSE <<EQUALS>> \o a.value
           p == AttributeParts(q)[i]
           y == <<SEMICOLON>>
           z == <<SP>>
           C == {LF}
           piece == AttributePiece(a)
<1>1. a \in AttributeField
  BY ElementOfSeq
<1>2. p = (IF i = 1 THEN <<>> ELSE <<SEMICOLON, SP>>) \o x \o v
  BY Zenon DEF AttributeParts
<1>3. piece = x \o v
  BY Zenon DEF AttributePiece
<1>4. x \in Seq(Int) /\ v \in Seq(Int)
  <2>1. x \in Seq(Int) /\ a.value \in Seq(Int)
    BY <1>1 DEF AttributeField, TextWithout
  <2>2. <<EQUALS, QUOTE>> \in Seq(Int) /\ <<QUOTE>> \in Seq(Int) /\ <<EQUALS>> \in Seq(Int) /\ <<>> \in Seq(Int)
    BY DEF EQUALS, QUOTE
  <2>3. /\ <<EQUALS, QUOTE>> \o a.value \in Seq(Int)
        /\ <<EQUALS>> \o a.value \in Seq(Int)
    BY <2>1, <2>2, Regroup
  <2>4. <<EQUALS, QUOTE>> \o a.value \o <<QUOTE>> \in Seq(Int)
    <3> DEFINE l == <<EQUALS, QUOTE>> \o a.value
    <3>1. l \in Seq(Int)
      BY <2>3
    <3> HIDE DEF l
    <3>2. l \o <<QUOTE>> \in Seq(Int)
      BY <2>2, <3>1, Regroup
    <3>3. QED
      BY <3>2 DEF l
  <2>5. QED
    BY <2>1, <2>2, <2>3, <2>4, Zenon
<1>5. piece \in TextWithout(C)
  BY <1>1, AttributePieceReads
<1>6. y \in TextWithout(C) /\ z \in TextWithout(C) /\ y \o z = <<SEMICOLON, SP>>
  BY AttributeMarks
<1> HIDE DEF a, x, v, p, piece, y, z, C
<1>7. y \in Seq(Int) /\ z \in Seq(Int) /\ piece \in Seq(Int)
  BY <1>5, <1>6 DEF TextWithout
<1>8. CASE i = 1
  <2>1. <<>> \o x = x
    BY <1>4, ConcatSimplifications
  <2>2. p = piece
    BY <1>2, <1>3, <1>8, <2>1, Zenon
  <2>3. QED
    BY <1>5, <1>8, <2>2 DEF p, piece, a, C
<1>9. CASE i # 1
  <2> DEFINE Y == y \o z
  <2>1. Y \in Seq(Int) /\ Y \in TextWithout(C)
    BY <1>6, <1>7, Regroup, WithoutConcat
  <2>2. Regroups(y, z, piece \o t) /\ piece \o t \in Seq(Int)
    <3>1. piece \o t \in Seq(Int)
      BY <1>7, Regroup
    <3> DEFINE u == piece \o t
    <3> HIDE DEF u
    <3>2. Regroups(y, z, u)
      BY <1>7, <3>1, Regroup DEF u
    <3>3. QED
      BY <3>1, <3>2 DEF u
  <2>3. p = Y \o x \o v
    BY <1>2, <1>6, <1>9, Zenon
  <2> HIDE DEF Y
  <2>4. Regroups(Y, x, v) /\ Regroups(Y, piece, t)
    BY <1>4, <1>7, <2>1, Regroup
  <2>5. p = Y \o piece
    BY <1>3, <2>3, <2>4, Zenon DEF Regroups
  <2>6. p \in TextWithout(C)
    BY <1>5, <2>1, <2>5, WithoutConcat
  <2>7. p \o t = y \o (z \o (piece \o t))
    BY <2>2, <2>4, <2>5, Zenon DEF Regroups, Y
  <2>8. QED
    BY <1>9, <2>6, <2>7, Zenon DEF p, piece, a, C, y, z
<1>10. QED
  BY <1>8, <1>9

\* Attributes that are written are read as they were.
LEMMA AttributesRead ==
    ASSUME NEW q \in Seq(AttributeField)
    PROVE  /\ AttributesText(q) \in TextWithout({LF})
           /\ AttributesParse(AttributesText(q)) = q
<1> DEFINE n == Len(q)
           parts == AttributeParts(q)
           piece(i) == AttributePiece(q[i])
           text(k) == FlattenSeq(From(parts, k))
           J == [k \in 1 .. n |-> piece(k) \o text(k + 1)]
<1>1. n \in Nat /\ \A i \in 1 .. n : q[i] \in AttributeField
  BY LenProperties, ElementOfSeq
<1>2. \A i \in 1 .. n : \A t \in Seq(Int) :
        /\ parts[i] \in TextWithout({LF}) /\ parts[i] \in Seq(Int)
        /\ i = 1 => parts[i] = piece(i)
        /\ i # 1 => parts[i] \o t = <<SEMICOLON>> \o (<<SP>> \o (piece(i) \o t))
  BY AttributePartIs DEF TextWithout
<1>3. \A i \in 1 .. n :
        /\ piece(i) \in Seq(Int)
        /\ AttributesParse(piece(i)) = <<q[i]>>
        /\ \A t \in Seq(Int) : AttributesParse(piece(i) \o (<<SEMICOLON>> \o t)) = <<q[i]>> \o AttributesParse(t)
  BY <1>1, AttributePieceReads DEF TextWithout
<1>4. \A i \in 1 .. n : parts[i] \in TextWithout({LF}) /\ parts[i] \in Seq(Int)
  <2>1. <<>> \in Seq(Int)
    OBVIOUS
  <2>2. QED
    BY <1>2, <2>1
<1>5. parts \in Seq(Seq(Int)) /\ Len(parts) = n
  <2>1. parts = [i \in 1 .. n |-> parts[i]]
    BY DEF AttributeParts
  <2> HIDE DEF n, parts
  <2>2. parts \in [1 .. n -> Seq(Int)]
    BY <1>4, <2>1
  <2>3. QED
    BY <1>1, <2>2
<1>6. AttributesText(q) = FlattenSeq(parts)
  BY AttributesTextIs
<1> HIDE DEF parts, piece
<1>7. AttributesText(q) \in TextWithout({LF})
  BY <1>4, <1>5, <1>6, FlattenWithout
<1>8. /\ text(1) = FlattenSeq(parts) /\ text(n + 1) = <<>>
      /\ \A k \in 1 .. n + 1 : text(k) \in Seq(Int)
      /\ \A k \in 1 .. n : text(k) = parts[k] \o text(k + 1)
  <2>1. /\ FlattenSeq(From(parts, 1)) = FlattenSeq(parts)
        /\ FlattenSeq(From(parts, Len(parts) + 1)) = <<>>
        /\ \A k \in 1 .. Len(parts) + 1 : FlattenSeq(From(parts, k)) \in Seq(Int)
        /\ \A k \in 1 .. Len(parts) : FlattenSeq(From(parts, k)) = parts[k] \o FlattenSeq(From(parts, k + 1))
    BY <1>5, FlattenFrom
  <2>2. QED
    BY <1>5, <2>1
<1> HIDE DEF text, n
<1>9. \A k \in 1 .. n : k + 1 \in 1 .. n + 1 /\ J[k] = piece(k) \o text(k + 1)
  <2>1. \A k \in 1 .. n : k + 1 \in 1 .. n + 1
    BY <1>1
  <2>2. \A k \in 1 .. n : J[k] = piece(k) \o text(k + 1)
    BY Zenon
  <2>3. QED
    BY <2>1, <2>2
<1>10. \A k \in 1 .. n : J[k] \in Seq(Int)
  BY <1>3, <1>8, <1>9, ConcatProperties
<1> HIDE DEF J
<1>11. CASE n = 0
  <2>1. q = <<>> /\ parts = <<>>
    BY <1>5, <1>11, EmptySeq DEF n
  <2>2. FlattenSeq(<<>>) = <<>>
    BY DEF FlattenSeq
  <2>3. AttributesParse(AttributesText(q)) = q
    BY <1>6, <2>1, <2>2, NothingRead, Zenon
  <2>4. QED
    BY <1>7, <2>3
<1>12. CASE n # 0
  <2> DEFINE S == {k \in Nat : AttributesParse(J[k]) = From(q, k)}
  <2>1. \A k \in 1 .. n : From(q, k) = <<q[k]>> \o From(q, k + 1)
    BY FromParts DEF n
  <2>2. From(q, n + 1) = <<>> /\ From(q, 1) = q
    BY FromParts DEF n
  <2>3. n \in S
    <3>1. n \in 1 .. n
      BY <1>1, <1>12
    <3>2. J[n] = piece(n)
      <4>1. piece(n) \o <<>> = piece(n)
        BY <1>3, <3>1, ConcatSimplifications
      <4>2. QED
        BY <1>8, <1>9, <3>1, <4>1
    <3>3. <<q[n]>> \o <<>> = <<q[n]>>
      <4>1. <<q[n]>> \in Seq({q[n]})
        OBVIOUS
      <4>2. QED
        BY <4>1, ConcatSimplifications
    <3>4. AttributesParse(J[n]) = From(q, n)
      BY <1>3, <2>1, <2>2, <3>1, <3>2, <3>3
    <3>5. QED
      BY <1>1, <3>4
  <2>4. ASSUME NEW k \in 1 .. n - 1, k + 1 \in S PROVE k \in S
    <3>1. PICK j \in 1 .. n : j = k + 1
      BY <1>1
    <3>2. k \in 1 .. n /\ k \in Nat /\ j # 1 /\ j + 1 \in 1 .. n + 1
      BY <1>1, <3>1
    <3>3. text(j) = <<SEMICOLON>> \o (<<SP>> \o J[j])
      <4>1. text(j) = parts[j] \o text(j + 1) /\ text(j + 1) \in Seq(Int)
        BY <1>8, <3>2
      <4>2. parts[j] \o text(j + 1) = <<SEMICOLON>> \o (<<SP>> \o (piece(j) \o text(j + 1)))
        BY <1>2, <3>2, <4>1
      <4>3. J[j] = piece(j) \o text(j + 1)
        BY <1>9
      <4>4. QED
        BY <4>1, <4>2, <4>3, Zenon
    <3>4. J[k] = piece(k) \o (<<SEMICOLON>> \o (<<SP>> \o J[j]))
      BY <1>9, <3>1, <3>2, <3>3
    <3>5. AttributesParse(<<SP>> \o J[j]) = AttributesParse(J[j]) /\ <<SP>> \o J[j] \in Seq(Int)
      <4>1. SP \in {SP, SEMICOLON} /\ J[j] \in Seq(Int)
        BY <1>10
      <4>2. QED
        BY <4>1, SkipOne
    <3>6. AttributesParse(J[k]) = <<q[k]>> \o AttributesParse(J[j])
      <4> DEFINE t == <<SP>> \o J[j]
      <4>1. t \in Seq(Int) /\ AttributesParse(t) = AttributesParse(J[j])
        BY <3>5
      <4>2. J[k] = piece(k) \o (<<SEMICOLON>> \o t)
        BY <3>4
      <4> HIDE DEF t
      <4>3. AttributesParse(piece(k) \o (<<SEMICOLON>> \o t)) = <<q[k]>> \o AttributesParse(t)
        BY <1>3, <3>2, <4>1
      <4>4. QED
        BY <4>1, <4>2, <4>3, Zenon
    <3>7. AttributesParse(J[j]) = From(q, j)
      BY <2>4, <3>1
    <3>8. From(q, k) = <<q[k]>> \o From(q, j)
      BY <2>1, <3>1, <3>2
    <3>9. QED
      BY <3>2, <3>6, <3>7, <3>8
  <2> HIDE DEF S
  <2>5. 1 \in S
    <3>1. PICK m \in Nat : m = n - 1
      BY <1>1, <1>12
    <3>2. m + 1 = n /\ 1 \in 1 .. m + 1
      BY <1>1, <3>1
    <3>3. \A k \in 1 .. m : k + 1 \in S => k \in S
      BY <2>4, <3>1
    <3>4. m + 1 \in S
      BY <2>3, <3>2
    <3>5. \A k \in 1 .. m + 1 : k \in S
      BY <3>3, <3>4, Down
    <3>6. QED
      BY <3>2, <3>5
  <2>6. J[1] = AttributesText(q)
    <3>1. 1 \in 1 .. n /\ 1 + 1 = 2
      BY <1>1, <1>12
    <3>2. parts[1] = piece(1)
      <4>1. <<>> \in Seq(Int)
        OBVIOUS
      <4>2. \A i \in 1 .. n : i = 1 => parts[i] = piece(i)
        BY <1>2, <4>1
      <4>3. QED
        BY <3>1, <4>2
    <3>3. QED
      BY <1>6, <1>8, <1>9, <3>1, <3>2
  <2>7. AttributesParse(AttributesText(q)) = q
    BY <2>2, <2>5, <2>6 DEF S
  <2>8. QED
    BY <1>7, <2>7
<1>13. QED
  BY <1>11, <1>12

-----------------------------------------------------------------------------
(* A response that the server writes                                       *)

Announced(h) == \/ Values(h, ContentLength) # {}
                \/ \E v \in Values(h, TransferEncoding) : EqualNoCase(v, Chunked)

\* A response is its first line, all fields of its header and an end.
LEMMA ResponseTextIs ==
    ASSUME NEW status \in TextWithout({LF}), NEW h \in Seq(HeaderField), NEW n \in 0 .. 9
    PROVE  ResponseText(status, h, n, FALSE)
             = StatusLine(status) \o Line
                 \o HeaderText(IF Announced(h) THEN h ELSE h \o <<LengthField(n)>>) \o Line
<1> DEFINE r == StatusLine(status)
           extra == IF Announced(h) THEN <<>> ELSE <<LengthField(n)>>
           a == HeaderText(h)
           b == HeaderText(extra)
<1>1. r \in Seq(Int)
  BY StatusLineIs DEF TextWithout
<1>2. <<>> \in Seq(HeaderField) /\ <<LengthField(n)>> \in Seq(HeaderField)
  BY LengthFieldIs
<1>3. extra \in Seq(HeaderField)
  BY <1>2, Zenon
<1>4. ResponseText(status, h, n, FALSE) = r \o Line \o a \o b \o Line
  BY Zenon DEF ResponseText, StatusLine, Announced
<1>5. h \o extra = IF Announced(h) THEN h ELSE h \o <<LengthField(n)>>
  <2>1. h \o <<>> = h
    BY ConcatSimplifications
  <2>2. QED
    BY <2>1, Zenon
<1> HIDE DEF r, extra
<1>6. a \in Seq(Int) /\ b \in Seq(Int) /\ Line \in Seq(Int)
  BY <1>3, HeaderLinesAre, EndingPieces
<1>7. HeaderText(h \o extra) = a \o b
  BY <1>3, HeaderTextConcat
<1> HIDE DEF a, b
<1>8. r \o Line \in Seq(Int)
  BY <1>1, <1>6, Regroup
<1>9. Regroups(r \o Line, a, b)
  BY <1>6, <1>8, Regroup
<1>10. ResponseText(status, h, n, FALSE) = r \o Line \o HeaderText(h \o extra) \o Line
  BY <1>4, <1>7, <1>9, Zenon DEF Regroups
<1>11. QED
  BY <1>5, <1>10, Zenon DEF r

\* Every sample is read by the client as the server has written it.
LEMMA ResponseReadsBack == ASSUME sample \in Samples PROVE ResponseRoundTrip
<1> DEFINE h == sample.header
           n == sample.length
           ends == sample.ends
           q == sample.attributes
           f == Field(HTTP, AttributesText(q))
           header == <<f>> \o h
           long == header \o <<LengthField(n)>>
           adds == ends = "open"
           all == IF adds THEN long ELSE header
           status == Digits(2)
           r == ResponseParse(ResponseText(status, header, n, FALSE))
<1>1. h \in Seq(HeaderField) /\ n \in 0 .. 9 /\ SaysEnds(ends, h)
  BY SampleIs
<1>2. q \in Seq(AttributeField)
  BY SamplesAssumption DEF Fields, AttributeField
<1>3. AttributesText(q) \in TextWithout({LF}) /\ AttributesParse(AttributesText(q)) = q
  BY <1>2, AttributesRead
<1>4. f \in HeaderField /\ f.value = AttributesText(q) /\ Len(f.name) = 4
  BY <1>3, NamesDiffer, Words DEF Field, HeaderField
<1>5. status \in TextWithout({LF}) /\ status \in TextWithout({LF, CR})
  BY DEF Digits, TextWithout, LF, CR
<1> HIDE DEF h, n, ends, q, f, status
<1>6. /\ header \in Seq(HeaderField) /\ header \o <<>> = header
      /\ ends # "open" <=> \/ Values(header, ContentLength) # {}
                           \/ \E v \in Values(header, TransferEncoding) : EqualNoCase(v, Chunked)
      /\ ends = "chunked" => Framing(header) = "chunked"
      /\ ends = "length" => Framing(header) = "length"
      /\ Framing(long) = "length"
  BY <1>1, <1>4, EndsAre, Zenon
<1>7. header[1] = f /\ Len(header) >= 1
  <2> DEFINE one == <<f>>
  <2>1. one \in Seq(HeaderField) /\ Len(one) = 1 /\ one[1] = f
    BY <1>4
  <2> HIDE DEF one
  <2>2. Len(one \o h) = Len(one) + Len(h) /\ \A i \in 1 .. Len(one) : (one \o h)[i] = one[i]
    BY <1>1, <2>1, Joint, Zenon
  <2>3. Len(h) \in Nat
    BY <1>1, LenProperties
  <2>4. 1 \in 1 .. Len(one)
    BY <2>1
  <2>5. (one \o h)[1] = f /\ Len(one \o h) >= 1
    BY <2>1, <2>2, <2>3, <2>4
  <2>6. QED
    BY <2>5 DEF one
<1> HIDE DEF header
<1>8. all \in Seq(HeaderField) /\ all[1] = f
  <2>1. <<LengthField(n)>> \in Seq(HeaderField)
    BY <1>1, LengthFieldIs
  <2>2. long \in Seq(HeaderField) /\ \A i \in 1 .. Len(header) : long[i] = header[i]
    BY <1>6, <2>1, Joint
  <2>3. 1 \in 1 .. Len(header)
    BY <1>6, <1>7, LenProperties
  <2>4. QED
    BY <1>6, <1>7, <2>2, <2>3
<1>9. ResponseText(status, header, n, FALSE) = StatusLine(status) \o Line \o HeaderText(all) \o Line
  <2>1. adds <=> ~Announced(header)
    BY <1>6 DEF Announced
  <2>2. ResponseText(status, header, n, FALSE)
          = StatusLine(status) \o Line
              \o HeaderText(IF Announced(header) THEN header ELSE long) \o Line
    BY <1>1, <1>5, <1>6, ResponseTextIs
  <2>3. QED
    BY <2>1, <2>2, Zenon
<1> HIDE DEF all
<1>10. r = [ok |-> TRUE, version |-> Version, status |-> status, header |-> all]
  BY <1>5, <1>8, <1>9, ResponseReads
<1> HIDE DEF r
<1>11. r.ok /\ r.version = Version /\ r.status = status /\ r.header = all
  BY <1>10
<1>12. Announces(all, header, adds)
  <2>1. all = header \o (IF adds THEN <<LengthField(n)>> ELSE <<>>)
    BY <1>6 DEF all
  <2>2. ends = "chunked" => Framing(all) = "chunked"
    BY <1>6 DEF all
  <2>3. ends = "length" \/ adds => Framing(all) = "length"
    BY <1>6 DEF all
  <2>4. QED
    BY <2>1, <2>2, <2>3, Zenon DEF Announces, n, ends
<1>13. AttributesParse(r.header[1].value) = q
  BY <1>3, <1>4, <1>8, <1>11
<1>14. QED
  BY <1>11, <1>12, <1>13, Zenon DEF ResponseRoundTrip, r, status, h, n, ends, q, f, header

-----------------------------------------------------------------------------
(* The runs' two properties of headers                                     *)

\* The header that is looked at is one of the samples, and stays it.
LEMMA SampleStays == Spec => [](sample \in Samples)
<1>1. Init => sample \in Samples
  BY SamplesAssumption DEF Init
<1>2. sample \in Samples /\ [Next]_vars => (sample \in Samples)'
  BY DEF Next, vars
<1>3. QED
  BY <1>1, <1>2, PTL DEF Spec

\* A request that the client writes is what the server reads: method, path,
\* query, header fields and the end of the content, for every header that a
\* user may give (Client::request() in client_http.hpp, RequestMessage::parse()
\* in utility.hpp).
THEOREM RequestCorrect == Spec => []RequestRoundTrip
<1>1. sample \in Samples => RequestRoundTrip
  BY RequestReadsBack
<1>2. QED
  BY <1>1, SampleStays, PTL

\* A response that the server writes is what the client reads, with the
\* attributes of a field (Response::write() in server_http.hpp,
\* ResponseMessage::parse() and SemicolonSeparatedAttributes::parse() in
\* utility.hpp).
THEOREM ResponseCorrect == Spec => []ResponseRoundTrip
<1>1. sample \in Samples => ResponseRoundTrip
  BY ResponseReadsBack
<1>2. QED
  BY <1>1, SampleStays, PTL
=============================================================================
