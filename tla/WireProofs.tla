----------------------------- MODULE WireProofs -----------------------------
(***************************************************************************)
(* Proofs about the bytes on the wire: Framing, for frames of any length   *)
(* and chunks cut anywhere, and Padding, for every block size and every    *)
(* set of messages.                                                        *)
(***************************************************************************)
EXTENDS Framing, Padding, SequenceTheorems, WellFoundedInduction, TLAPS

-----------------------------------------------------------------------------
(* Joining and cutting sequences.                                           *)

\* c is a, of length n, followed by b, of length m.
IsJoin(c, a, n, b, m) ==
  /\ Len(c) = n + m
  /\ \A i \in 1..n : c[i] = a[i]
  /\ \A i \in 1..m : c[n + i] = b[i]

\* Joining a and b gives that.
LEMMA Join ==
  ASSUME NEW S, NEW a \in Seq(S), NEW b \in Seq(S), NEW n, n = Len(a), NEW m, m = Len(b),
         NEW c, c = a \o b
  PROVE  c \in Seq(S) /\ n \in Nat /\ m \in Nat /\ IsJoin(c, a, n, b, m)
<1>1. n \in Nat /\ m \in Nat
  BY LenProperties
<1>2. /\ c \in Seq(S) /\ Len(c) = n + m
      /\ \A i \in 1..(n + m) : c[i] = IF i <= n THEN a[i] ELSE b[i - n]
  BY ConcatProperties
<1>3. ASSUME NEW i \in 1..n PROVE c[i] = a[i]
  <2>1. i \in 1..(n + m) /\ i <= n
    BY <1>1
  <2> QED
    BY <1>2, <2>1
<1>4. ASSUME NEW i \in 1..m PROVE c[n + i] = b[i]
  <2>1. n + i \in 1..(n + m) /\ ~(n + i <= n) /\ (n + i) - n = i
    BY <1>1
  <2> QED
    BY <1>2, <2>1
<1> QED
  BY <1>1, <1>2, <1>3, <1>4 DEF IsJoin

IsRegrouped(a, b, c) == (a \o b) \o c = a \o (b \o c)

\* Bytes can be grouped either way.
LEMMA Joined ==
  ASSUME NEW a \in Seq(Byte), NEW b \in Seq(Byte), NEW c \in Seq(Byte)
  PROVE  a \o b \in Seq(Byte) /\ IsRegrouped(a, b, c)
BY ConcatProperties, ConcatAssociative DEF IsRegrouped

\* t is s, of length n, followed by the element p.
IsAdded(t, s, n, p) ==
  Len(t) = n + 1 /\ t[n + 1] = p /\ \A i \in 1..n : t[i] = s[i]

\* Append gives that.
LEMMA Added ==
  ASSUME NEW S, NEW s \in Seq(S), NEW n, n = Len(s), NEW p \in S, NEW t, t = Append(s, p)
  PROVE  t \in Seq(S) /\ IsAdded(t, s, n, p)
<1>1. \A i \in 1..Len(s) : i \in 1..(Len(s) + 1)
  BY LenProperties
<1> QED
  BY <1>1, AppendProperties DEF IsAdded

\* b is what follows the first n elements of s, m elements.
IsPart(b, s, n, m) == Len(b) = m /\ \A i \in 1..m : b[i] = s[n + i]

\* SubSeq to the end gives that.
LEMMA Rest ==
  ASSUME NEW S, NEW s \in Seq(S), NEW m, m = Len(s), NEW n \in Nat, n <= m,
         NEW b, b = SubSeq(s, n + 1, m)
  PROVE  b \in Seq(S) /\ IsPart(b, s, n, m - n)
<1>1. m \in Nat
  BY LenProperties
<1>2. n + 1 \in Int /\ m \in Int /\ \A i \in (n + 1)..m : s[i] \in S
  BY <1>1, ElementOfSeq
<1>3. /\ b \in Seq(S) /\ Len(b) = IF n + 1 <= m THEN m - (n + 1) + 1 ELSE 0
      /\ \A i \in 1..(m - (n + 1) + 1) : b[i] = s[(n + 1) + i - 1]
  BY <1>2, SubSeqProperties
<1>4. b \in Seq(S) /\ Len(b) = m - n /\ \A i \in 1..(m - n) : b[i] = s[n + i]
  BY <1>1, <1>3
<1> QED
  BY <1>4 DEF IsPart

\* The same, for the number of elements that follow.
LEMMA RestOf ==
  ASSUME NEW S, NEW s \in Seq(S), NEW n \in Nat, NEW d \in Nat, Len(s) = n + d,
         NEW b, b = SubSeq(s, n + 1, Len(s))
  PROVE  b \in Seq(S) /\ IsPart(b, s, n, d)
<1>1. \A x, y \in Nat : x <= x + y /\ (x + y) - x = y
  OBVIOUS
<1>2. n <= Len(s) /\ Len(s) - n = d
  BY <1>1, Zenon
<1>3. b \in Seq(S) /\ IsPart(b, s, n, Len(s) - n)
  BY <1>2, Rest, Zenon
<1> QED
  BY <1>2, <1>3, Zenon

\* A number is what it exceeds another one by.
LEMMA Excess ==
  ASSUME NEW x \in Nat, NEW y \in Nat
  PROVE  /\ x <= y => \E d \in Nat : y = x + d /\ x + d \in Nat
         /\ x < y => \E d \in Nat : y = (x + 1) + d /\ y = x + (d + 1)
         /\ x < y => x + 1 \in Nat /\ x + 1 \in 1..y
<1>1. ASSUME x <= y PROVE \E d \in Nat : y = x + d /\ x + d \in Nat
  <2>1. y - x \in Nat /\ y = x + (y - x) /\ x + (y - x) \in Nat
    BY <1>1
  <2> QED
    BY <2>1
<1>2. ASSUME x < y PROVE \E d \in Nat : y = (x + 1) + d /\ y = x + (d + 1)
  <2>1. y - (x + 1) \in Nat /\ y = (x + 1) + (y - (x + 1)) /\ y = x + ((y - (x + 1)) + 1)
    BY <1>2
  <2> QED
    BY <2>1
<1> QED
  BY <1>1, <1>2

\* There is one such part.
LEMMA OnePart ==
  ASSUME NEW S, NEW b \in Seq(S), NEW c \in Seq(S), NEW s, NEW n, NEW d \in Nat,
         IsPart(b, s, n, d), IsPart(c, s, n, d)
  PROVE  b = c
BY SeqEqual DEF IsPart

\* The part of a part.
LEMMA PartOfPart ==
  ASSUME NEW s, NEW b, NEW c, NEW n \in Nat, NEW d \in Nat,
         IsPart(b, s, n, d + 1), IsPart(c, b, 1, d)
  PROVE  IsPart(c, s, n + 1, d)
<1>1. ASSUME NEW i \in 1..d PROVE c[i] = s[(n + 1) + i]
  <2>1. 1 + i \in 1..(d + 1) /\ n + (1 + i) = (n + 1) + i
    OBVIOUS
  <2> QED
    BY <2>1 DEF IsPart
<1> QED
  BY <1>1 DEF IsPart

\* The part that reaches the end, when an element is added.
LEMMA PartGrows ==
  ASSUME NEW s, NEW t, NEW b, NEW c, NEW p, NEW n \in Nat, NEW d \in Nat,
         IsPart(b, s, n, d), IsAdded(t, s, n + d, p), IsAdded(c, b, d, p)
  PROVE  IsPart(c, t, n, d + 1)
<1>1. ASSUME NEW i \in 1..(d + 1) PROVE c[i] = t[n + i]
  <2>1. CASE i = d + 1
    <3>1. n + i = (n + d) + 1
      BY <2>1
    <3> QED
      BY <2>1, <3>1 DEF IsAdded
  <2>2. CASE i \in 1..d
    <3>1. n + i \in 1..(n + d)
      BY <2>2
    <3> QED
      BY <2>2, <3>1 DEF IsAdded, IsPart
  <2> QED
    BY <2>1, <2>2
<1> QED
  BY <1>1 DEF IsPart, IsAdded

\* Cutting a sequence in two.
LEMMA Cut ==
  ASSUME NEW S, NEW s \in Seq(S), NEW n \in Nat, n <= Len(s),
         NEW a, a = First(s, n), NEW b, b = Drop(s, n)
  PROVE  a \in Seq(S) /\ b \in Seq(S) /\ Len(a) = n /\ a \o b = s
<1>1. PICK m \in Nat : m = Len(s) /\ n <= m
  BY LenProperties
<1>2. a \in Seq(S) /\ Len(a) = n /\ \A i \in 1..n : a[i] = s[i]
  <2>1. 1 \in Int /\ n \in Int /\ \A i \in 1..n : s[i] \in S
    BY <1>1, ElementOfSeq
  <2>2. /\ a \in Seq(S) /\ Len(a) = IF 1 <= n THEN n - 1 + 1 ELSE 0
        /\ \A i \in 1..(n - 1 + 1) : a[i] = s[1 + i - 1]
    BY <2>1, SubSeqProperties DEF First
  <2> QED
    BY <2>2
<1>3. b \in Seq(S) /\ Len(b) = m - n /\ \A i \in 1..(m - n) : b[i] = s[n + i]
  <2>1. b = SubSeq(s, n + 1, m)
    BY <1>1 DEF Drop
  <2>2. b \in Seq(S) /\ IsPart(b, s, n, m - n)
    BY <1>1, <2>1, Rest, Zenon
  <2> QED
    BY <2>2 DEF IsPart
<1>4. PICK c \in Seq(S) : c = a \o b
  BY <1>2, <1>3, ConcatProperties
<1>5. Len(c) = m /\ (\A i \in 1..n : c[i] = a[i]) /\ \A i \in 1..(m - n) : c[n + i] = b[i]
  <2>1. IsJoin(c, a, n, b, m - n)
    BY <1>2, <1>3, <1>4, Join
  <2> QED
    BY <1>1, <2>1 DEF IsJoin
<1>6. ASSUME NEW i \in 1..m PROVE c[i] = s[i]
  <2>1. CASE i <= n
    BY <1>2, <1>5, <2>1
  <2>2. CASE ~(i <= n)
    <3>1. i - n \in 1..(m - n) /\ n + (i - n) = i
      BY <1>1, <2>2
    <3> QED
      BY <1>3, <1>5, <3>1
  <2> QED
    BY <2>1, <2>2
<1>7. c = s
  BY <1>1, <1>4, <1>5, <1>6, SeqEqual
<1> QED
  BY <1>2, <1>3, <1>4, <1>7

-----------------------------------------------------------------------------
(* Framing: a stream of frames.                                             *)

\* The frame of p, a body of l bytes, is in R after its first `at' bytes.
IsFrame(R, at, p, l) ==
  /\ R[at + 1] = l \div Base /\ R[at + 2] = l % Base
  /\ \A j \in 1..l : R[at + 3 + j] = p[j]

\* Frames k + 1 to n, with bodies of the lengths len, lie one behind the other and
\* reach byte m; frame i ends at o[i].
Offsets(o, k, n, m, len) ==
  /\ o \in [Nat -> Int] /\ o[n] = m
  /\ \A i, j \in k..n : i <= j => o[i] <= o[j]
  /\ \A i \in (k + 1)..n : o[i] = o[i - 1] + 3 + len[i]

\* f and g are the same from a to b.
Same(f, g, a, b) == \A i \in a..b : f[i] = g[i]

Lens(s) == [i \in Nat |-> IF i \in 1..Len(s) THEN Len(s[i]) ELSE 0]

\* R ends with the frames of s from number k + 1 on, frame i ending at o[i]; they are
\* preceded by a bytes.
Laid(R, o, k, s) ==
  /\ Offsets(o, k, Len(s), Len(R), Lens(s))
  /\ \A i \in (k + 1)..Len(s) : IsFrame(R, o[i - 1], s[i], Lens(s)[i])

LaidFrom(R, k, s, a) == \E o : Laid(R, o, k, s) /\ o[k] = a

\* A number below b * b has two digits to base b.
LEMMA TwoDigits ==
  ASSUME NEW b \in Nat, b > 0, NEW m \in Nat
  PROVE  /\ m \div b \in Nat /\ m % b \in 0..(b - 1)
         /\ (m \div b) * b + (m % b) = m
         /\ m < b * b => m \div b \in 0..(b - 1)
<1>1. m \div b \in Nat
  OBVIOUS
<1>2. m % b \in 0..(b - 1)
  OBVIOUS
<1>3. (m \div b) * b + (m % b) = m
  OBVIOUS
<1>4. ASSUME m < b * b PROVE m \div b < b
  BY <1>4
<1>5. m < b * b => m \div b \in 0..(b - 1)
  BY <1>1, <1>4
<1> QED
  BY <1>1, <1>2, <1>3, <1>5

\* A body is bytes.
LEMMA BodyTyped ==
  ASSUME NEW p \in Bodies
  PROVE  p \in Seq(Byte) /\ Len(p) \in Nat
BY FramingAssumption, LenProperties DEF Byte

\* What encodeDeviceFrame puts on the wire.
LEMMA FrameBytes ==
  ASSUME NEW p \in Bodies, NEW n, n = Len(p), NEW e, e = encodeDeviceFrame(p)
  PROVE  n \in Nat /\ e \in Seq(Byte) /\ Len(e) = n + 3 /\ IsFrame(e, 0, p, n)
<1> DEFINE h == <<n \div Base, n % Base, Sync>>
<1>1. p \in Seq(Byte) /\ n \in Nat /\ n < Base * Base
  BY BodyTyped, FramingAssumption
<1>2. n \div Base \in Byte /\ n % Base \in Byte /\ Sync \in Byte
  <2>1. Base \in Nat /\ Base > 1
    BY FramingAssumption
  <2>2. n \div Base \in 0..(Base - 1) /\ n % Base \in 0..(Base - 1)
    BY <1>1, <2>1, TwoDigits
  <2> QED
    BY <2>1, <2>2 DEF Byte, Sync
<1>3. h \in Seq(Byte) /\ Len(h) = 3 /\ h[1] = n \div Base /\ h[2] = n % Base
  BY <1>2
<1>4. e = h \o p
  BY DEF encodeDeviceFrame
<1> HIDE DEF h
<1>5. e \in Seq(Byte) /\ IsJoin(e, h, 3, p, n)
  BY <1>1, <1>3, <1>4, Join, Zenon
<1>6. /\ Len(e) = 3 + n /\ e[1] = h[1] /\ e[2] = h[2]
      /\ \A j \in 1..n : e[3 + j] = p[j]
  BY <1>5 DEF IsJoin
<1>7. IsFrame(e, 0, p, n)
  BY <1>3, <1>6 DEF IsFrame
<1> QED
  BY <1>1, <1>5, <1>6, <1>7

\* The two length bytes give the length back.
LEMMA LengthBack ==
  ASSUME NEW n \in Nat
  PROVE  (n \div Base) * Base + (n % Base) = n
<1>1. Base \in Nat /\ Base > 0
  BY FramingAssumption
<1> QED
  BY <1>1, TwoDigits

\* The lengths of bodies.
LEMMA LensTyped ==
  ASSUME NEW s \in Seq(Bodies)
  PROVE  /\ Lens(s) \in [Nat -> Nat]
         /\ \A i \in 1..Len(s) : Lens(s)[i] = Len(s[i])
<1>1. \A i \in 1..Len(s) : Len(s[i]) \in Nat
  BY ElementOfSeq, BodyTyped
<1>2. Len(s) \in Nat
  BY LenProperties
<1>3. Lens(s) = [i \in Nat |-> IF i \in 1..Len(s) THEN Len(s[i]) ELSE 0]
  BY DEF Lens
<1>4. \A i \in Nat : (IF i \in 1..Len(s) THEN Len(s[i]) ELSE 0) \in Nat
  BY <1>1
<1>5. \A i \in 1..Len(s) : i \in Nat
  BY <1>2
<1> HIDE DEF Lens
<1> QED
  BY <1>3, <1>4, <1>5, Zenon

\* A frame that begins after byte c lies between c and the end.
LEMMA OffsetsBetween ==
  ASSUME NEW k \in Nat, NEW n \in Nat, NEW m \in Int, NEW len \in [Nat -> Nat], NEW o,
         Offsets(o, k, n, m, len), NEW c \in Int, o[k] >= c, NEW i \in (k + 1)..n
  PROVE  o[i - 1] \in Int /\ c <= o[i - 1] /\ o[i - 1] + 3 + len[i] <= m
<1>1. i - 1 \in k..n /\ i \in k..n /\ k \in k..n /\ n \in k..n /\ i \in Nat /\ i - 1 \in Nat
  OBVIOUS
<1>2. o[k] <= o[i - 1] /\ o[i] <= o[n] /\ o[n] = m /\ o[i] = o[i - 1] + 3 + len[i]
  BY <1>1 DEF Offsets
<1>3. o[k] \in Int /\ o[i - 1] \in Int /\ o[i] \in Int /\ len[i] \in Nat
  BY <1>1 DEF Offsets
<1> QED
  BY <1>2, <1>3

\* The frames begin before the end.
LEMMA OffsetsEnd ==
  ASSUME NEW k \in Nat, NEW n \in Nat, k <= n, NEW m \in Nat, NEW len,
         NEW o, Offsets(o, k, n, m, len)
  PROVE  o[k] <= m
BY DEF Offsets

\* Frame k + 1 lies at the front of m bytes.
IsFirst(o, k, n, m, len) ==
  /\ k < n /\ k + 1 \in k..n /\ k + 1 \in (k + 1)..n /\ k + 1 \in 1..n /\ (k + 1) - 1 = k
  /\ len[k + 1] \in Nat /\ o[k + 1] = 3 + len[k + 1] /\ 3 + len[k + 1] <= m

\* A frame that begins at the front is whole, as the stream does not end with a part of one.
LEMMA OffsetsFirst ==
  ASSUME NEW k \in Nat, NEW n \in Nat, k <= n, NEW m \in Nat, m > 0,
         NEW len \in [Nat -> Nat], NEW o, Offsets(o, k, n, m, len), o[k] = 0
  PROVE  IsFirst(o, k, n, m, len)
<1>1. k < n
  BY DEF Offsets
<1>2. /\ k + 1 \in k..n /\ k + 1 \in (k + 1)..n /\ k + 1 \in 1..n /\ n \in k..n
      /\ (k + 1) - 1 = k /\ k + 1 <= n /\ k + 1 \in Nat
  BY <1>1
<1>3. o[k + 1] = o[k] + 3 + len[k + 1] /\ o[k + 1] <= m /\ len[k + 1] \in Nat
  BY <1>2 DEF Offsets
<1> QED
  BY <1>1, <1>2, <1>3 DEF IsFirst

\* A frame is added at the end.
LEMMA OffsetsGrow ==
  ASSUME NEW k \in Nat, NEW n \in Nat, k <= n, NEW m \in Nat, NEW d \in Nat,
         NEW len \in [Nat -> Nat], NEW len2 \in [Nat -> Nat],
         Same(len2, len, 1, n), len2[n + 1] = d, NEW o, Offsets(o, k, n, m, len)
  PROVE  \E o2 : Offsets(o2, k, n + 1, m + d + 3, len2) /\ Same(o2, o, k, n)
<1> DEFINE o2 == [o EXCEPT ![n + 1] = m + d + 3]
<1>1. /\ o \in [Nat -> Int] /\ o[n] = m
      /\ \A i, j \in k..n : i <= j => o[i] <= o[j]
      /\ \A i \in (k + 1)..n : o[i] = o[i - 1] + 3 + len[i]
  BY DEF Offsets
<1>2. /\ o2 \in [Nat -> Int] /\ o2[n + 1] = m + d + 3
      /\ \A i \in Nat : i # n + 1 => o2[i] = o[i]
  BY <1>1
<1> HIDE DEF o2
<1>3. \A i \in k..n : o2[i] = o[i] /\ o[i] \in Int
  BY <1>1, <1>2
<1>4. ASSUME NEW i \in k..(n + 1), NEW j \in k..(n + 1), i <= j PROVE o2[i] <= o2[j]
  <2>1. CASE j \in k..n
    <3>1. i \in k..n
      BY <1>4, <2>1
    <3> QED
      BY <1>1, <1>3, <1>4, <2>1, <3>1
  <2>2. CASE j = n + 1 /\ i = n + 1
    BY <1>2, <2>2
  <2>3. CASE j = n + 1 /\ i \in k..n
    <3>1. o[i] <= o[n]
      BY <1>1, <2>3
    <3> QED
      BY <1>1, <1>2, <1>3, <2>3, <3>1
  <2> QED
    BY <2>1, <2>2, <2>3
<1>5. ASSUME NEW i \in (k + 1)..(n + 1) PROVE o2[i] = o2[i - 1] + 3 + len2[i]
  <2>1. CASE i = n + 1
    <3>1. i - 1 = n /\ n \in k..n
      BY <2>1
    <3> QED
      BY <1>1, <1>2, <1>3, <2>1, <3>1
  <2>2. CASE i \in (k + 1)..n
    <3>1. i \in k..n /\ i - 1 \in k..n /\ i \in 1..n
      BY <2>2
    <3>2. len2[i] = len[i]
      BY <3>1 DEF Same
    <3> QED
      BY <1>1, <1>3, <2>2, <3>1, <3>2
  <2> QED
    BY <2>1, <2>2
<1>6. Offsets(o2, k, n + 1, m + d + 3, len2)
  BY <1>2, <1>4, <1>5 DEF Offsets
<1> QED
  BY <1>3, <1>6 DEF Same

\* The later frames are among the frames.
LEMMA OffsetsFrom ==
  ASSUME NEW k \in Nat, NEW n \in Nat, NEW k2 \in k..n
  PROVE  /\ \A i \in (k2 + 1)..n : i \in (k + 1)..n /\ i - 1 \in Nat /\ i \in Nat
         /\ \A m, len, o : Offsets(o, k, n, m, len) => Offsets(o, k2, n, m, len)
<1>1. \A i \in (k2 + 1)..n : i \in (k + 1)..n /\ i - 1 \in Nat /\ i \in Nat
  OBVIOUS
<1>2. \A i \in k2..n : i \in k..n
  OBVIOUS
<1> QED
  BY <1>1, <1>2 DEF Offsets

\* The first c bytes are taken away.
LEMMA OffsetsRest ==
  ASSUME NEW k \in Nat, NEW n \in Nat, NEW k2 \in k..n, NEW m \in Nat, NEW c \in Nat,
         NEW len \in [Nat -> Nat], NEW o, Offsets(o, k, n, c + m, len)
  PROVE  \E o2 : /\ Offsets(o2, k2, n, m, len)
                 /\ \A i \in Nat : o2[i] = o[i] - c /\ o[i] \in Int
<1> DEFINE o2 == [i \in Nat |-> o[i] - c]
<1>1. /\ o \in [Nat -> Int] /\ o[n] = c + m
      /\ \A i, j \in k..n : i <= j => o[i] <= o[j]
      /\ \A i \in (k + 1)..n : o[i] = o[i - 1] + 3 + len[i]
  BY DEF Offsets
<1>2. o2 \in [Nat -> Int] /\ \A i \in Nat : o2[i] = o[i] - c /\ o[i] \in Int
  BY <1>1
<1> HIDE DEF o2
<1>3. o2[n] = m
  BY <1>1, <1>2
<1>4. ASSUME NEW i \in k2..n, NEW j \in k2..n, i <= j PROVE o2[i] <= o2[j]
  <2>1. i \in k..n /\ j \in k..n /\ i \in Nat /\ j \in Nat
    OBVIOUS
  <2>2. o[i] <= o[j]
    BY <1>1, <1>4, <2>1
  <2> QED
    BY <1>2, <2>1, <2>2
<1>5. ASSUME NEW i \in (k2 + 1)..n PROVE o2[i] = o2[i - 1] + 3 + len[i]
  <2>1. i \in (k + 1)..n /\ i \in Nat /\ i - 1 \in Nat
    OBVIOUS
  <2>2. o[i] = o[i - 1] + 3 + len[i] /\ len[i] \in Nat
    BY <1>1, <2>1
  <2> QED
    BY <1>2, <2>1, <2>2
<1>6. Offsets(o2, k2, n, m, len)
  BY <1>2, <1>3, <1>4, <1>5 DEF Offsets
<1> QED
  BY <1>2, <1>6

\* A frame is where its bytes are.
LEMMA FrameMoved ==
  ASSUME NEW R, NEW T, NEW a \in Int, NEW b \in Int, NEW p, NEW l \in Nat,
         IsFrame(R, a, p, l), \A x \in 1..(3 + l) : T[b + x] = R[a + x]
  PROVE  IsFrame(T, b, p, l)
<1>1. T[b + 1] = R[a + 1] /\ T[b + 2] = R[a + 2]
  OBVIOUS
<1>2. ASSUME NEW j \in 1..l PROVE T[b + 3 + j] = R[a + 3 + j]
  <2>1. 3 + j \in 1..(3 + l) /\ b + (3 + j) = b + 3 + j /\ a + (3 + j) = a + 3 + j
    OBVIOUS
  <2>2. T[b + (3 + j)] = R[a + (3 + j)]
    BY <2>1
  <2> QED
    BY <2>1, <2>2
<1> QED
  BY <1>1, <1>2 DEF IsFrame

\* The bytes of a frame stay where they are when others are written after them.
LEMMA FrameStays ==
  ASSUME NEW R, NEW T, NEW a \in Int, NEW p, NEW l \in Nat, NEW m \in Nat, 0 <= a, a + 3 + l <= m,
         IsFrame(R, a, p, l), Same(T, R, 1, m)
  PROVE  IsFrame(T, a, p, l)
<1>1. \A x \in 1..(3 + l) : a + x \in 1..m
  OBVIOUS
<1> QED
  BY <1>1, FrameMoved DEF Same

\* The bytes of a frame move to the front when others are taken away before them.
LEMMA FrameShifts ==
  ASSUME NEW R, NEW T, NEW a \in Int, NEW p, NEW l \in Nat, NEW m \in Nat, NEW n \in Nat,
         n <= a, a + 3 + l <= n + m, IsFrame(R, a, p, l), \A x \in 1..m : R[n + x] = T[x]
  PROVE  IsFrame(T, a - n, p, l)
<1>1. ASSUME NEW x \in 1..(3 + l) PROVE T[(a - n) + x] = R[a + x]
  <2>1. (a - n) + x \in 1..m /\ n + ((a - n) + x) = a + x
    OBVIOUS
  <2>2. R[n + ((a - n) + x)] = T[(a - n) + x]
    BY <2>1
  <2> QED
    BY <2>1, <2>2
<1>2. a - n \in Int
  OBVIOUS
<1> QED
  BY <1>1, <1>2, FrameMoved

\* A frame is written: the stream grows by it.
LEMMA LaidGrows ==
  ASSUME NEW R \in Seq(Byte), NEW s \in Seq(Bodies), NEW k \in Nat, k <= Len(s),
         NEW a \in Nat, LaidFrom(R, k, s, a), NEW p \in Bodies
  PROVE  LaidFrom(R \o encodeDeviceFrame(p), k, Append(s, p), a)
<1> PICK o : Laid(R, o, k, s) /\ o[k] = a
  BY DEF LaidFrom
<1> PICK R2, s2 : R2 = R \o encodeDeviceFrame(p) /\ s2 = Append(s, p)
  OBVIOUS
<1>0. PICK e : e = encodeDeviceFrame(p)
  OBVIOUS
<1>1. PICK n \in Nat, m \in Nat, d \in Nat :
        n = Len(s) /\ m = Len(R) /\ d = Len(p) /\ k \in k..n /\ k <= n
  BY LenProperties, BodyTyped
<1>2. e \in Seq(Byte) /\ Len(e) = d + 3 /\ IsFrame(e, 0, p, d)
  BY <1>0, <1>1, FrameBytes, Zenon
<1>3. R2 \in Seq(Byte) /\ IsJoin(R2, R, m, e, d + 3)
  <2>1. R2 = R \o e
    BY <1>0
  <2> QED
    BY <1>1, <1>2, <2>1, Join, Zenon
<1>4. /\ Len(R2) = m + d + 3 /\ Same(R2, R, 1, m)
      /\ \A i \in 1..(d + 3) : R2[m + i] = e[i]
  <2>1. m + (d + 3) = m + d + 3
    OBVIOUS
  <2> QED
    BY <1>3, <2>1 DEF IsJoin, Same
<1>5. s2 \in Seq(Bodies) /\ Len(s2) = n + 1 /\ s2[n + 1] = p /\ \A i \in 1..n : s2[i] = s[i]
  BY <1>1, AppendProperties
<1>6. /\ Lens(s) \in [Nat -> Nat] /\ Lens(s2) \in [Nat -> Nat]
      /\ Same(Lens(s2), Lens(s), 1, n) /\ Lens(s2)[n + 1] = d
  <2>1. \A i \in 1..n : i \in 1..(n + 1) 
    OBVIOUS
  <2>2. n + 1 \in 1..(n + 1)
    OBVIOUS
  <2>3. \A i \in 1..n : Lens(s)[i] = Len(s[i])
    BY <1>1, LensTyped, Zenon
  <2>4. \A i \in 1..(n + 1) : Lens(s2)[i] = Len(s2[i])
    BY <1>5, LensTyped, Zenon
  <2> QED
    BY <1>1, <1>5, <2>1, <2>2, <2>3, <2>4, LensTyped, Zenon DEF Same
<1>7. Offsets(o, k, n, m, Lens(s)) /\ \A i \in (k + 1)..n : IsFrame(R, o[i - 1], s[i], Lens(s)[i])
  BY <1>1, Zenon DEF Laid
<1>8. PICK o2 : Offsets(o2, k, n + 1, m + d + 3, Lens(s2)) /\ Same(o2, o, k, n)
  BY <1>1, <1>6, <1>7, OffsetsGrow, Zenon
<1>9. ASSUME NEW i \in (k + 1)..(n + 1) PROVE IsFrame(R2, o2[i - 1], s2[i], Lens(s2)[i])
  <2>1. CASE i = n + 1
    <3>1. IsFrame(R2, m, p, d)
      <4>1. \A x \in 1..(3 + d) : x \in 1..(d + 3) /\ 0 + x = x
        OBVIOUS
      <4>2. \A x \in 1..(3 + d) : R2[m + x] = e[0 + x]
        BY <1>4, <4>1, Zenon
      <4>3. 0 \in Int /\ m \in Int
        OBVIOUS
      <4> QED
        BY <1>2, <4>2, <4>3, FrameMoved, Zenon
    <3>2. i - 1 = n /\ n \in k..n
      BY <1>1, <2>1
    <3>3. o2[i - 1] = m
      <4>1. o[n] = m
        BY <1>7 DEF Offsets
      <4> QED
        BY <1>8, <3>2, <4>1 DEF Same
    <3> QED
      BY <1>5, <1>6, <2>1, <3>1, <3>3, Zenon
  <2>2. CASE i \in (k + 1)..n
    <3>1. i - 1 \in k..n /\ i \in 1..n
      BY <2>2
    <3>2. o2[i - 1] = o[i - 1] /\ s2[i] = s[i] /\ Lens(s2)[i] = Lens(s)[i] /\ Lens(s)[i] \in Nat
      <4>1. i \in Nat
        BY <3>1
      <4> QED
        BY <1>5, <1>6, <1>8, <3>1, <4>1 DEF Same
    <3>3. o[i - 1] \in Int /\ 0 <= o[i - 1] /\ o[i - 1] + 3 + Lens(s)[i] <= m
      <4>1. 0 \in Int /\ m \in Int /\ o[k] >= 0
        OBVIOUS
      <4> QED
        BY <1>6, <1>7, <2>2, <4>1, OffsetsBetween, Zenon
    <3>4. IsFrame(R, o[i - 1], s[i], Lens(s)[i])
      BY <1>7, <2>2, Zenon
    <3>5. IsFrame(R2, o[i - 1], s[i], Lens(s)[i])
      BY <1>4, <3>2, <3>3, <3>4, FrameStays, Zenon
    <3> QED
      BY <3>2, <3>5, Zenon
  <2>3. i = n + 1 \/ i \in (k + 1)..n
    OBVIOUS
  <2> QED
    BY <2>1, <2>2, <2>3
<1>10. Laid(R2, o2, k, s2)
  BY <1>4, <1>5, <1>8, <1>9, Zenon DEF Laid
<1> QED
  BY <1>1, <1>8, <1>10, Zenon DEF Same, LaidFrom

\* Bytes are read: the rest of the stream holds the frames that begin in it.
LEMMA LaidRest ==
  ASSUME NEW h \in Seq(Byte), NEW T \in Seq(Byte), NEW n \in Nat, n = Len(h),
         NEW s \in Seq(Bodies), NEW k \in Nat, NEW k2 \in k..Len(s),
         NEW o, Laid(h \o T, o, k, s), o[k2] >= n
  PROVE  LaidFrom(T, k2, s, o[k2] - n)
<1> PICK R : R = h \o T
  OBVIOUS
<1>1. PICK N \in Nat, m \in Nat, c \in Nat :
        N = Len(s) /\ m = Len(T) /\ c = n /\ k2 \in k..N /\ k2 \in Nat
  <2>1. Len(s) \in Nat /\ Len(T) \in Nat
    BY LenProperties
  <2>2. \A x \in Nat : \A y \in k..x : y \in Nat
    OBVIOUS
  <2> QED
    BY <2>1, <2>2, Zenon
<1>2. Len(R) = c + m /\ \A i \in 1..m : R[c + i] = T[i]
  <2>1. IsJoin(R, h, c, T, m)
    BY <1>1, Join, Zenon
  <2> QED
    BY <2>1 DEF IsJoin
<1>3. k2 \in k..N /\ Offsets(o, k, N, c + m, Lens(s)) /\ \A i \in (k + 1)..N : IsFrame(R, o[i - 1], s[i], Lens(s)[i])
  BY <1>1, <1>2, Zenon DEF Laid
<1>4. Lens(s) \in [Nat -> Nat]
  BY LensTyped, Zenon
<1>5. PICK o2 : /\ Offsets(o2, k2, N, m, Lens(s))
                /\ \A i \in Nat : o2[i] = o[i] - c /\ o[i] \in Int
  BY <1>3, <1>4, OffsetsRest, Zenon
<1>6. ASSUME NEW i \in (k2 + 1)..N PROVE IsFrame(T, o2[i - 1], s[i], Lens(s)[i])
  <2>1. i \in (k + 1)..N /\ i - 1 \in Nat /\ i \in Nat
    BY <1>3, OffsetsFrom, Zenon
  <2>2. Offsets(o, k2, N, c + m, Lens(s)) /\ c + m \in Int /\ c \in Int /\ o[k2] >= c
    <3>1. Offsets(o, k2, N, c + m, Lens(s))
      BY <1>3, OffsetsFrom, Zenon
    <3>2. \A x, y \in Nat : x + y \in Int /\ x \in Int
      OBVIOUS
    <3> QED
      BY <1>1, <3>1, <3>2, Zenon
  <2>3. o[i - 1] \in Int /\ c <= o[i - 1] /\ o[i - 1] + 3 + Lens(s)[i] <= c + m
    BY <1>1, <1>4, <2>2, OffsetsBetween, Zenon
  <2>4. IsFrame(T, o[i - 1] - c, s[i], Lens(s)[i])
    <3>1. IsFrame(R, o[i - 1], s[i], Lens(s)[i]) /\ Lens(s)[i] \in Nat
      BY <1>3, <1>4, <2>1, Zenon
    <3> QED
      BY <1>2, <2>3, <3>1, FrameShifts, Zenon
  <2>5. o2[i - 1] = o[i - 1] - c
    BY <1>5, <2>1, Zenon
  <2> QED
    BY <2>4, <2>5, Zenon
<1>7. Laid(T, o2, k2, s)
  BY <1>1, <1>5, <1>6, Zenon DEF Laid
<1> QED
  BY <1>1, <1>5, <1>7, Zenon DEF LaidFrom

-----------------------------------------------------------------------------
(* Framing: the reader.                                                     *)

\* The bytes a settled read() holds for readFrame, and all bytes under way.
Taken == IF outcome = Unset \/ outcome = Rejected THEN <<>> ELSE outcome[1]
Bytes == Taken \o (buf \o wire)

\* What readFrame awaits; the last frame that is not whole among the bytes under way,
\* or 0 more than those handed over; and how many bytes of it are.
Want == IF reading = "head" THEN 3 ELSE Len(sent[Len(frames) + 1])
Begun == IF reading = "head" THEN Len(frames) ELSE Len(frames) + 1
Ahead == IF reading = "head" THEN 0 ELSE Len(sent[Len(frames) + 1])

FramingTypes ==
  /\ sent \in Seq(Bodies) /\ frames \in Seq(Bodies)
  /\ wire \in Seq(Byte) /\ buf \in Seq(Byte)
  /\ open \in BOOLEAN /\ closed = ~open
  /\ reading \in {"head", "body", "failed"}

\* What was handed over is what was sent first; there is a frame to a body.
Delivered ==
  /\ Len(frames) <= Len(sent) /\ \A i \in 1..Len(frames) : frames[i] = sent[i]
  /\ reading = "body" => Len(frames) < Len(sent)

\* The reader has failed or is about to, which only a closed socket brings about; or
\* it waits for the bytes it wants; or it has just got them.
Reader ==
  \/ ~open /\ outcome = Rejected
  \/ ~open /\ reading = "failed" /\ outcome = Unset
  \/ open /\ reading # "failed" /\ outcome = Unset /\ waiter = Want /\ Len(buf) < Want
  \/ open /\ reading # "failed" /\ \E h \in Seq(Byte) : outcome = <<h>> /\ Len(h) = Want

\* While the socket is open, the bytes under way are the rest of the body that is
\* being read and then the frames that are not handed over, in order.
UnderWay ==
  open => /\ LaidFrom(Bytes, Begun, sent, Ahead)
          /\ reading = "body" =>
               \A j \in 1..Ahead : Bytes[j] = sent[Len(frames) + 1][j]

FramingInv == FramingTypes /\ Delivered /\ Reader /\ UnderWay

\* How a read() settles is not confused with one that is not settled.
LEMMA OutcomesApart ==
  /\ Unset # Rejected /\ Unset \notin Nat
  /\ \A h \in Seq(Byte) : <<h>> # Unset /\ <<h>> # Rejected /\ <<h>>[1] = h
<1>1. <<>> \in Seq(Seq(Byte)) /\ \A h \in Seq(Byte) : <<h>> \in Seq(Seq(Byte))
  OBVIOUS
<1> QED
  BY <1>1, FramingAssumption DEF Rejected

\* What readFrame wants is a number of bytes.
LEMMA Numbers ==
  ASSUME FramingTypes, Delivered, reading # "failed"
  PROVE  /\ Len(sent) \in Nat /\ Len(frames) \in Nat
         /\ Want \in Nat /\ Begun \in Nat /\ Ahead \in Nat /\ Begun <= Len(sent)
         /\ reading = "body" => sent[Len(frames) + 1] \in Bodies
<1>1. Len(sent) \in Nat /\ Len(frames) \in Nat /\ Len(frames) <= Len(sent)
  BY LenProperties DEF FramingTypes, Delivered
<1>2. CASE reading = "head"
  BY <1>1, <1>2 DEF Want, Begun, Ahead
<1>3. CASE reading = "body"
  <2>1. Len(frames) + 1 \in 1..Len(sent)
    BY <1>1, <1>3 DEF Delivered
  <2>2. sent[Len(frames) + 1] \in Bodies
    BY <2>1, ElementOfSeq DEF FramingTypes
  <2> QED
    BY <1>1, <1>3, <2>1, <2>2, BodyTyped DEF Want, Begun, Ahead
<1> QED
  BY <1>2, <1>3 DEF FramingTypes

\* _drain moves bytes from the buffer to the read() it settles, and loses none.
LEMMA DrainKeeps ==
  ASSUME NEW b \in Seq(Byte), NEW w \in Nat, NEW isClosed \in BOOLEAN, Drain(b, w, isClosed)
  PROVE  \/ \E h \in Seq(Byte) :
              /\ outcome' = <<h>> /\ Len(h) = w
              /\ buf' \in Seq(Byte) /\ h \o buf' = b /\ Len(b) >= w
         \/ isClosed /\ outcome' = Rejected /\ buf' = b
         \/ ~isClosed /\ outcome' = Unset /\ waiter' = w /\ buf' = b /\ Len(b) < w
<1>1. w # Unset /\ Len(b) \in Nat
  BY OutcomesApart, LenProperties
<1>2. CASE Len(b) >= w
  <2>1. outcome' = <<First(b, w)>> /\ buf' = Drop(b, w)
    BY <1>1, <1>2 DEF Drain, Enough, Resolved
  <2>2. /\ First(b, w) \in Seq(Byte) /\ Drop(b, w) \in Seq(Byte) /\ Len(First(b, w)) = w
        /\ First(b, w) \o Drop(b, w) = b
    BY <1>1, <1>2, Cut
  <2> QED
    BY <2>1, <2>2
<1>3. CASE ~(Len(b) >= w)
  BY <1>1, <1>3 DEF Drain, Enough
<1> QED
  BY <1>2, <1>3

\* After _drain the reader waits, has its bytes or is rejected, and the bytes under way
\* are those of the buffer it was given and of the wire.
LEMMA DrainReads ==
  ASSUME NEW b \in Seq(Byte), NEW w \in Nat, Drain(b, w, closed),
         closed = ~open, open, UNCHANGED <<open, closed>>, wire' \in Seq(Byte)
  PROVE  /\ buf' \in Seq(Byte) /\ Bytes' = b \o wire'
         /\ \/ outcome' = Unset /\ waiter' = w /\ Len(buf') < w
            \/ \E h \in Seq(Byte) : outcome' = <<h>> /\ Len(h) = w
<1>1. closed \in BOOLEAN /\ ~closed
  OBVIOUS
<1>2. CASE \E h \in Seq(Byte) :
             /\ outcome' = <<h>> /\ Len(h) = w /\ buf' \in Seq(Byte) /\ h \o buf' = b
  <2>1. PICK h \in Seq(Byte) :
          /\ outcome' = <<h>> /\ Len(h) = w /\ buf' \in Seq(Byte) /\ h \o buf' = b
    BY <1>2
  <2>2. Taken' = h
    BY <2>1, OutcomesApart DEF Taken
  <2>3. h \o (buf' \o wire') = (h \o buf') \o wire'
    <3>1. IsRegrouped(h, buf', wire')
      BY <2>1, Joined, Zenon
    <3> QED
      BY <3>1, Zenon DEF IsRegrouped
  <2> QED
    BY <2>1, <2>2, <2>3 DEF Bytes
<1>3. CASE outcome' = Unset /\ waiter' = w /\ buf' = b /\ Len(b) < w
  <2>1. Taken' = <<>>
    BY <1>3 DEF Taken
  <2>2. <<>> \o (b \o wire') = b \o wire'
    BY ConcatEmptySeq, ConcatProperties
  <2> QED
    BY <1>3, <2>1, <2>2 DEF Bytes
<1> QED
  BY <1>1, <1>2, <1>3, DrainKeeps

\* The bytes under way are bytes.
LEMMA BytesTyped ==
  ASSUME FramingTypes, Reader
  PROVE  Taken \in Seq(Byte) /\ Bytes \in Seq(Byte)
<1>1. Taken \in Seq(Byte)
  BY OutcomesApart, EmptySeq DEF Reader, Taken
<1> QED
  BY <1>1, ConcatProperties DEF FramingTypes, Bytes

-----------------------------------------------------------------------------
(* Framing: the steps.                                                      *)

\* DeviceWrite: the bytes and the frames under way grow by a frame.
LEMMA WriteKeeps ==
  ASSUME FramingInv, NEW p \in Bodies, DeviceWrite(p)
  PROVE  FramingInv' /\ Want' = Want
<1> DEFINE e == encodeDeviceFrame(p)
           f == Len(frames)
<1>1. /\ open /\ sent' = Append(sent, p) /\ wire' = wire \o e
      /\ open' = open /\ buf' = buf /\ closed' = closed /\ waiter' = waiter
      /\ outcome' = outcome /\ reading' = reading /\ frames' = frames
  BY DEF DeviceWrite, queueVars
<1>2. e \in Seq(Byte) /\ p \in Seq(Byte)
  BY FrameBytes, BodyTyped
<1> HIDE DEF e
<1>3. FramingTypes /\ Delivered /\ Reader /\ UnderWay
  BY DEF FramingInv
<1>4. PICK n \in Nat : n = Len(sent) /\ f \in Nat /\ f <= n
  BY <1>3, LenProperties DEF FramingTypes, Delivered
<1>5. /\ sent' \in Seq(Bodies) /\ Len(sent') = n + 1
      /\ \A i \in 1..n : sent'[i] = sent[i]
  BY <1>1, <1>3, <1>4, AppendProperties DEF FramingTypes
<1>6. FramingTypes'
  BY <1>1, <1>2, <1>3, <1>5, ConcatProperties DEF FramingTypes
<1>7. Delivered'
  BY <1>1, <1>3, <1>4, <1>5 DEF Delivered
<1>8. Want' = Want /\ Begun' = Begun /\ Ahead' = Ahead
      /\ (reading = "body" => sent'[f + 1] = sent[f + 1])
  <2>1. CASE reading = "body"
    <3>1. f + 1 \in 1..n
      BY <1>3, <1>4, <2>1 DEF Delivered
    <3> QED
      BY <1>1, <1>5, <2>1, <3>1 DEF Want, Begun, Ahead
  <2>2. CASE reading = "head"
    BY <1>1, <2>2 DEF Want, Begun, Ahead
  <2> QED
    BY <1>1, <1>3, <2>1, <2>2 DEF FramingTypes, Reader
<1>9. Reader'
  BY <1>1, <1>3, <1>8 DEF Reader
<1>10. Bytes \in Seq(Byte) /\ Bytes' = Bytes \o e
  <2>1. Taken \in Seq(Byte) /\ Taken' = Taken /\ Bytes \in Seq(Byte)
    BY <1>1, <1>3, BytesTyped DEF Taken
  <2>2. buf \o (wire \o e) = (buf \o wire) \o e /\ buf \o wire \in Seq(Byte)
    <3>1. buf \in Seq(Byte) /\ wire \in Seq(Byte)
      BY <1>3 DEF FramingTypes
    <3>2. buf \o wire \in Seq(Byte) /\ IsRegrouped(buf, wire, e)
      BY <1>2, <3>1, Joined, Zenon
    <3> QED
      BY <3>2, Zenon DEF IsRegrouped
  <2>3. Taken \o ((buf \o wire) \o e) = (Taken \o (buf \o wire)) \o e
    <3>1. IsRegrouped(Taken, buf \o wire, e)
      BY <1>2, <2>1, <2>2, Joined, Zenon
    <3> QED
      BY <3>1, Zenon DEF IsRegrouped
  <2> QED
    BY <1>1, <2>1, <2>2, <2>3 DEF Bytes
<1>11. UnderWay'
  <2>1. LaidFrom(Bytes, Begun, sent, Ahead)
    BY <1>1, <1>3 DEF UnderWay
  <2>2. reading # "failed" /\ Begun \in Nat /\ Begun <= Len(sent) /\ Ahead \in Nat
    BY <1>1, <1>3, Numbers DEF Reader
  <2>3. LaidFrom(Bytes', Begun, sent', Ahead)
    <3>1. sent \in Seq(Bodies) /\ Bytes' = Bytes \o encodeDeviceFrame(p)
      BY <1>3, <1>10 DEF FramingTypes, e
    <3>2. LaidFrom(Bytes \o encodeDeviceFrame(p), Begun, Append(sent, p), Ahead)
      BY <1>10, <2>1, <2>2, <3>1, LaidGrows, Zenon
    <3> QED
      BY <1>1, <3>1, <3>2, Zenon
  <2>4. PICK m \in Nat, d \in Nat : m = Len(Bytes) /\ d = Len(e)
    BY <1>2, <1>10, LenProperties
  <2>5. Ahead <= m
    <3>1. PICK o : Laid(Bytes, o, Begun, sent) /\ o[Begun] = Ahead
      BY <2>1, Zenon DEF LaidFrom
    <3>2. Offsets(o, Begun, n, m, Lens(sent)) /\ Begun <= n
      BY <1>4, <2>2, <2>4, <3>1, Zenon DEF Laid
    <3> QED
      BY <2>2, <3>1, <3>2, OffsetsEnd, Zenon
  <2>6. ASSUME reading = "body", NEW j \in 1..Ahead PROVE Bytes'[j] = sent'[f + 1][j]
    <3>1. IsJoin(Bytes', Bytes, m, e, d)
      BY <1>2, <1>10, <2>4, Join, Zenon
    <3>2. j \in 1..m
      BY <2>2, <2>5
    <3>3. Bytes'[j] = Bytes[j]
      BY <3>1, <3>2, Zenon DEF IsJoin
    <3>4. Bytes[j] = sent[f + 1][j]
      BY <1>1, <1>3, <2>6, Zenon DEF UnderWay
    <3> QED
      BY <1>8, <2>6, <3>3, <3>4, Zenon
  <2> QED
    BY <1>1, <1>8, <2>1, <2>3, <2>6 DEF UnderWay
<1> QED
  BY <1>6, <1>7, <1>8, <1>9, <1>11 DEF FramingInv

\* Data: the bytes of the chunk stay under way.
LEMMA DataKeeps ==
  ASSUME FramingInv, NEW n \in 1..Len(wire), Data(n)
  PROVE  FramingInv'
<1> DEFINE chunk == First(wire, n)
<1>1. /\ open /\ outcome = Unset /\ wire' = Drop(wire, n) /\ Drain(buf \o chunk, waiter, closed)
      /\ UNCHANGED <<sent, open, closed, reading, frames>>
  BY DEF Data
<1>2. FramingTypes /\ Delivered /\ Reader /\ UnderWay
  BY DEF FramingInv
<1>3. waiter = Want /\ reading # "failed"
  BY <1>1, <1>2, OutcomesApart DEF Reader
<1>4. Want \in Nat /\ Want' = Want /\ Begun' = Begun /\ Ahead' = Ahead
  BY <1>1, <1>2, <1>3, Numbers DEF Want, Begun, Ahead
<1>5. /\ chunk \in Seq(Byte) /\ wire' \in Seq(Byte) /\ chunk \o wire' = wire
  <2>1. wire \in Seq(Byte) /\ n \in Nat /\ n <= Len(wire)
    BY <1>2, LenProperties DEF FramingTypes
  <2> QED
    BY <1>1, <2>1, Cut
<1> HIDE DEF chunk
<1>6. buf \o chunk \in Seq(Byte) /\ (buf \o chunk) \o wire' = buf \o wire
  <2>1. buf \in Seq(Byte)
    BY <1>2 DEF FramingTypes
  <2>2. buf \o chunk \in Seq(Byte) /\ IsRegrouped(buf, chunk, wire')
    BY <1>5, <2>1, Joined, Zenon
  <2> QED
    BY <1>5, <2>2, Zenon DEF IsRegrouped
<1>7. /\ buf' \in Seq(Byte) /\ Bytes' = (buf \o chunk) \o wire'
      /\ \/ outcome' = Unset /\ waiter' = Want /\ Len(buf') < Want
         \/ \E h \in Seq(Byte) : outcome' = <<h>> /\ Len(h) = Want
  BY <1>1, <1>2, <1>3, <1>4, <1>5, <1>6, DrainReads, chunk = First(wire, n) DEF FramingTypes, chunk
<1>8. Bytes = buf \o wire
  <2>1. Taken = <<>> /\ buf \o wire \in Seq(Byte)
    BY <1>1, <1>2, ConcatProperties DEF Taken, FramingTypes
  <2> QED
    BY <2>1, ConcatEmptySeq DEF Bytes
<1>9. Bytes' = Bytes
  BY <1>6, <1>7, <1>8
<1>10. FramingTypes'
  BY <1>1, <1>2, <1>5, <1>7 DEF FramingTypes
<1>11. Delivered'
  BY <1>1, <1>2 DEF Delivered
<1>12. Reader'
  BY <1>1, <1>3, <1>4, <1>7 DEF Reader
<1>13. UnderWay'
  BY <1>1, <1>2, <1>4, <1>9 DEF UnderWay
<1> QED
  BY <1>10, <1>11, <1>12, <1>13 DEF FramingInv

\* SocketClose: the read() that waits has too few bytes and is rejected.
LEMMA CloseKeeps ==
  ASSUME FramingInv, SocketClose
  PROVE  FramingInv'
<1>1. /\ open /\ outcome = Unset /\ open' = FALSE /\ closed' = TRUE /\ wire' = <<>>
      /\ Drain(buf, waiter, TRUE) /\ UNCHANGED <<sent, reading, frames>>
  BY DEF SocketClose
<1>2. FramingTypes /\ Delivered /\ Reader /\ UnderWay
  BY DEF FramingInv
<1>3. waiter = Want /\ reading # "failed" /\ Len(buf) < Want
  BY <1>1, <1>2, OutcomesApart DEF Reader
<1>4. Want \in Nat /\ buf \in Seq(Byte) /\ Len(buf) \in Nat
  <2>1. Want \in Nat
    BY <1>2, <1>3, Numbers, Zenon
  <2>2. buf \in Seq(Byte)
    BY <1>2 DEF FramingTypes
  <2> QED
    BY <2>1, <2>2, LenProperties
<1>5. outcome' = Rejected /\ buf' = buf
  <2>1. Drain(buf, Want, TRUE)
    BY <1>1, <1>3, Zenon
  <2>2. ~(Len(buf) >= Want)
    BY <1>3, <1>4
  <2> QED
    BY <1>4, <2>1, <2>2, DrainKeeps
<1>6. FramingTypes'
  <2>1. wire' \in Seq(Byte)
    BY <1>1, EmptySeq
  <2> QED
    BY <1>1, <1>2, <1>5, <2>1 DEF FramingTypes
<1>7. Delivered'
  BY <1>1, <1>2 DEF Delivered
<1>8. Reader' /\ UnderWay'
  BY <1>1, <1>5 DEF Reader, UnderWay
<1> QED
  BY <1>6, <1>7, <1>8 DEF FramingInv

\* Continue after a header: it tells the length of the body that follows.
LEMMA HeadKeeps ==
  ASSUME FramingInv, Continue, open, reading = "head"
  PROVE  FramingInv' /\ frames' = frames /\ Want' = readLength(outcome[1])
<1> DEFINE f == Len(frames)
           T == buf \o wire
<1>1. FramingTypes /\ Delivered /\ Reader /\ UnderWay
  BY DEF FramingInv
<1>2. PICK h \in Seq(Byte) : outcome = <<h>> /\ Len(h) = 3
  BY <1>1 DEF Reader, Continue, Want
<1>3. /\ reading' = "body" /\ Drain(buf, readLength(h), closed) /\ frames' = frames
      /\ UNCHANGED <<sent, wire, open, closed>>
  BY <1>2, OutcomesApart DEF Continue
<1>4. PICK N \in Nat : N = Len(sent) /\ f \in Nat /\ f <= N
  BY <1>1, Numbers DEF Delivered
<1>5. T \in Seq(Byte) /\ Bytes = h \o T
  BY <1>1, <1>2, OutcomesApart, ConcatProperties DEF FramingTypes, Bytes, Taken
<1>6. PICK o : Laid(Bytes, o, f, sent) /\ o[f] = 0
  BY <1>1 DEF UnderWay, Begun, Ahead, LaidFrom
<1> HIDE DEF T
<1>7. PICK m \in Nat : m = Len(T) /\ IsJoin(Bytes, h, 3, T, m)
  <2>1. PICK m \in Nat : m = Len(T)
    BY <1>5, LenProperties
  <2> QED
    BY <1>2, <1>5, <2>1, Join, Zenon
<1>8. /\ Len(Bytes) = 3 + m /\ Bytes[1] = h[1] /\ Bytes[2] = h[2]
      /\ \A j \in 1..m : Bytes[3 + j] = T[j]
  BY <1>7 DEF IsJoin
<1>9. /\ Offsets(o, f, N, 3 + m, Lens(sent)) /\ Lens(sent) \in [Nat -> Nat]
      /\ \A i \in (f + 1)..N : IsFrame(Bytes, o[i - 1], sent[i], Lens(sent)[i])
  <2>1. sent \in Seq(Bodies)
    BY <1>1 DEF FramingTypes
  <2> QED
    BY <1>4, <1>6, <1>8, <2>1, LensTyped, Zenon DEF Laid
<1>10. /\ f < N /\ f + 1 \in f..N /\ f + 1 \in (f + 1)..N /\ f + 1 \in 1..N
       /\ (f + 1) - 1 = f
       /\ Lens(sent)[f + 1] \in Nat /\ o[f + 1] = 3 + Lens(sent)[f + 1]
       /\ 3 + Lens(sent)[f + 1] <= 3 + m
  <2>1. 3 + m \in Nat /\ 3 + m > 0
    OBVIOUS
  <2>2. IsFirst(o, f, N, 3 + m, Lens(sent))
    BY <1>4, <1>6, <1>9, <2>1, OffsetsFirst, Zenon
  <2> QED
    BY <2>2, Zenon DEF IsFirst
<1>11. PICK l \in Nat :
         /\ l = Len(sent[f + 1]) /\ o[f + 1] = 3 + l /\ 3 + l <= 3 + m
         /\ IsFrame(Bytes, 0, sent[f + 1], l) /\ sent[f + 1] \in Bodies
  <2>1. sent \in Seq(Bodies)
    BY <1>1 DEF FramingTypes
  <2>2. Lens(sent)[f + 1] = Len(sent[f + 1])
    BY <1>4, <1>10, <2>1, LensTyped, Zenon
  <2>3. sent[f + 1] \in Bodies
    BY <1>4, <1>10, <2>1, ElementOfSeq, Zenon
  <2>4. IsFrame(Bytes, 0, sent[f + 1], Lens(sent)[f + 1])
    BY <1>6, <1>9, <1>10, Zenon
  <2> QED
    BY <1>10, <2>2, <2>3, <2>4, Zenon
<1>12. readLength(h) = l
  <2>1. Bytes[1] = l \div Base /\ Bytes[2] = l % Base
    <3>1. 0 + 1 = 1 /\ 0 + 2 = 2
      OBVIOUS
    <3> QED
      BY <1>11, <3>1 DEF IsFrame
  <2> QED
    BY <1>8, <1>11, <2>1, LengthBack DEF readLength
<1>13. /\ buf' \in Seq(Byte) /\ Bytes' = T
       /\ \/ outcome' = Unset /\ waiter' = l /\ Len(buf') < l
          \/ \E g \in Seq(Byte) : outcome' = <<g>> /\ Len(g) = l
  <2>1. Drain(buf, l, closed) /\ buf \in Seq(Byte) /\ wire' \in Seq(Byte) /\ wire' = wire /\ closed = ~open
    BY <1>1, <1>3, <1>12 DEF FramingTypes
  <2>2. /\ buf' \in Seq(Byte) /\ Bytes' = buf \o wire'
        /\ \/ outcome' = Unset /\ waiter' = l /\ Len(buf') < l
           \/ \E g \in Seq(Byte) : outcome' = <<g>> /\ Len(g) = l
    BY <1>3, <2>1, DrainReads
  <2> QED
    BY <2>1, <2>2 DEF T
<1>14. Want' = l /\ Begun' = f + 1 /\ Ahead' = l
  BY <1>3, <1>11 DEF Want, Begun, Ahead
<1>15. LaidFrom(T, f + 1, sent, l)
  <2>1. o[f + 1] >= 3 /\ o[f + 1] - 3 = l
    BY <1>11
  <2>2. sent \in Seq(Bodies) /\ f + 1 \in f..Len(sent)
    BY <1>1, <1>4, <1>10 DEF FramingTypes
  <2>3. 3 \in Nat /\ Laid(h \o T, o, f, sent) /\ f \in Nat
    BY <1>4, <1>5, <1>6
  <2>4. LaidFrom(T, f + 1, sent, o[f + 1] - 3)
    BY <1>2, <1>5, <2>1, <2>2, <2>3, LaidRest, Zenon
  <2> QED
    BY <2>1, <2>4, Zenon
<1>16. ASSUME NEW j \in 1..l PROVE T[j] = sent[f + 1][j]
  <2>1. \A x, y \in Nat : 3 + x <= 3 + y => \A i \in 1..x : i \in 1..y /\ 0 + 3 + i = 3 + i
    OBVIOUS
  <2>2. j \in 1..m /\ 0 + 3 + j = 3 + j
    BY <1>11, <2>1, Zenon
  <2>3. Bytes[3 + j] = T[j]
    BY <1>8, <2>2, Zenon
  <2>4. Bytes[0 + 3 + j] = sent[f + 1][j]
    BY <1>11, Zenon DEF IsFrame
  <2> QED
    BY <2>2, <2>3, <2>4
<1>17. FramingTypes'
  BY <1>1, <1>3, <1>13 DEF FramingTypes
<1>18. Delivered'
  BY <1>1, <1>3, <1>4, <1>10 DEF Delivered
<1>19. Reader'
  BY <1>3, <1>13, <1>14 DEF Reader
<1>20. UnderWay'
  BY <1>3, <1>13, <1>14, <1>15, <1>16 DEF UnderWay
<1>21. Want' = readLength(outcome[1])
  BY <1>2, <1>12, <1>14, OutcomesApart
<1> QED
  BY <1>3, <1>17, <1>18, <1>19, <1>20, <1>21 DEF FramingInv

\* Continue after a body: it is that of the next frame, which is handed over.
LEMMA BodyKeeps ==
  ASSUME FramingInv, Continue, open, reading = "body"
  PROVE  /\ FramingInv' /\ Len(frames) < Len(sent)
         /\ frames' = Append(frames, sent[Len(frames) + 1])
<1> DEFINE f == Len(frames)
           T == buf \o wire
           p == sent[f + 1]
<1>1. FramingTypes /\ Delivered /\ Reader /\ UnderWay
  BY DEF FramingInv
<1>2. PICK N \in Nat : N = Len(sent) /\ f \in Nat /\ f < N /\ p \in Bodies
  BY <1>1, Numbers DEF Delivered
<1>3. PICK l \in Nat : l = Len(p) /\ p \in Seq(Byte)
  BY <1>2, BodyTyped
<1>4. PICK h \in Seq(Byte) : outcome = <<h>> /\ Len(h) = l
  BY <1>1, <1>3 DEF Reader, Continue, Want
<1>5. /\ reading' = "head" /\ Drain(buf, 3, closed) /\ frames' = Append(frames, h)
      /\ UNCHANGED <<sent, wire, open, closed>>
  BY <1>4, OutcomesApart DEF Continue
<1>6. T \in Seq(Byte) /\ Bytes = h \o T
  BY <1>1, <1>4, OutcomesApart, ConcatProperties DEF FramingTypes, Bytes, Taken
<1>7. PICK o : Laid(Bytes, o, f + 1, sent) /\ o[f + 1] = l
  BY <1>1, <1>3 DEF UnderWay, Begun, Ahead, LaidFrom
<1>8. \A j \in 1..l : Bytes[j] = p[j]
  BY <1>1, <1>3 DEF UnderWay, Ahead
<1> HIDE DEF T
<1>9. h = p
  <2>1. PICK m \in Nat : m = Len(T)
    BY <1>6, LenProperties
  <2>2. IsJoin(Bytes, h, l, T, m)
    BY <1>4, <1>6, <2>1, Join, Zenon
  <2>3. ASSUME NEW j \in 1..l PROVE h[j] = p[j]
    BY <1>8, <2>2, Zenon DEF IsJoin
  <2> QED
    BY <1>3, <1>4, <2>3, SeqEqual
<1> HIDE DEF p
<1>10. /\ frames' \in Seq(Bodies) /\ Len(frames') = f + 1 /\ frames'[f + 1] = p
       /\ \A i \in 1..f : frames'[i] = frames[i]
  BY <1>1, <1>2, <1>5, <1>9, AppendProperties DEF FramingTypes
<1>11. /\ buf' \in Seq(Byte) /\ Bytes' = T
       /\ \/ outcome' = Unset /\ waiter' = 3 /\ Len(buf') < 3
          \/ \E g \in Seq(Byte) : outcome' = <<g>> /\ Len(g) = 3
  <2>1. /\ Drain(buf, 3, closed) /\ 3 \in Nat /\ buf \in Seq(Byte) /\ wire' \in Seq(Byte)
        /\ wire' = wire /\ closed = ~open
    BY <1>1, <1>5 DEF FramingTypes
  <2>2. /\ buf' \in Seq(Byte) /\ Bytes' = buf \o wire'
        /\ \/ outcome' = Unset /\ waiter' = 3 /\ Len(buf') < 3
           \/ \E g \in Seq(Byte) : outcome' = <<g>> /\ Len(g) = 3
    BY <1>5, <2>1, DrainReads
  <2> QED
    BY <2>1, <2>2 DEF T
<1>12. Want' = 3 /\ Begun' = f + 1 /\ Ahead' = 0
  BY <1>5, <1>10 DEF Want, Begun, Ahead
<1>13. LaidFrom(T, f + 1, sent, 0)
  <2>1. f + 1 \in (f + 1)..Len(sent) /\ f + 1 \in Nat /\ o[f + 1] >= l /\ o[f + 1] - l = 0
    BY <1>2, <1>3, <1>7
  <2>2. sent \in Seq(Bodies) /\ l = Len(h) /\ Laid(h \o T, o, f + 1, sent)
    BY <1>1, <1>4, <1>6, <1>7 DEF FramingTypes
  <2>3. LaidFrom(T, f + 1, sent, o[f + 1] - l)
    BY <1>6, <2>1, <2>2, LaidRest, Zenon
  <2> QED
    BY <2>1, <2>3, Zenon
<1>14. FramingTypes'
  BY <1>1, <1>5, <1>10, <1>11 DEF FramingTypes
<1>15. Delivered'
  <2>1. ASSUME NEW i \in 1..(f + 1) PROVE frames'[i] = sent[i]
    BY <1>1, <1>2, <1>10, <2>1 DEF Delivered, p
  <2> QED
    BY <1>2, <1>5, <1>10, <2>1 DEF Delivered
<1>16. Reader'
  BY <1>5, <1>11, <1>12 DEF Reader
<1>17. UnderWay'
  BY <1>5, <1>11, <1>12, <1>13 DEF UnderWay
<1> QED
  BY <1>2, <1>5, <1>9, <1>14, <1>15, <1>16, <1>17 DEF FramingInv, p

\* Continue after a rejection: readFrame throws, and nothing is read any more.
LEMMA FailKeeps ==
  ASSUME FramingInv, Continue, ~open
  PROVE  FramingInv' /\ frames' = frames /\ sent' = sent
<1>1. FramingTypes /\ Delivered /\ Reader
  BY DEF FramingInv
<1>2. outcome = Rejected
  BY <1>1 DEF Reader, Continue
<1>3. /\ reading' = "failed" /\ outcome' = Unset
      /\ UNCHANGED <<buf, waiter, frames, sent, wire, open, closed>>
  BY <1>2 DEF Continue
<1> QED
  BY <1>1, <1>3 DEF FramingInv, FramingTypes, Delivered, Reader, UnderWay

-----------------------------------------------------------------------------
(* Framing: the theorems.                                                   *)

\* At first nothing is under way.
LEMMA FramingBegin == FramingInit => FramingInv
<1> SUFFICES ASSUME FramingInit PROVE FramingInv
  OBVIOUS
<1>1. Len(sent) = 0 /\ Len(frames) = 0 /\ Bytes = <<>> /\ Len(Bytes) = 0 /\ Len(buf) = 0
  <2>1. <<>> \o (<<>> \o <<>>) = <<>> /\ Len(<<>>) = 0
    OBVIOUS
  <2> QED
    BY <2>1 DEF FramingInit, Bytes, Taken
<1> DEFINE o == [i \in Nat |-> 0]
<1>2. Laid(Bytes, o, 0, sent) /\ o[0] = 0
  <2>1. Offsets(o, 0, 0, 0, Lens(sent)) /\ o[0] = 0
    BY DEF Offsets
  <2>2. \A i \in (0 + 1)..0 : FALSE
    OBVIOUS
  <2> HIDE DEF o
  <2> QED
    BY <1>1, <2>1, <2>2 DEF Laid
<1> HIDE DEF o
<1>3. UnderWay
  BY <1>1, <1>2 DEF FramingInit, UnderWay, Begun, Ahead, LaidFrom
<1>4. FramingTypes
  BY EmptySeq DEF FramingInit, FramingTypes
<1>5. Delivered
  BY <1>1 DEF FramingInit, Delivered
<1>6. Reader
  BY <1>1 DEF FramingInit, Reader, Want
<1> QED
  BY <1>3, <1>4, <1>5, <1>6 DEF FramingInv

\* Every step keeps the invariant.
LEMMA FramingStep == FramingInv /\ [FramingNext]_framingVars => FramingInv'
<1> SUFFICES ASSUME FramingInv, [FramingNext]_framingVars PROVE FramingInv'
  OBVIOUS
<1>1. CASE UNCHANGED framingVars
  BY <1>1 DEF framingVars, queueVars, FramingInv, FramingTypes, Delivered, Reader, UnderWay,
              Bytes, Taken, Want, Begun, Ahead
<1>2. CASE Continue
  BY <1>2, HeadKeeps, BodyKeeps, FailKeeps DEF FramingInv, Reader, FramingTypes, Continue
<1> QED
  BY <1>1, <1>2, WriteKeeps, DataKeeps, CloseKeeps DEF FramingNext

\* A frame is put into the pipe.
LEMMA PipeGrows ==
  ASSUME NEW s \in Seq(Bodies), NEW f \in Nat, f <= Len(s), NEW p \in Bodies
  PROVE  SubSeq(Append(s, p), f + 1, Len(Append(s, p))) = Append(SubSeq(s, f + 1, Len(s)), p)
<1>1. PICK t, a, b, c :
        /\ t = Append(s, p) /\ b = SubSeq(t, f + 1, Len(t))
        /\ a = SubSeq(s, f + 1, Len(s)) /\ c = Append(a, p)
  OBVIOUS
<1>2. PICK d \in Nat : Len(s) = f + d /\ f + d \in Nat
  <2>1. Len(s) \in Nat
    BY LenProperties
  <2> QED
    BY <2>1, Excess, Zenon
<1>3. t \in Seq(Bodies) /\ IsAdded(t, s, f + d, p)
  BY <1>1, <1>2, Added, Zenon
<1>4. d + 1 \in Nat /\ Len(t) = f + (d + 1)
  BY <1>3 DEF IsAdded
<1>5. a \in Seq(Bodies) /\ IsPart(a, s, f, d)
  BY <1>1, <1>2, RestOf, Zenon
<1>6. b \in Seq(Bodies) /\ IsPart(b, t, f, d + 1)
  BY <1>1, <1>3, <1>4, RestOf, Zenon
<1>7. Len(a) = d
  BY <1>5, Zenon DEF IsPart
<1>8. c \in Seq(Bodies) /\ IsAdded(c, a, d, p)
  BY <1>1, <1>5, <1>7, Added, Zenon
<1>9. IsPart(c, t, f, d + 1)
  BY <1>3, <1>5, <1>8, PartGrows, Zenon
<1>10. b = c
  BY <1>4, <1>6, <1>8, <1>9, OnePart, Zenon
<1> QED
  BY <1>1, <1>10, Zenon

\* A frame is taken out of it.
LEMMA PipeTaken ==
  ASSUME NEW s \in Seq(Bodies), NEW f \in Nat, f < Len(s),
         NEW pipe, pipe = SubSeq(s, f + 1, Len(s)), NEW r \in Seq(Bodies)
  PROVE  /\ 1 \in 1..Len(pipe)
         /\ Append(r, s[f + 1]) = r \o SubSeq(pipe, 1, 1)
         /\ SubSeq(s, (f + 1) + 1, Len(s)) = SubSeq(pipe, 1 + 1, Len(pipe))
<1>1. PICK d \in Nat :
        /\ Len(s) = f + (d + 1) /\ Len(s) = (f + 1) + d /\ d + 1 \in Nat
        /\ f + 1 \in Nat /\ f + 1 \in 1..Len(s)
  <2>1. Len(s) \in Nat
    BY LenProperties
  <2>2. PICK d \in Nat : Len(s) = (f + 1) + d /\ Len(s) = f + (d + 1)
    BY <2>1, Excess, Zenon
  <2>3. f + 1 \in Nat /\ f + 1 \in 1..Len(s)
    BY <2>1, Excess, Zenon
  <2>4. d + 1 \in Nat
    OBVIOUS
  <2> QED
    BY <2>2, <2>3, <2>4, Zenon
<1>2. pipe \in Seq(Bodies) /\ IsPart(pipe, s, f, d + 1)
  BY <1>1, RestOf, Zenon
<1>3. Len(pipe) = d + 1 /\ pipe[1] = s[f + 1] /\ s[f + 1] \in Bodies
  <2>1. 1 \in 1..(d + 1)
    OBVIOUS
  <2> QED
    BY <1>1, <1>2, <2>1, ElementOfSeq DEF IsPart
<1>4. SubSeq(pipe, 1, 1) = <<s[f + 1]>>
  <2>1. PICK x : x = s[f + 1]
    OBVIOUS
  <2>2. PICK b : b = SubSeq(pipe, 1, 1)
    OBVIOUS
  <2>3. b \in Seq(Bodies) /\ Len(b) = 1 /\ b[1] = x
    <3>1. 1 \in Int /\ \A i \in 1..1 : pipe[i] \in Bodies
      BY <1>3
    <3>2. /\ b \in Seq(Bodies) /\ Len(b) = IF 1 <= 1 THEN 1 - 1 + 1 ELSE 0
          /\ \A i \in 1..(1 - 1 + 1) : b[i] = pipe[1 + i - 1]
      BY <1>2, <2>2, <3>1, SubSeqProperties
    <3>3. b[1] = pipe[1 + 1 - 1] /\ 1 + 1 - 1 = 1
      BY <3>2
    <3> QED
      BY <1>3, <2>1, <3>2, <3>3
  <2>4. <<x>> \in Seq(Bodies) /\ Len(<<x>>) = 1 /\ <<x>>[1] = x
    BY <1>3, <2>1
  <2>5. b = <<x>>
    BY <2>3, <2>4, SeqEqual
  <2> QED
    BY <2>1, <2>2, <2>5
<1>5. Append(r, s[f + 1]) = r \o <<s[f + 1]>>
  BY <1>3, AppendIsConcat, Zenon
<1>6. PICK a, b : a = SubSeq(s, (f + 1) + 1, Len(s)) /\ b = SubSeq(pipe, 1 + 1, Len(pipe))
  OBVIOUS
<1>7. a \in Seq(Bodies) /\ IsPart(a, s, f + 1, d)
  BY <1>1, <1>6, RestOf, Zenon
<1>8. b \in Seq(Bodies) /\ IsPart(b, pipe, 1, d)
  <2>1. 1 \in Nat /\ Len(pipe) = 1 + d
    BY <1>3
  <2> QED
    BY <1>2, <1>6, <2>1, RestOf, Zenon
<1>9. IsPart(b, s, f + 1, d)
  BY <1>2, <1>8, PartOfPart, Zenon
<1>10. a = b
  BY <1>7, <1>8, <1>9, OnePart, Zenon
<1>11. 1 \in 1..Len(pipe)
  BY <1>3
<1> QED
  BY <1>4, <1>5, <1>6, <1>10, <1>11, Zenon

\* Every step puts a frame into the pipe, takes one out of it, or is internal.
LEMMA StreamStep ==
  ASSUME FramingInv, [FramingNext]_framingVars
  PROVE  [Stream!StreamNext]_(<<SubSeq(sent, Len(frames) + 1, Len(sent)), frames>>)
<1> DEFINE f == Len(frames)
           pipe == SubSeq(sent, f + 1, Len(sent))
<1>1. /\ sent \in Seq(Bodies) /\ frames \in Seq(Bodies)
      /\ f \in Nat /\ Len(sent) \in Nat /\ f <= Len(sent)
  BY LenProperties DEF FramingInv, FramingTypes, Delivered
<1>2. CASE sent' = sent /\ frames' = frames
  BY <1>2
<1>3. ASSUME NEW p \in Bodies, DeviceWrite(p)
      PROVE  Stream!StreamNext
  <2>1. sent' = Append(sent, p) /\ frames' = frames
    BY <1>3 DEF DeviceWrite, queueVars
  <2>2. pipe' = Append(pipe, p)
    BY <1>1, <2>1, PipeGrows
  <2> QED
    BY <2>1, <2>2 DEF Stream!StreamNext, Stream!Put
<1>4. CASE Continue /\ open /\ reading = "body"
  <2>1. f < Len(sent) /\ frames' = Append(frames, sent[f + 1]) /\ sent' = sent
    BY <1>4, BodyKeeps DEF Continue
  <2>2. Len(frames') = f + 1
    BY <1>1, <2>1, AppendProperties, ElementOfSeq
  <2>3. /\ 1 \in 1..Len(pipe) /\ frames' = frames \o SubSeq(pipe, 1, 1)
        /\ pipe' = SubSeq(pipe, 1 + 1, Len(pipe))
    BY <1>1, <2>1, <2>2, PipeTaken
  <2> QED
    BY <2>3 DEF Stream!StreamNext, Stream!Take
<1>5. CASE Continue /\ ~(open /\ reading = "body")
  <2>1. sent' = sent
    BY <1>5 DEF Continue
  <2>2. frames' = frames
    BY <1>5, HeadKeeps, FailKeeps DEF FramingInv, Reader, FramingTypes, Continue
  <2> QED
    BY <1>2, <2>1, <2>2
<1>6. CASE \E n \in 1..Len(wire) : Data(n)
  BY <1>2, <1>6 DEF Data
<1>7. CASE SocketClose
  BY <1>2, <1>7 DEF SocketClose
<1>8. CASE UNCHANGED framingVars
  BY <1>2, <1>8 DEF framingVars, queueVars
<1> QED
  BY <1>3, <1>4, <1>5, <1>6, <1>7, <1>8 DEF FramingNext

\* readFrame over the ByteQueue hands over the frames the device wrote, all that it
\* hands over, whole and in order, wherever TCP cuts the stream and whenever the
\* connection is lost: it implements FrameStream.
THEOREM FramingImplementsStream == FramingSpec => ImplementsStream
<1>1. FramingInit => Stream!StreamInit
  BY DEF FramingInit, Stream!StreamInit
<1> QED
  BY <1>1, FramingBegin, FramingStep, StreamStep, PTL
     DEF FramingSpec, ImplementsStream, Stream!StreamSpec

-----------------------------------------------------------------------------
(* Framing: FrameReader.feed.                                               *)

\* Induction on natural numbers, for a set.
LEMMA Induction ==
  ASSUME NEW T, 0 \in T, \A n \in Nat : n \in T => n + 1 \in T
  PROVE  \A n \in Nat : n \in T
<1> DEFINE U == Nat \ T
           R == OpToRel(<, Nat)
<1> SUFFICES ASSUME U # {} PROVE FALSE
  OBVIOUS
<1>1. IsWellFoundedOn(R, Nat)
  BY NatLessThanWellFounded
<1>2. U \subseteq Nat
  OBVIOUS
<1> HIDE DEF R, U
<1>3. PICK m \in U : \A y \in U : ~(<<y, m>> \in R)
  BY <1>1, <1>2, WFMin, Zenon
<1>4. m \in Nat /\ m # 0 /\ m - 1 \in Nat
  BY <1>3 DEF U
<1>5. <<m - 1, m>> \in R
  BY <1>4 DEF R, OpToRel
<1>6. m - 1 \in T
  BY <1>3, <1>4, <1>5 DEF U
<1>7. m \in T
  <2>1. (m - 1) + 1 = m
    BY <1>4
  <2> QED
    BY <1>4, <1>6, <2>1
<1> QED
  BY <1>3, <1>7 DEF U

\* b begins with a whole frame; its body; what follows it.
Whole(b) == Len(b) >= 3 /\ Len(b) >= 3 + readLength(b)
Body(b) == SubSeq(b, 4, 3 + readLength(b))
After(b) == Drop(b, 3 + readLength(b))

\* One turn of the loop of feed, g being what the further turns do.
Turn(g, b) ==
  IF Whole(b) THEN [out |-> <<Body(b)>> \o g[After(b)].out, left |-> g[After(b)].left]
  ELSE [out |-> <<>>, left |-> b]

\* g does what feed does with fewer than n bytes; so do g and h, the same.
Short(n) == {b \in Seq(Byte) : Len(b) < n}
Feeds(g, n) == \A b \in Short(n) : g[b] = Turn(g, b)
Agree(g, h, n) == \A b \in Short(n) : g[b] = h[b]

\* A turn takes bytes.
LEMMA TurnTakes ==
  ASSUME NEW b \in Seq(Byte), Whole(b)
  PROVE  /\ readLength(b) \in Nat
         /\ After(b) \in Seq(Byte) /\ Len(After(b)) < Len(b)
<1>1. PICK n \in Nat : n = Len(b)
  BY LenProperties
<1>2. n >= 3
  BY <1>1 DEF Whole
<1>3. b[1] \in Byte /\ b[2] \in Byte
  <2>1. 1 \in 1..Len(b) /\ 2 \in 1..Len(b)
    BY <1>1, <1>2
  <2> QED
    BY <2>1, ElementOfSeq
<1>4. readLength(b) \in Nat
  <2>1. Base \in Nat /\ \A x \in Byte : x \in Nat
    BY FramingAssumption DEF Byte
  <2>2. \A x, y, z \in Nat : x * y + z \in Nat
    OBVIOUS
  <2> QED
    BY <1>3, <2>1, <2>2 DEF readLength
<1>5. PICK k \in Nat : k = 3 + readLength(b) /\ k <= n /\ k >= 3
  BY <1>1, <1>4 DEF Whole
<1>6. After(b) \in Seq(Byte) /\ IsPart(After(b), b, k, n - k)
  <2>1. After(b) = SubSeq(b, k + 1, n)
    BY <1>1, <1>5 DEF After, Drop
  <2> QED
    BY <1>1, <1>5, <2>1, Rest, Zenon
<1>7. n - k < n
  BY <1>5
<1> QED
  BY <1>1, <1>4, <1>6, <1>7 DEF IsPart

\* Turns with functions that agree on fewer bytes agree.
LEMMA TurnsAgree ==
  ASSUME NEW n \in Nat, NEW g, NEW h, Agree(g, h, n), NEW b \in Short(n + 1)
  PROVE  Turn(g, b) = Turn(h, b)
<1>1. b \in Seq(Byte) /\ Len(b) < n + 1 /\ Len(b) \in Nat
  BY LenProperties DEF Short
<1>2. CASE Whole(b)
  <2>1. After(b) \in Seq(Byte) /\ Len(After(b)) < Len(b) /\ Len(After(b)) \in Nat
    BY <1>1, <1>2, TurnTakes, LenProperties
  <2>2. Len(After(b)) < n
    BY <1>1, <2>1
  <2>3. After(b) \in Short(n)
    BY <2>1, <2>2 DEF Short
  <2> QED
    BY <1>2, <2>3, Zenon DEF Turn, Agree
<1>3. CASE ~Whole(b)
  BY <1>3, Zenon DEF Turn
<1> QED
  BY <1>2, <1>3

\* For each number of bytes there is such a function.
LEMMA FeedsExist == \A n \in Nat : \E g : Feeds(g, n)
<1> DEFINE T == {n \in Nat : \E g : Feeds(g, n)}
<1>1. 0 \in T
  <2>1. ASSUME NEW b \in Short(0) PROVE FALSE
    BY LenProperties DEF Short
  <2>2. \A g : Feeds(g, 0)
    BY <2>1 DEF Feeds
  <2> QED
    BY <2>2
<1>2. ASSUME NEW n \in Nat, n \in T PROVE n + 1 \in T
  <2>1. PICK g : Feeds(g, n)
    BY <1>2
  <2> DEFINE h == [b \in Seq(Byte) |-> Turn(g, b)]
  <2>2. \A b \in Seq(Byte) : h[b] = Turn(g, b)
    OBVIOUS
  <2> HIDE DEF h
  <2>3. Agree(g, h, n)
    BY <2>1, <2>2 DEF Feeds, Short, Agree
  <2>4. \A b \in Short(n + 1) : Turn(g, b) = Turn(h, b)
    BY <2>3, TurnsAgree, Zenon
  <2>5. Feeds(h, n + 1)
    BY <2>2, <2>4 DEF Feeds, Short
  <2>6. n + 1 \in Nat
    OBVIOUS
  <2> QED
    BY <2>5, <2>6, Zenon
<1> HIDE DEF T
<1>3. \A n \in Nat : n \in T
  BY <1>1, <1>2, Induction, Zenon
<1> QED
  BY <1>3 DEF T

\* Such functions agree.
LEMMA FeedsAgree ==
  ASSUME NEW n \in Nat, NEW m \in Nat, n <= m, NEW g, NEW h, Feeds(g, n), Feeds(h, m)
  PROVE  Agree(g, h, n)
<1> DEFINE T == {k \in Nat : k <= n => Agree(g, h, k)}
<1>1. 0 \in T
  <2>1. ASSUME NEW b \in Short(0) PROVE FALSE
    BY LenProperties DEF Short
  <2> QED
    BY <2>1 DEF Agree
<1>2. ASSUME NEW k \in Nat, k \in T PROVE k + 1 \in T
  <2>1. SUFFICES ASSUME k + 1 <= n PROVE Agree(g, h, k + 1)
    OBVIOUS
  <2>2. k <= n
    BY <2>1
  <2>3. Agree(g, h, k)
    BY <1>2, <2>2
  <2>4. \A b \in Short(k + 1) : Turn(g, b) = Turn(h, b)
    BY <2>3, TurnsAgree, Zenon
  <2>5. ASSUME NEW b \in Short(k + 1) PROVE b \in Short(n) /\ b \in Short(m)
    <3>1. \A x \in Nat : x < k + 1 => x < n /\ x < m
      BY <2>1
    <3>2. b \in Seq(Byte) /\ Len(b) \in Nat /\ Len(b) < k + 1
      BY LenProperties DEF Short
    <3>3. Len(b) < n /\ Len(b) < m
      BY <3>1, <3>2, Zenon
    <3> QED
      BY <3>2, <3>3 DEF Short
  <2> QED
    BY <2>4, <2>5, Zenon DEF Feeds, Agree
<1> HIDE DEF T
<1>3. \A k \in Nat : k \in T
  BY <1>1, <1>2, Induction, Zenon
<1>4. n \in T /\ n <= n
  BY <1>3
<1> QED
  BY <1>4 DEF T

\* feed does its turns.
LEMMA FeedTurns == \A b \in Seq(Byte) : Feed[b] = Turn(Feed, b)
<1> DEFINE G(n) == CHOOSE g : Feeds(g, n)
           F == [b \in Seq(Byte) |-> G(Len(b) + 1)[b]]
<1>1. \A n \in Nat : Feeds(G(n), n)
  BY FeedsExist
<1>2. \A b \in Seq(Byte) : F[b] = G(Len(b) + 1)[b]
  OBVIOUS
<1> HIDE DEF G, F
<1>3. ASSUME NEW b \in Seq(Byte) PROVE F[b] = Turn(F, b)
  <2>1. PICK n \in Nat : n = Len(b) /\ n + 1 \in Nat
    BY LenProperties
  <2>2. b \in Short(n + 1)
    BY <2>1 DEF Short
  <2>3. F[b] = Turn(G(n + 1), b)
    BY <1>1, <1>2, <2>1, <2>2, Zenon DEF Feeds
  <2>4. ASSUME NEW c \in Short(n) PROVE G(n + 1)[c] = F[c]
    <3>1. PICK m \in Nat : m = Len(c) /\ m + 1 \in Nat /\ m + 1 <= n + 1 /\ c \in Seq(Byte)
      <4>1. c \in Seq(Byte) /\ Len(c) \in Nat /\ Len(c) < n
        BY LenProperties DEF Short
      <4>2. \A x \in Nat : x < n => x + 1 \in Nat /\ x + 1 <= n + 1
        OBVIOUS
      <4>3. Len(c) + 1 \in Nat /\ Len(c) + 1 <= n + 1
        BY <4>1, <4>2, Zenon
      <4> QED
        BY <4>1, <4>3, Zenon
    <3>2. c \in Short(m + 1)
      BY <3>1 DEF Short
    <3>3. G(m + 1)[c] = G(n + 1)[c]
      <4>1. Agree(G(m + 1), G(n + 1), m + 1)
        BY <1>1, <2>1, <3>1, FeedsAgree, Zenon
      <4> QED
        BY <3>2, <4>1, Zenon DEF Agree
    <3> QED
      BY <1>2, <3>1, <3>3, Zenon
  <2>5. Agree(G(n + 1), F, n)
    BY <2>4, Zenon DEF Agree
  <2>6. Turn(G(n + 1), b) = Turn(F, b)
    BY <2>2, <2>5, TurnsAgree, Zenon
  <2> QED
    BY <2>3, <2>6, Zenon
<1>4. F = [b \in Seq(Byte) |-> Turn(F, b)]
  BY <1>3 DEF F
<1>5. Feed = CHOOSE g : g = [b \in Seq(Byte) |-> Turn(g, b)]
  BY DEF Feed, Turn, Whole, Body, After
<1>6. Feed = [b \in Seq(Byte) |-> Turn(Feed, b)]
  BY <1>4, <1>5
<1> QED
  BY <1>6

\* The body of a whole frame.
LEMMA BodyOf ==
  ASSUME NEW b \in Seq(Byte), Whole(b)
  PROVE  Body(b) \in Seq(Byte) /\ IsPart(Body(b), b, 3, readLength(b))
<1>1. PICK n \in Nat, k \in Nat : n = Len(b) /\ k = readLength(b) /\ 3 + k <= n
  BY TurnTakes, LenProperties DEF Whole
<1>2. \A i \in 4..(3 + k) : i \in 1..n
  BY <1>1
<1>3. 4 \in Int /\ 3 + k \in Int /\ \A i \in 4..(3 + k) : b[i] \in Byte
  BY <1>1, <1>2, ElementOfSeq
<1>4. PICK c : c = SubSeq(b, 4, 3 + k)
  OBVIOUS
<1>5. /\ c \in Seq(Byte) /\ Len(c) = IF 4 <= 3 + k THEN (3 + k) - 4 + 1 ELSE 0
      /\ \A i \in 1..((3 + k) - 4 + 1) : c[i] = b[4 + i - 1]
  BY <1>3, <1>4, SubSeqProperties
<1>6. Len(c) = k /\ \A i \in 1..k : c[i] = b[3 + i]
  <2>1. /\ (IF 4 <= 3 + k THEN (3 + k) - 4 + 1 ELSE 0) = k /\ (3 + k) - 4 + 1 = k
        /\ \A i \in 1..k : 4 + i - 1 = 3 + i
    OBVIOUS
  <2> QED
    BY <1>5, <2>1, Zenon
<1>7. Body(b) = c
  BY <1>1, <1>4 DEF Body
<1> QED
  BY <1>1, <1>5, <1>6, <1>7, Zenon DEF IsPart

\* What feed returns.
IsFed(r) == r.out \in Seq(Seq(Byte)) /\ r.left \in Seq(Byte)

\* feed returns frames and keeps bytes.
LEMMA FeedTyped == \A b \in Seq(Byte) : IsFed(Feed[b])
<1> DEFINE T == {n \in Nat : \A b \in Short(n) : IsFed(Feed[b])}
<1>1. 0 \in T
  <2>1. ASSUME NEW b \in Short(0) PROVE FALSE
    BY LenProperties DEF Short
  <2> QED
    BY <2>1
<1>2. ASSUME NEW n \in Nat, n \in T PROVE n + 1 \in T
  <2>1. \A b \in Short(n) : IsFed(Feed[b])
    BY <1>2
  <2>2. ASSUME NEW b \in Short(n + 1) PROVE IsFed(Turn(Feed, b))
    <3>1. b \in Seq(Byte) /\ Len(b) < n + 1 /\ Len(b) \in Nat
      BY LenProperties DEF Short
    <3>2. CASE Whole(b)
      <4>1. After(b) \in Seq(Byte) /\ Len(After(b)) < Len(b) /\ Len(After(b)) \in Nat
        BY <3>1, <3>2, TurnTakes, LenProperties
      <4>2. Len(After(b)) < n
        BY <3>1, <4>1
      <4>3. IsFed(Feed[After(b)])
        BY <2>1, <4>1, <4>2 DEF Short
      <4>4. Body(b) \in Seq(Byte)
        BY <3>1, <3>2, BodyOf
      <4>5. <<Body(b)>> \o Feed[After(b)].out \in Seq(Seq(Byte))
        BY <4>3, <4>4, ConcatProperties DEF IsFed
      <4> QED
        BY <3>2, <4>3, <4>5 DEF IsFed, Turn
    <3>3. CASE ~Whole(b)
      BY <3>1, <3>3, EmptySeq DEF IsFed, Turn
    <3> QED
      BY <3>2, <3>3
  <2>3. \A b \in Short(n + 1) : IsFed(Feed[b])
    BY <2>2, FeedTurns, Zenon DEF Short
  <2>4. n + 1 \in Nat
    OBVIOUS
  <2> QED
    BY <2>3, <2>4
<1> HIDE DEF T
<1>3. \A n \in Nat : n \in T
  BY <1>1, <1>2, Induction, Zenon
<1> TAKE b \in Seq(Byte)
<1>4. Len(b) + 1 \in T /\ Len(b) \in Nat /\ Len(b) < Len(b) + 1
  BY <1>3, LenProperties
<1> QED
  BY <1>4 DEF T, Short

\* A whole frame at the front is the first one feed returns.
LEMMA FeedFrame ==
  ASSUME NEW b \in Seq(Byte), Whole(b)
  PROVE  /\ Feed[b].out = <<Body(b)>> \o Feed[After(b)].out
         /\ Feed[b].left = Feed[After(b)].left
<1>1. Feed[b] = [out |-> <<Body(b)>> \o Feed[After(b)].out, left |-> Feed[After(b)].left]
  BY FeedTurns, Zenon DEF Turn
<1> QED
  BY <1>1

\* Without one it returns nothing and keeps the bytes.
LEMMA FeedNothing ==
  ASSUME NEW b \in Seq(Byte), ~Whole(b)
  PROVE  Feed[b].out = <<>> /\ Feed[b].left = b
<1>1. Feed[b] = [out |-> <<>>, left |-> b]
  BY FeedTurns, Zenon DEF Turn
<1> QED
  BY <1>1

\* R begins with the frame whose body is g, and c follows it.
Starts(R, g, c) == R \in Seq(Byte) /\ Whole(R) /\ Body(R) = g /\ After(R) = c

\* A header, the body of the length it tells, and what follows.
LEMMA OneFrame ==
  ASSUME NEW h \in Seq(Byte), Len(h) = 3, NEW g \in Seq(Byte), NEW c \in Seq(Byte),
         Len(g) = readLength(h)
  PROVE  Starts(h \o (g \o c), g, c)
<1> SUFFICES ASSUME NEW R, R = h \o (g \o c) PROVE Starts(R, g, c)
  OBVIOUS
<1>1. PICK k \in Nat, m \in Nat : k = Len(g) /\ m = Len(c)
  BY LenProperties
<1>2. PICK t : t = g \o c
  OBVIOUS
<1>3. t \in Seq(Byte) /\ IsJoin(t, g, k, c, m)
  BY <1>1, <1>2, Join, Zenon
<1>4. Len(t) = k + m /\ k + m \in Nat
  BY <1>3 DEF IsJoin
<1>5. R \in Seq(Byte) /\ IsJoin(R, h, 3, t, k + m)
  BY <1>2, <1>3, <1>4, Join, Zenon
<1>6. Len(R) = 3 + (k + m)
  BY <1>5 DEF IsJoin
<1>7. readLength(R) = k
  <2>1. 1 \in 1..3 /\ 2 \in 1..3
    OBVIOUS
  <2>2. R[1] = h[1] /\ R[2] = h[2]
    BY <1>5, <2>1, Zenon DEF IsJoin
  <2> QED
    BY <1>1, <2>2 DEF readLength
<1>8. Whole(R)
  BY <1>1, <1>6, <1>7 DEF Whole
<1>9. Body(R) = g
  <2>1. Body(R) \in Seq(Byte) /\ IsPart(Body(R), R, 3, k)
    BY <1>5, <1>7, <1>8, BodyOf
  <2>2. ASSUME NEW i \in 1..k PROVE g[i] = R[3 + i]
    <3>1. i \in 1..(k + m)
      OBVIOUS
    <3> QED
      BY <1>3, <1>5, <3>1, Zenon DEF IsJoin
  <2>3. IsPart(g, R, 3, k)
    BY <1>1, <2>2 DEF IsPart
  <2> QED
    BY <2>1, <2>3, OnePart, Zenon
<1>10. After(R) = c
  <2>1. After(R) = SubSeq(R, (3 + k) + 1, Len(R)) /\ 3 + k \in Nat
    BY <1>7 DEF After, Drop
  <2>2. Len(R) = (3 + k) + m
    BY <1>6
  <2>3. After(R) \in Seq(Byte) /\ IsPart(After(R), R, 3 + k, m)
    BY <1>5, <2>1, <2>2, RestOf, Zenon
  <2>4. ASSUME NEW i \in 1..m PROVE c[i] = R[(3 + k) + i]
    <3>1. k + i \in 1..(k + m) /\ (3 + k) + i = 3 + (k + i)
      OBVIOUS
    <3> QED
      BY <1>3, <1>5, <3>1 DEF IsJoin
  <2>5. IsPart(c, R, 3 + k, m)
    BY <1>1, <2>4 DEF IsPart
  <2> QED
    BY <2>1, <2>3, <2>5, OnePart, Zenon
<1> QED
  BY <1>5, <1>8, <1>9, <1>10, Zenon DEF Starts

-----------------------------------------------------------------------------
(* Framing: the two readers.                                                *)

\* The header readFrame has read, if it waits for a body.
Carries(h) ==
  /\ h \in Seq(Byte)
  /\ reading = "head" => h = <<>>
  /\ reading = "body" => Len(h) = 3 /\ readLength(h) = Want

\* The bytes the session has got and not handed over.
Due(h) == h \o (Taken \o buf)

\* feed would turn them into the frames FrameReader is ahead of the session.
Owed(R) == rbuf = Feed[R].left /\ rframes = frames \o Feed[R].out

\* FrameReader is ahead by the frames in the bytes the session has got.
Level == IF open THEN \E h : Carries(h) /\ Owed(Due(h)) ELSE rframes = frames

\* The first bytes of _drain's read and its buffer are the buffer it was given.
LEMMA DrainTaken ==
  ASSUME NEW b \in Seq(Byte), NEW w \in Nat, Drain(b, w, closed), closed = FALSE
  PROVE  Taken' \o buf' = b
<1>1. CASE \E h \in Seq(Byte) : outcome' = <<h>> /\ h \o buf' = b
  BY <1>1, OutcomesApart DEF Taken
<1>2. CASE outcome' = Unset /\ buf' = b
  <2>1. Taken' = <<>>
    BY <1>2 DEF Taken
  <2> QED
    BY <1>2, <2>1, ConcatEmptySeq
<1> QED
  BY <1>1, <1>2, DrainKeeps

\* While the session waits, it and FrameReader are level.
LEMMA AtRest ==
  ASSUME FramingInv, Level, open, outcome = Unset, NEW h, Carries(h), Owed(Due(h))
  PROVE  rframes = frames /\ rbuf = Due(h) /\ Due(h) = h \o buf /\ buf \in Seq(Byte)
<1>1. FramingTypes /\ Delivered /\ Reader
  BY DEF FramingInv
<1>2. buf \in Seq(Byte) /\ h \in Seq(Byte) /\ reading # "failed" /\ Len(buf) < Want
  BY <1>1, OutcomesApart DEF FramingTypes, Carries, Reader
<1>3. Due(h) = h \o buf
  <2>1. Taken = <<>>
    BY DEF Taken
  <2> QED
    BY <1>2, <2>1, ConcatEmptySeq DEF Due
<1>4. PICK R : R = h \o buf
  OBVIOUS
<1>5. PICK m \in Nat : m = Len(buf)
  BY <1>2, LenProperties
<1>6. R \in Seq(Byte) /\ ~Whole(R)
  <2>1. CASE reading = "head"
    <3>1. R = buf /\ Len(buf) < 3
      BY <1>2, <1>4, <2>1, ConcatEmptySeq DEF Carries, Want
    <3> QED
      BY <1>2, <1>5, <3>1 DEF Whole
  <2>2. CASE reading = "body"
    <3>1. Len(h) = 3 /\ readLength(h) = Want
      BY <2>2 DEF Carries
    <3>2. R \in Seq(Byte) /\ IsJoin(R, h, 3, buf, m)
      BY <1>2, <1>4, <1>5, <3>1, Join, Zenon
    <3>3. 1 \in 1..3 /\ 2 \in 1..3
      OBVIOUS
    <3>4. R[1] = h[1] /\ R[2] = h[2]
      BY <3>2, <3>3, Zenon DEF IsJoin
    <3>5. readLength(R) = Want /\ Len(R) = 3 + m
      BY <3>1, <3>2, <3>4 DEF readLength, IsJoin
    <3>6. Want \in Nat
      BY <1>1, <1>2, Numbers, Zenon
    <3> QED
      BY <1>2, <1>5, <3>2, <3>5, <3>6 DEF Whole
  <2> QED
    BY <1>1, <1>2, <2>1, <2>2 DEF FramingTypes
<1>7. rbuf = R /\ rframes = frames \o <<>>
  BY <1>3, <1>4, <1>6, FeedNothing DEF Owed
<1>8. rframes = frames
  BY <1>1, <1>7, ConcatEmptySeq DEF FramingTypes
<1> QED
  BY <1>2, <1>3, <1>4, <1>7, <1>8

\* DeviceWrite touches neither reader.
LEMMA WriteLevel ==
  ASSUME FramingInv, Level, NEW p \in Bodies, DeviceWrite(p)
  PROVE  Level'
<1>1. /\ open /\ open' /\ buf' = buf /\ outcome' = outcome /\ reading' = reading
      /\ frames' = frames /\ rbuf' = rbuf /\ rframes' = rframes
  BY DEF DeviceWrite, queueVars, readerVars
<1>2. PICK h : Carries(h) /\ Owed(Due(h))
  BY <1>1 DEF Level
<1>3. Want' = Want
  BY WriteKeeps
<1>4. Carries(h)'
  BY <1>1, <1>2, <1>3 DEF Carries
<1>5. Owed(Due(h))'
  BY <1>1, <1>2 DEF Owed, Due, Taken
<1> QED
  BY <1>1, <1>4, <1>5 DEF Level

\* Data: both readers get the chunk.
LEMMA DataLevel ==
  ASSUME FramingInv, Level, NEW n \in 1..Len(wire), Data(n)
  PROVE  Level'
<1>1. PICK chunk : chunk = First(wire, n)
  OBVIOUS
<1>2. /\ open /\ outcome = Unset /\ Drain(buf \o chunk, waiter, closed)
      /\ rbuf' = Feed[rbuf \o chunk].left /\ rframes' = rframes \o Feed[rbuf \o chunk].out
      /\ UNCHANGED <<sent, open, closed, reading, frames>>
  BY <1>1 DEF Data
<1>3. PICK h : Carries(h) /\ Owed(Due(h))
  BY <1>2 DEF Level
<1>4. rframes = frames /\ rbuf = h \o buf /\ buf \in Seq(Byte) /\ h \in Seq(Byte)
  BY <1>2, <1>3, AtRest DEF Carries
<1>5. /\ FramingTypes /\ Delivered /\ reading # "failed" /\ waiter = Want /\ Want \in Nat
      /\ closed = FALSE
  BY <1>2, OutcomesApart, Numbers DEF FramingInv, FramingTypes, Reader
<1>6. chunk \in Seq(Byte)
  <2>1. wire \in Seq(Byte) /\ n \in Nat /\ n <= Len(wire)
    BY <1>5, LenProperties DEF FramingTypes
  <2> QED
    BY <1>1, <2>1, Cut
<1>7. buf \o chunk \in Seq(Byte) /\ (h \o buf) \o chunk = h \o (buf \o chunk)
  <2>1. IsRegrouped(h, buf, chunk) /\ buf \o chunk \in Seq(Byte)
    BY <1>4, <1>6, Joined, Zenon
  <2> QED
    BY <2>1, Zenon DEF IsRegrouped
<1>8. Taken' \o buf' = buf \o chunk
  BY <1>2, <1>5, <1>7, DrainTaken
<1>9. Due(h)' = rbuf \o chunk
  BY <1>4, <1>7, <1>8 DEF Due
<1>10. Owed(Due(h))'
  BY <1>2, <1>4, <1>9 DEF Owed
<1>11. Carries(h)'
  BY <1>2, <1>3 DEF Carries, Want
<1> QED
  BY <1>2, <1>10, <1>11 DEF Level

\* SocketClose: the readers are level when it happens and stay so.
LEMMA CloseLevel ==
  ASSUME FramingInv, Level, SocketClose
  PROVE  Level'
<1>1. /\ open /\ outcome = Unset /\ ~open' /\ frames' = frames /\ rframes' = rframes
  BY DEF SocketClose, readerVars
<1>2. PICK h : Carries(h) /\ Owed(Due(h))
  BY <1>1 DEF Level
<1>3. rframes = frames
  BY <1>1, <1>2, AtRest
<1> QED
  BY <1>1, <1>3 DEF Level

\* Continue after a header: the session keeps it while it waits for the body.
LEMMA HeadLevel ==
  ASSUME FramingInv, Level, Continue, open, reading = "head"
  PROVE  Level'
<1>1. FramingTypes /\ Reader
  BY DEF FramingInv
<1>2. PICK g \in Seq(Byte) : outcome = <<g>> /\ Len(g) = 3
  BY <1>1 DEF Reader, Continue, Want
<1>3. /\ reading' = "body" /\ Drain(buf, readLength(g), closed) /\ frames' = frames
      /\ UNCHANGED <<open, rbuf, rframes>>
  BY <1>2, OutcomesApart DEF Continue, readerVars
<1>4. PICK h : Carries(h) /\ Owed(Due(h))
  BY DEF Level
<1>5. buf \in Seq(Byte) /\ closed = FALSE /\ g \o buf \in Seq(Byte)
  BY <1>1, <1>2, ConcatProperties DEF FramingTypes
<1>6. Due(h) = g \o buf
  <2>1. h = <<>> /\ Taken = g
    BY <1>2, <1>4, OutcomesApart DEF Carries, Taken
  <2> QED
    BY <1>5, <2>1, ConcatEmptySeq DEF Due
<1>7. Want' = readLength(g)
  BY <1>2, HeadKeeps, OutcomesApart
<1>8. readLength(g) \in Nat
  <2>1. Base \in Nat /\ \A x \in Byte : x \in Nat
    BY FramingAssumption DEF Byte
  <2>2. g[1] \in Byte /\ g[2] \in Byte
    <3>1. 1 \in 1..3 /\ 2 \in 1..3
      OBVIOUS
    <3> QED
      BY <1>2, <3>1, ElementOfSeq
  <2>3. \A x, y, z \in Nat : x * y + z \in Nat
    OBVIOUS
  <2> QED
    BY <2>1, <2>2, <2>3 DEF readLength
<1>9. Taken' \o buf' = buf
  BY <1>3, <1>5, <1>8, DrainTaken
<1>10. Owed(Due(g))'
  BY <1>3, <1>4, <1>6, <1>9 DEF Owed, Due
<1>11. Carries(g)'
  BY <1>2, <1>3, <1>7 DEF Carries
<1> QED
  BY <1>3, <1>10, <1>11 DEF Level

\* Continue after a body: the session hands over the first frame FrameReader is ahead by.
LEMMA BodyLevel ==
  ASSUME FramingInv, Level, Continue, open, reading = "body"
  PROVE  Level'
<1>1. FramingTypes /\ Reader
  BY DEF FramingInv
<1>2. PICK g \in Seq(Byte) : outcome = <<g>> /\ Len(g) = Want
  BY <1>1 DEF Reader, Continue
<1>3. /\ reading' = "head" /\ Drain(buf, 3, closed) /\ frames' = Append(frames, g)
      /\ UNCHANGED <<open, rbuf, rframes>>
  BY <1>2, OutcomesApart DEF Continue, readerVars
<1>4. PICK h : Carries(h) /\ Owed(Due(h))
  BY DEF Level
<1>5. buf \in Seq(Byte) /\ closed = FALSE
  BY <1>1 DEF FramingTypes
<1>6. PICK R : R = h \o (g \o buf) /\ R = Due(h)
  BY <1>2, OutcomesApart DEF Due, Taken
<1>7. h \in Seq(Byte) /\ Len(h) = 3 /\ Len(g) = readLength(h)
  BY <1>2, <1>4 DEF Carries
<1>8. R \in Seq(Byte) /\ Whole(R) /\ Body(R) = g /\ After(R) = buf
  <2>1. Starts(h \o (g \o buf), g, buf)
    BY <1>5, <1>7, OneFrame, Zenon
  <2> QED
    BY <1>6, <2>1, Zenon DEF Starts
<1>9. PICK F \in Seq(Seq(Byte)) : F = Feed[buf].out
  BY <1>5, FeedTyped DEF IsFed
<1>10. rframes = frames \o (<<g>> \o F) /\ rbuf = Feed[buf].left
  <2>1. Feed[R].out = <<g>> \o F /\ Feed[R].left = Feed[buf].left
    BY <1>8, <1>9, FeedFrame
  <2> QED
    BY <1>4, <1>6, <2>1 DEF Owed
<1>11. frames \o (<<g>> \o F) = Append(frames, g) \o F
  <2>1. frames \in Seq(Seq(Byte)) /\ <<g>> \in Seq(Seq(Byte))
    BY <1>1, FramingAssumption DEF FramingTypes
  <2>2. Append(frames, g) = frames \o <<g>>
    BY <2>1, AppendIsConcat
  <2>3. (frames \o <<g>>) \o F = frames \o (<<g>> \o F)
    BY <2>1, ConcatAssociative
  <2> QED
    BY <2>2, <2>3
<1>12. Taken' \o buf' = buf
  BY <1>3, <1>5, DrainTaken
<1>13. Due(<<>>)' = buf
  BY <1>5, <1>12, ConcatEmptySeq DEF Due
<1>14. Owed(Due(<<>>))'
  BY <1>3, <1>9, <1>10, <1>11, <1>13 DEF Owed
<1>15. Carries(<<>>)'
  BY <1>3, EmptySeq DEF Carries
<1> QED
  BY <1>3, <1>14, <1>15 DEF Level

\* At first neither reader has anything.
LEMMA LevelBegin == FramingInit => Level
<1> SUFFICES ASSUME FramingInit PROVE Level
  OBVIOUS
<1>1. Carries(<<>>) /\ open
  BY EmptySeq DEF FramingInit, Carries
<1>2. Due(<<>>) = <<>> /\ <<>> \in Seq(Byte)
  BY ConcatEmptySeq, EmptySeq DEF FramingInit, Due, Taken
<1>3. ~Whole(<<>>)
  BY DEF Whole
<1>4. Feed[<<>>].out = <<>> /\ Feed[<<>>].left = <<>>
  BY <1>2, <1>3, FeedNothing
<1>5. Owed(Due(<<>>))
  BY <1>2, <1>4, ConcatEmptySeq DEF Owed, FramingInit
<1> QED
  BY <1>1, <1>5 DEF Level

\* Every step keeps the readers level.
LEMMA LevelStep == FramingInv /\ Level /\ [FramingNext]_framingVars => Level'
<1> SUFFICES ASSUME FramingInv, Level, [FramingNext]_framingVars PROVE Level'
  OBVIOUS
<1>1. CASE UNCHANGED framingVars
  BY <1>1 DEF framingVars, queueVars, readerVars, Level, Carries, Owed, Due, Taken, Want
<1>2. CASE Continue
  <2>1. CASE ~open
    BY <1>2, <2>1 DEF FramingInv, Reader, Level, Continue, readerVars
  <2>2. CASE open
    BY <1>2, <2>2, HeadLevel, BodyLevel DEF FramingInv, Reader, FramingTypes, Continue
  <2> QED
    BY <2>1, <2>2
<1> QED
  BY <1>1, <1>2, WriteLevel, DataLevel, CloseLevel DEF FramingNext

\* Whenever the promise chain is at rest, readFrame (lib/session.js) has handed over
\* exactly the frames FrameReader.feed (lib/chunking.js) has, whatever the frames are and
\* wherever the chunks were cut.
THEOREM FramingReadersAgree == FramingSpec => []ReadersAgree
<1>1. FramingInv /\ Level => ReadersAgree
  BY AtRest DEF Level, ReadersAgree
<1> QED
  BY <1>1, FramingBegin, FramingStep, LevelBegin, LevelStep, PTL DEF FramingSpec

-----------------------------------------------------------------------------
(* Padding: what it is and what takes it off.                               *)

\* The pad count of a message: from one byte to a whole block.
LEMMA PadCount ==
  ASSUME NEW p \in Seq(Nat)
  PROVE  /\ Len(p) \in Nat
         /\ Len(p) % Block \in 0..(Block - 1)
         /\ Block - (Len(p) % Block) \in 1..Block
<1>1. Len(p) \in Nat
  BY LenProperties
<1>2. \A n \in Nat : n % Block \in 0..(Block - 1)
  BY PaddingAssumption
<1>3. Len(p) % Block \in 0..(Block - 1)
  BY <1>1, <1>2
<1>4. \A r \in 0..(Block - 1) : Block - r \in 1..Block
  BY PaddingAssumption
<1> QED
  BY <1>1, <1>3, <1>4

\* The beginning of a sequence.
LEMMA Prefix ==
  ASSUME NEW S, NEW p \in Seq(S), NEW s, NEW n \in Nat, n = Len(p),
         \A i \in 1..n : s[i] = p[i]
  PROVE  SubSeq(s, 1, n) = p
<1> DEFINE t == SubSeq(s, 1, n)
<1>1. 1 \in Int /\ n \in Int /\ \A i \in 1..n : s[i] \in S
  BY ElementOfSeq
<1>2. /\ t \in Seq(S)
      /\ Len(t) = IF 1 <= n THEN n - 1 + 1 ELSE 0
      /\ \A i \in 1..(n - 1 + 1) : t[i] = s[1 + i - 1]
  BY <1>1, SubSeqProperties
<1> HIDE DEF t
<1>3. Len(t) = n /\ \A i \in 1..n : t[i] = p[i]
  BY <1>2
<1>4. t = p
  BY <1>2, <1>3, SeqEqual
<1> QED
  BY <1>4 DEF t

\* A padded message ends in its pad count, which is at most its length, and taking
\* that many bytes off gives the message.
LEMMA PaddedMessage ==
  ASSUME NEW p \in Seq(Nat), NEW raw, raw = p \o PadBytes(p)
  PROVE  /\ raw # <<>>
         /\ raw[Len(raw)] \in 1..Block /\ raw[Len(raw)] <= Len(raw)
         /\ SubSeq(raw, 1, Len(raw) - raw[Len(raw)]) = p
<1> DEFINE pad == PadBytes(p)
<1>1. PICK n \in Nat, k \in 1..Block : n = Len(p) /\ k = Block - (n % Block)
  BY PadCount
<1>2. k \in Nat /\ k >= 1
  BY <1>1, PaddingAssumption
<1>3. pad = [i \in 1..k |-> k]
  BY <1>1 DEF PadBytes
<1>4. pad \in Seq(Nat) /\ Len(pad) = k
  BY <1>2, <1>3
<1> HIDE DEF pad
<1>5. /\ raw \in Seq(Nat) /\ Len(raw) = Len(p) + Len(pad)
      /\ \A i \in 1..(Len(p) + Len(pad)) : raw[i] = IF i <= Len(p) THEN p[i] ELSE pad[i - Len(p)]
  BY <1>4, ConcatProperties DEF pad
<1>6. /\ raw \in Seq(Nat) /\ Len(raw) = n + k
      /\ \A i \in 1..(n + k) : raw[i] = IF i <= n THEN p[i] ELSE pad[i - n]
  BY <1>1, <1>4, <1>5
<1>7. raw[n + k] = k
  <2>1. n + k \in 1..(n + k) /\ ~(n + k <= n) /\ (n + k) - n = k /\ k \in 1..k
    BY <1>2
  <2>2. raw[n + k] = pad[k]
    BY <1>6, <2>1
  <2> QED
    BY <1>3, <2>1, <2>2
<1>8. raw # <<>>
  BY <1>2, <1>6
<1>9. (n + k) - k = n /\ k <= n + k
  BY <1>2
<1>10. SubSeq(raw, 1, n) = p
  <2>1. ASSUME NEW i \in 1..n PROVE raw[i] = p[i]
    <3>1. i \in 1..(n + k) /\ i <= n
      BY <1>2
    <3> QED
      BY <1>6, <3>1
  <2> QED
    BY <1>1, <2>1, Prefix
<1> QED
  BY <1>1, <1>6, <1>7, <1>8, <1>9, <1>10

\* A message that is not padded but ends in what could be a pad count loses its tail.
LEMMA TailLost ==
  ASSUME NEW p \in Seq(Nat), p # <<>>, p[Len(p)] \in 1..Block
  PROVE  SubSeq(p, 1, Len(p) - p[Len(p)]) # p
<1>1. PICK n \in Nat, k \in Nat : n = Len(p) /\ k = p[n] /\ n >= 1 /\ k >= 1
  BY LenProperties, EmptySeq, PaddingAssumption
<1>2. \A i \in 1..(n - k) : p[i] \in Nat
  BY <1>1, ElementOfSeq
<1>3. Len(SubSeq(p, 1, n - k)) = IF 1 <= n - k THEN (n - k) - 1 + 1 ELSE 0
  BY <1>1, <1>2, SubSeqProperties
<1>4. Len(SubSeq(p, 1, n - k)) # n
  BY <1>1, <1>3
<1> QED
  BY <1>1, <1>4

-----------------------------------------------------------------------------
(* Padding: the exchange.                                                   *)

Sent == IF from = "gateway" THEN PkcsPad(plain) ELSE FirmwarePad(plain)
Read(raw) == IF from = "gateway" THEN FirmwareStrip(raw) ELSE Strip(raw)

\* The inductive invariant: what is carried is the padded message, and what is read
\* is that stripped.
ExchangeInv ==
  /\ plain \in Plains /\ from \in {"gateway", "device"}
  /\ padded = <<>> \/ padded = <<Sent>>
  /\ got = <<>> \/ got = <<Read(Sent)>>

\* What stripping the padded message gives, for both senders.
LEMMA ReadBack ==
  ASSUME plain \in Seq(Nat), from \in {"gateway", "device"}
  PROVE  Read(Sent) = plain <=> ~(from = "device" /\ LooksPadded(plain))
<1> DEFINE raw == plain \o PadBytes(plain)
<1>1. /\ raw # <<>> /\ raw[Len(raw)] \in 1..Block /\ ~(raw[Len(raw)] > Len(raw))
      /\ SubSeq(raw, 1, Len(raw) - raw[Len(raw)]) = plain
  <2>1. /\ raw # <<>> /\ raw[Len(raw)] \in 1..Block /\ raw[Len(raw)] <= Len(raw)
        /\ SubSeq(raw, 1, Len(raw) - raw[Len(raw)]) = plain
    BY PaddedMessage
  <2>2. Len(raw) \in Int
    BY <2>1, LenProperties, PadCount, ConcatProperties
  <2> QED
    BY <2>1, <2>2, PaddingAssumption
<1> HIDE DEF raw
<1>2. CASE from = "gateway"
  BY <1>1, <1>2 DEF Read, Sent, PkcsPad, FirmwareStrip, raw
<1>3. CASE from = "device" /\ ~Fills(plain)
  BY <1>1, <1>3 DEF Read, Sent, FirmwarePad, Strip, IsPad, LooksPadded, raw
<1>4. CASE from = "device" /\ Fills(plain)
  <2>1. Read(Sent) = Strip(plain)
    BY <1>4 DEF Read, Sent, FirmwarePad
  <2>2. CASE LooksPadded(plain)
    BY <1>4, <2>1, <2>2, TailLost DEF LooksPadded, Strip, IsPad
  <2>3. CASE ~LooksPadded(plain)
    BY <1>4, <2>1, <2>3 DEF LooksPadded, Strip, IsPad
  <2> QED
    BY <1>4, <2>2, <2>3
<1> QED
  BY <1>2, <1>3, <1>4

\* The exchange keeps the invariant.
LEMMA ExchangeStep == ExchangeInv /\ [PaddingNext]_paddingVars => ExchangeInv'
<1> SUFFICES ASSUME ExchangeInv, [PaddingNext]_paddingVars PROVE ExchangeInv'
  OBVIOUS
<1>1. plain' = plain /\ from' = from
  BY DEF PaddingNext, Wrap, Unwrap, paddingVars
<1>2. Sent' = Sent /\ \A raw : Read(raw)' = Read(raw)
  BY <1>1 DEF Sent, Read, PkcsPad, FirmwarePad, FirmwareStrip, Strip
<1>3. CASE Wrap
  BY <1>1, <1>2, <1>3 DEF ExchangeInv, Wrap, Sent
<1>4. CASE Unwrap
  BY <1>1, <1>2, <1>4 DEF ExchangeInv, Unwrap, Read
<1>5. CASE UNCHANGED paddingVars
  BY <1>1, <1>2, <1>5 DEF ExchangeInv, paddingVars
<1> QED
  BY <1>3, <1>4, <1>5 DEF PaddingNext

\* What the device and the gateway read of each other's frames (aesEncrypt, aesDecrypt):
\* every message whole, for every length and block size, but exactly those of the
\* device that fill their blocks and end in a byte that could be a pad count.
THEOREM PaddingRecovers == PaddingSpec => []Recovers
<1>1. PaddingInit => ExchangeInv
  BY DEF PaddingInit, ExchangeInv
<1>2. ExchangeInv => Recovers
  BY ReadBack, PaddingAssumption DEF ExchangeInv, Recovers
<1> QED
  BY <1>1, <1>2, ExchangeStep, PTL DEF PaddingSpec
=============================================================================
