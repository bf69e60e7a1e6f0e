----------------------------- MODULE CodecProofs -----------------------------
(***************************************************************************)
(* Proofs about Codec, for every message and every buffer.  The lemmas     *)
(* about joining and cutting sequences, and Induction, are those of        *)
(* WireProofs.                                                             *)
(***************************************************************************)
EXTENDS Codec, WireProofs, FiniteSetTheorems

-----------------------------------------------------------------------------
(* Codec: deltas and lengths, and the bytes that extend their nibbles.      *)

\* The deltas and the lengths that can be encoded.
Sizes == {v \in Nat : v <= 65804}

\* v is written as the nibble nib, extended by the bytes ext.
Form(v, nib, ext) ==
  \/ v \in 0..12 /\ nib = v /\ ext = <<>>
  \/ nib = 13 /\ \E x \in Octet : v = 13 + x /\ ext = <<x>>
  \/ nib = 14 /\ \E x, y \in Octet : v = 269 + (x * 256 + y) /\ ext = <<x, y>>

\* decode has read v, up to the position pos.
IsRead(d, v, pos) == d.v = v /\ d.pos = pos /\ d.ok = TRUE

\* An octet is a number up to 255.
LEMMA OctetIs == \A x : x \in Octet <=> x \in Nat /\ x <= 255
BY DEF Octet

\* Two bytes make a number below 65536.
LEMMA TwoOctets ==
  ASSUME NEW x \in Octet, NEW y \in Octet, NEW v, v = 269 + (x * 256 + y)
  PROVE  /\ v \in Nat /\ v <= 65804 /\ v >= 269 /\ v - 269 = x * 256 + y
         /\ ((v - 269) \div 256) % 256 = x /\ (v - 269) % 256 = y
<1>1. x \in Nat /\ x <= 255 /\ y \in Nat /\ y <= 255
  BY OctetIs
<1>2. (x * 256 + y) \div 256 = x /\ (x * 256 + y) % 256 = y /\ x % 256 = x
  BY <1>1
<1> QED
  BY <1>1, <1>2

\* A number below 65536 is two bytes.
LEMMA InTwoOctets ==
  ASSUME NEW v \in Sizes, v >= 269
  PROVE  \E x, y \in Octet : v = 269 + (x * 256 + y)
<1>1. v \in Nat /\ v <= 65804
  BY DEF Sizes
<1>2. PICK x, y : x = (v - 269) \div 256 /\ y = (v - 269) % 256
  OBVIOUS
<1>3. x \in Nat /\ x <= 255 /\ y \in Nat /\ y <= 255
  BY <1>1, <1>2
<1>4. v = 269 + (x * 256 + y)
  BY <1>1, <1>2
<1> QED
  BY <1>3, <1>4, OctetIs, Zenon

\* Each number has one form, which nibble and Extension give.
LEMMA FormIs ==
  ASSUME NEW v, NEW nib, NEW ext, Form(v, nib, ext)
  PROVE  /\ v \in Sizes /\ nib \in 0..14 /\ ext \in Seq(Octet)
         /\ nibble(v) = nib /\ Extension(v) = ext
<1>1. CASE v \in 0..12 /\ nib = v /\ ext = <<>>
  <2>1. nibble(v) = v /\ v # 13 /\ v # 14 /\ v \in Sizes /\ v \in 0..14
    BY <1>1 DEF nibble, Sizes
  <2> QED
    BY <1>1, <2>1 DEF Extension
<1>2. ASSUME nib = 13, NEW x \in Octet, v = 13 + x, ext = <<x>>
      PROVE  /\ v \in Sizes /\ nib \in 0..14 /\ ext \in Seq(Octet)
             /\ nibble(v) = nib /\ Extension(v) = ext
  <2>1. nibble(v) = 13 /\ v \in Sizes /\ (v - 13) % 256 = x
    <3>1. x \in Nat /\ x <= 255
      BY <1>2, OctetIs
    <3> QED
      BY <1>2, <3>1 DEF nibble, Sizes
  <2>2. Extension(v) = <<x>>
    BY <2>1 DEF Extension
  <2> QED
    BY <1>2, <2>1, <2>2
<1>3. ASSUME nib = 14, NEW x \in Octet, NEW y \in Octet, v = 269 + (x * 256 + y), ext = <<x, y>>
      PROVE  /\ v \in Sizes /\ nib \in 0..14 /\ ext \in Seq(Octet)
             /\ nibble(v) = nib /\ Extension(v) = ext
  <2>1. /\ v \in Nat /\ v <= 65804 /\ v >= 269
        /\ ((v - 269) \div 256) % 256 = x /\ (v - 269) % 256 = y
    BY <1>3, TwoOctets
  <2>2. nibble(v) = 14 /\ v \in Sizes
    BY <2>1 DEF nibble, Sizes
  <2>3. Extension(v) = <<x, y>>
    BY <2>1, <2>2 DEF Extension, UInt16
  <2> QED
    BY <1>3, <2>2, <2>3
<1> QED
  BY <1>1, <1>2, <1>3 DEF Form

\* All that can be encoded has a form.
LEMMA FormOf ==
  ASSUME NEW v \in Sizes
  PROVE  Form(v, nibble(v), Extension(v))
<1>1. \E nib, ext : Form(v, nib, ext)
  <2>1. CASE v \in 0..12
    BY <2>1 DEF Form
  <2>2. CASE v \in 13..268
    <3>1. v - 13 \in Octet /\ v = 13 + (v - 13)
      BY <2>2, OctetIs
    <3>2. Form(v, 13, <<v - 13>>)
      BY <3>1, Zenon DEF Form
    <3> QED
      BY <3>2
  <2>3. CASE v >= 269
    <3>1. PICK x \in Octet, y \in Octet : v = 269 + (x * 256 + y)
      BY <2>3, InTwoOctets
    <3>2. Form(v, 14, <<x, y>>)
      BY <3>1, Zenon DEF Form
    <3> QED
      BY <3>2
  <2> QED
    BY <2>1, <2>2, <2>3 DEF Sizes
<1> QED
  BY <1>1, FormIs, Zenon

\* s has a byte at its position i.
LEMMA OctetAt ==
  ASSUME NEW s \in Seq(Octet), NEW i \in Nat, i < Len(s)
  PROVE  At(s, i) = s[i + 1] /\ At(s, i) \in Octet
<1>1. PICK n \in Nat : n = Len(s)
  BY LenProperties
<1>2. i + 1 \in 1..n
  BY <1>1
<1>3. s[i + 1] \in Octet
  BY <1>1, <1>2, ElementOfSeq
<1> QED
  BY <1>3 DEF At

\* No sum of bytes is NaN.
LEMMA NotNaN ==
  ASSUME NEW x \in Nat, NEW y \in Nat
  PROVE  x # NaN /\ Plus(x, y) = x + y
BY DEF NaN, Plus

\* What is written at a position is read there.
LEMMA FormRead ==
  ASSUME NEW v, NEW nib, NEW ext, Form(v, nib, ext), NEW k \in Nat, NEW s \in Seq(Octet),
         NEW pos \in Nat, IsPart(ext, s, pos, k), pos + k <= Len(s)
  PROVE  IsRead(Extended(nib, s, pos), v, pos + k)
<1>1. PICK n \in Nat : n = Len(s) /\ pos + k <= n
  BY LenProperties
<1>2. CASE v \in 0..12 /\ nib = v /\ ext = <<>>
  <2>1. nib # 13 /\ nib # 14
    BY <1>2
  <2>2. Extended(nib, s, pos) = [v |-> nib, pos |-> pos, ok |-> TRUE]
    BY <2>1 DEF Extended
  <2>3. k = 0 /\ pos + k = pos
    BY <1>2 DEF IsPart
  <2> QED
    BY <1>2, <2>2, <2>3 DEF IsRead
<1>3. ASSUME nib = 13, NEW x \in Octet, v = 13 + x, ext = <<x>>
      PROVE  IsRead(Extended(nib, s, pos), v, pos + k)
  <2>1. k = 1 /\ s[pos + 1] = x
    BY <1>3 DEF IsPart
  <2>2. pos < n
    BY <1>1, <2>1
  <2>3. At(s, pos) = x
    BY <1>1, <2>1, <2>2, OctetAt, Zenon
  <2>4. Plus(13, At(s, pos)) = v
    <3>1. 13 \in Nat /\ x \in Nat
      BY OctetIs
    <3>2. Plus(13, x) = 13 + x
      BY <3>1, NotNaN, Zenon
    <3> QED
      BY <1>3, <2>3, <3>2
  <2>5. Extended(nib, s, pos) = [v |-> v, pos |-> pos + 1, ok |-> TRUE]
    <3>1. Extended(13, s, pos) = [v |-> Plus(13, At(s, pos)), pos |-> pos + 1, ok |-> TRUE]
      BY DEF Extended
    <3> QED
      BY <1>3, <2>4, <3>1
  <2> QED
    BY <2>1, <2>5 DEF IsRead
<1>4. ASSUME nib = 14, NEW x \in Octet, NEW y \in Octet, v = 269 + (x * 256 + y), ext = <<x, y>>
      PROVE  IsRead(Extended(nib, s, pos), v, pos + k)
  <2>1. k = 2 /\ s[pos + 1] = x /\ s[pos + 2] = y
    BY <1>4 DEF IsPart
  <2>2. pos < n /\ pos + 1 < n /\ pos + 1 \in Nat /\ (pos + 1) + 1 = pos + 2 /\ pos + 2 <= n
    BY <1>1, <2>1
  <2>3. At(s, pos) = x
    BY <1>1, <2>1, <2>2, OctetAt, Zenon
  <2>4. At(s, pos + 1) = y
    BY <1>1, <2>1, <2>2, OctetAt, Zenon
  <2>5. 269 + readUInt16BE(s, pos) = v
    BY <1>4, <2>3, <2>4, Zenon DEF readUInt16BE
  <2>6. Extended(nib, s, pos) = [v |-> v, pos |-> pos + 2, ok |-> TRUE]
    <3>1. pos + 2 <= Len(s)
      BY <1>1, <2>2
    <3>2. nib # 13 /\ nib = 14
      BY <1>4
    <3> QED
      BY <2>5, <3>1, <3>2 DEF Extended
  <2> QED
    BY <2>1, <2>6 DEF IsRead
<1> QED
  BY <1>2, <1>3, <1>4 DEF Form

\* s has v in some form between pos and next.
Written(v, nib, s, pos, next) ==
  \E ext \in Seq(Octet), k \in Nat :
    Form(v, nib, ext) /\ IsPart(ext, s, pos, k) /\ next = pos + k /\ pos + k <= Len(s)

\* What is read that is no NaN is written there.
LEMMA ReadForm ==
  ASSUME NEW nib \in 0..14, NEW s \in Seq(Octet), NEW pos \in Nat, pos <= Len(s),
         NEW d, d = Extended(nib, s, pos), d.ok, d.v # NaN
  PROVE  Written(d.v, nib, s, pos, d.pos)
<1>1. PICK n \in Nat : n = Len(s) /\ pos <= n
  BY LenProperties
<1>2. CASE nib # 13 /\ nib # 14
  <2>1. d = [v |-> nib, pos |-> pos, ok |-> TRUE]
    BY <1>2 DEF Extended
  <2>2. d.v = nib /\ d.pos = pos
    BY <2>1
  <2>3. nib \in 0..12 /\ pos + 0 = pos /\ pos + 0 <= n
    BY <1>1, <1>2
  <2>4. Form(nib, nib, <<>>) /\ <<>> \in Seq(Octet) /\ IsPart(<<>>, s, pos, 0)
    BY <2>3 DEF Form, IsPart
  <2> QED
    BY <1>1, <2>2, <2>3, <2>4, Zenon DEF Written
<1>3. CASE nib = 13
  <2>1. d = [v |-> Plus(13, At(s, pos)), pos |-> pos + 1, ok |-> TRUE]
    BY <1>3 DEF Extended
  <2>2. d.v = Plus(13, At(s, pos)) /\ d.pos = pos + 1
    BY <2>1
  <2>3. pos < n
    <3>1. At(s, pos) # NaN
      BY <2>2 DEF Plus
    <3> QED
      BY <1>1, <3>1 DEF At
  <2>4. PICK x \in Octet : x = At(s, pos) /\ x = s[pos + 1]
    BY <1>1, <2>3, OctetAt
  <2>5. d.v = 13 + x
    <3>1. 13 \in Nat /\ x \in Nat
      BY OctetIs
    <3>2. Plus(13, x) = 13 + x
      BY <3>1, NotNaN, Zenon
    <3> QED
      BY <2>2, <2>4, <3>2
  <2>6. Form(d.v, nib, <<x>>) /\ <<x>> \in Seq(Octet) /\ IsPart(<<x>>, s, pos, 1)
    BY <1>3, <2>4, <2>5 DEF Form, IsPart
  <2>7. pos + 1 <= n
    BY <2>3
  <2> QED
    BY <1>1, <2>2, <2>6, <2>7 DEF Written
<1>4. CASE nib = 14
  <2>1. d = [v |-> IF pos + 2 <= Len(s) THEN 269 + readUInt16BE(s, pos) ELSE NaN,
             pos |-> pos + 2, ok |-> pos + 2 <= Len(s)]
    BY <1>4 DEF Extended
  <2>2. pos + 2 <= Len(s) /\ d.v = 269 + readUInt16BE(s, pos) /\ d.pos = pos + 2
    BY <2>1
  <2>3. pos + 2 <= n /\ pos < n /\ pos + 1 < n /\ (pos + 1) + 1 = pos + 2 /\ pos + 1 \in Nat
    BY <1>1, <2>2
  <2>4. PICK x \in Octet : x = At(s, pos) /\ x = s[pos + 1]
    BY <1>1, <2>3, OctetAt
  <2>5. PICK y \in Octet : y = At(s, pos + 1) /\ y = s[pos + 2]
    <3>1. At(s, pos + 1) = s[(pos + 1) + 1] /\ At(s, pos + 1) \in Octet
      BY <1>1, <2>3, OctetAt
    <3> QED
      BY <2>3, <3>1
  <2>6. d.v = 269 + (x * 256 + y)
    BY <2>2, <2>4, <2>5, Zenon DEF readUInt16BE
  <2>7. Form(d.v, nib, <<x, y>>)
    BY <1>4, <2>6, Zenon DEF Form
  <2>8. <<x, y>> \in Seq(Octet) /\ IsPart(<<x, y>>, s, pos, 2)
    BY <2>4, <2>5 DEF IsPart
  <2> QED
    BY <1>1, <2>2, <2>7, <2>8 DEF Written
<1> QED
  BY <1>2, <1>3, <1>4

-----------------------------------------------------------------------------
(* Codec: how an option lies in the bytes.                                  *)

\* s is the byte h, followed by e, f, v and t of the lengths a, b, c and d.
IsLaid(s, h, e, a, f, b, v, c, t, d) ==
  /\ Len(s) = 1 + a + b + c + d /\ s[1] = h
  /\ IsPart(e, s, 1, a) /\ IsPart(f, s, 1 + a, b)
  /\ IsPart(v, s, 1 + a + b, c) /\ IsPart(t, s, 1 + a + b + c, d)

\* What is joined to the end of a sequence is a part of what results.
LEMMA JoinPart ==
  ASSUME NEW c, NEW a, NEW n, NEW b, NEW m, IsJoin(c, a, n, b, m), Len(b) = m
  PROVE  IsPart(b, c, n, m)
BY DEF IsJoin, IsPart

\* A part stays where it is when something is joined to the end.
LEMMA PartStays ==
  ASSUME NEW c, NEW a, NEW n \in Nat, NEW b, NEW m, IsJoin(c, a, n, b, m),
         NEW p, NEW i \in Nat, NEW k \in Nat, IsPart(p, a, i, k), i + k <= n
  PROVE  IsPart(p, c, i, k)
<1>1. ASSUME NEW j \in 1..k PROVE p[j] = c[i + j]
  <2>1. i + j \in 1..n
    OBVIOUS
  <2> QED
    BY <2>1 DEF IsJoin, IsPart
<1> QED
  BY <1>1 DEF IsPart

\* Joining h, e, f, v and t gives that.
LEMMA Laying ==
  ASSUME NEW h \in Octet, NEW e \in Seq(Octet), NEW f \in Seq(Octet), NEW v \in Seq(Octet),
         NEW t \in Seq(Octet), NEW a, a = Len(e), NEW b, b = Len(f), NEW c, c = Len(v),
         NEW d, d = Len(t), NEW s, s = <<h>> \o e \o f \o v \o t
  PROVE  s \in Seq(Octet) /\ IsLaid(s, h, e, a, f, b, v, c, t, d)
<1>1. a \in Nat /\ b \in Nat /\ c \in Nat /\ d \in Nat
  BY LenProperties
<1>2. PICK g \in Seq(Octet) : g = <<h>> /\ Len(g) = 1 /\ g[1] = h
  <2>1. <<h>> \in Seq(Octet) /\ Len(<<h>>) = 1 /\ <<h>>[1] = h
    OBVIOUS
  <2> QED
    BY <2>1
<1>3. PICK x : x = g \o e
  OBVIOUS
<1>4. PICK y : y = x \o f
  OBVIOUS
<1>5. PICK z : z = y \o v
  OBVIOUS
<1>6. s = z \o t
  BY <1>2, <1>3, <1>4, <1>5
<1>7. x \in Seq(Octet) /\ IsJoin(x, g, 1, e, a)
  BY <1>2, <1>3, Join, Zenon
<1>8. Len(x) = 1 + a /\ x[1] = h /\ IsPart(e, x, 1, a)
  <2>1. 1 \in 1..1
    OBVIOUS
  <2> QED
    BY <1>2, <1>7, <2>1, JoinPart DEF IsJoin
<1>9. y \in Seq(Octet) /\ IsJoin(y, x, 1 + a, f, b)
  BY <1>4, <1>7, <1>8, Join, Zenon
<1>10. Len(y) = 1 + a + b /\ y[1] = h /\ IsPart(e, y, 1, a) /\ IsPart(f, y, 1 + a, b)
  <2>1. 1 \in 1..(1 + a) /\ 1 + a <= 1 + a /\ 1 + a \in Nat /\ 1 \in Nat
    BY <1>1
  <2>2. IsPart(e, y, 1, a)
    BY <1>1, <1>8, <1>9, <2>1, PartStays, Zenon
  <2>3. IsPart(f, y, 1 + a, b)
    BY <1>9, JoinPart, Zenon
  <2> QED
    BY <1>8, <1>9, <2>1, <2>2, <2>3 DEF IsJoin
<1>11. z \in Seq(Octet) /\ IsJoin(z, y, 1 + a + b, v, c)
  BY <1>5, <1>9, <1>10, Join, Zenon
<1>12. /\ Len(z) = 1 + a + b + c /\ z[1] = h /\ IsPart(e, z, 1, a)
       /\ IsPart(f, z, 1 + a, b) /\ IsPart(v, z, 1 + a + b, c)
  <2>1. /\ 1 \in 1..(1 + a + b) /\ 1 + a <= 1 + a + b /\ 1 + a + b <= 1 + a + b
        /\ 1 \in Nat /\ 1 + a \in Nat /\ 1 + a + b \in Nat
    BY <1>1
  <2>2. IsPart(e, z, 1, a)
    BY <1>1, <1>10, <1>11, <2>1, PartStays, Zenon
  <2>3. IsPart(f, z, 1 + a, b)
    BY <1>1, <1>10, <1>11, <2>1, PartStays, Zenon
  <2>4. IsPart(v, z, 1 + a + b, c)
    BY <1>11, JoinPart, Zenon
  <2> QED
    BY <1>10, <1>11, <2>1, <2>2, <2>3, <2>4 DEF IsJoin
<1>13. s \in Seq(Octet) /\ IsJoin(s, z, 1 + a + b + c, t, d)
  BY <1>6, <1>11, <1>12, Join, Zenon
<1>14. /\ Len(s) = 1 + a + b + c + d /\ s[1] = h /\ IsPart(e, s, 1, a)
       /\ IsPart(f, s, 1 + a, b) /\ IsPart(v, s, 1 + a + b, c) /\ IsPart(t, s, 1 + a + b + c, d)
  <2>1. /\ 1 \in 1..(1 + a + b + c) /\ 1 + a <= 1 + a + b + c /\ 1 + a + b <= 1 + a + b + c
        /\ 1 + a + b + c <= 1 + a + b + c
        /\ 1 \in Nat /\ 1 + a \in Nat /\ 1 + a + b \in Nat /\ 1 + a + b + c \in Nat
    BY <1>1
  <2>2. IsPart(e, s, 1, a)
    BY <1>1, <1>12, <1>13, <2>1, PartStays, Zenon
  <2>3. IsPart(f, s, 1 + a, b)
    BY <1>1, <1>12, <1>13, <2>1, PartStays, Zenon
  <2>4. IsPart(v, s, 1 + a + b, c)
    BY <1>1, <1>12, <1>13, <2>1, PartStays, Zenon
  <2>5. IsPart(t, s, 1 + a + b + c, d)
    BY <1>13, JoinPart, Zenon
  <2> QED
    BY <1>12, <1>13, <2>1, <2>2, <2>3, <2>4, <2>5 DEF IsJoin
<1> QED
  BY <1>13, <1>14, Zenon DEF IsLaid

\* There is one such sequence.
LEMMA OneLaid ==
  ASSUME NEW s \in Seq(Octet), NEW r \in Seq(Octet), NEW h, NEW e, NEW f, NEW v, NEW t,
         NEW a \in Nat, NEW b \in Nat, NEW c \in Nat, NEW d \in Nat,
         IsLaid(s, h, e, a, f, b, v, c, t, d), IsLaid(r, h, e, a, f, b, v, c, t, d)
  PROVE  s = r
<1>1. ASSUME NEW i \in 1..(1 + a + b + c + d) PROVE s[i] = r[i]
  <2>1. \/ i = 1
        \/ \E j \in 1..a : i = 1 + j
        \/ \E j \in 1..b : i = 1 + a + j
        \/ \E j \in 1..c : i = 1 + a + b + j
        \/ \E j \in 1..d : i = 1 + a + b + c + j
    <3>1. i - 1 \in 1..a => i = 1 + (i - 1)
      OBVIOUS
    <3>2. i - (1 + a) \in 1..b => i = 1 + a + (i - (1 + a))
      OBVIOUS
    <3>3. i - (1 + a + b) \in 1..c => i = 1 + a + b + (i - (1 + a + b))
      OBVIOUS
    <3>4. i - (1 + a + b + c) \in 1..d => i = 1 + a + b + c + (i - (1 + a + b + c))
      OBVIOUS
    <3>5. \/ i = 1 \/ i - 1 \in 1..a \/ i - (1 + a) \in 1..b \/ i - (1 + a + b) \in 1..c
          \/ i - (1 + a + b + c) \in 1..d
      OBVIOUS
    <3> QED
      BY <3>1, <3>2, <3>3, <3>4, <3>5, Zenon
  <2>2. CASE i = 1
    BY <2>2 DEF IsLaid
  <2>3. ASSUME NEW j \in 1..a, i = 1 + j PROVE s[i] = r[i]
    BY <2>3, Zenon DEF IsLaid, IsPart
  <2>4. ASSUME NEW j \in 1..b, i = 1 + a + j PROVE s[i] = r[i]
    BY <2>4, Zenon DEF IsLaid, IsPart
  <2>5. ASSUME NEW j \in 1..c, i = 1 + a + b + j PROVE s[i] = r[i]
    BY <2>5, Zenon DEF IsLaid, IsPart
  <2>6. ASSUME NEW j \in 1..d, i = 1 + a + b + c + j PROVE s[i] = r[i]
    BY <2>6, Zenon DEF IsLaid, IsPart
  <2> QED
    BY <2>1, <2>2, <2>3, <2>4, <2>5, <2>6, Zenon
<1>2. Len(s) = 1 + a + b + c + d /\ Len(r) = 1 + a + b + c + d
  BY Zenon DEF IsLaid
<1> QED
  BY <1>1, <1>2, SeqEqual, Zenon

\* SubSeq gives a part.
LEMMA Middle ==
  ASSUME NEW s \in Seq(Octet), NEW n \in Nat, NEW m \in Nat, n + m <= Len(s)
  PROVE  SubSeq(s, n + 1, n + m) \in Seq(Octet) /\ IsPart(SubSeq(s, n + 1, n + m), s, n, m)
<1>1. PICK l \in Nat : l = Len(s) /\ n + m <= l
  BY LenProperties
<1>2. \A i \in (n + 1)..(n + m) : i \in 1..l
  BY <1>1
<1>3. n + 1 \in Int /\ n + m \in Int /\ \A i \in (n + 1)..(n + m) : s[i] \in Octet
  BY <1>1, <1>2, ElementOfSeq
<1>4. PICK c : c = SubSeq(s, n + 1, n + m)
  OBVIOUS
<1>5. /\ c \in Seq(Octet) /\ Len(c) = IF n + 1 <= n + m THEN (n + m) - (n + 1) + 1 ELSE 0
      /\ \A i \in 1..((n + m) - (n + 1) + 1) : c[i] = s[(n + 1) + i - 1]
  BY <1>3, <1>4, SubSeqProperties
<1>6. Len(c) = m /\ \A i \in 1..m : c[i] = s[n + i]
  <2>1. /\ (IF n + 1 <= n + m THEN (n + m) - (n + 1) + 1 ELSE 0) = m
        /\ (n + m) - (n + 1) + 1 = m
        /\ \A i \in 1..m : (n + 1) + i - 1 = n + i
    OBVIOUS
  <2> QED
    BY <1>5, <2>1, Zenon
<1> QED
  BY <1>4, <1>5, <1>6, Zenon DEF IsPart

-----------------------------------------------------------------------------
(* Codec: one turn of the loop of decode.                                   *)

\* What the loop reads at the front of s: the delta and the length of the value.
Delta(s) == Extended(s[1] \div 16, s, 1)
Length(s) == Extended(s[1] % 16, s, Delta(s).pos)

\* The position after the option, its value, and the bytes that follow.
Beyond(s) == Plus(Length(s).pos, Length(s).v)
Value(s) == Slice(s, Length(s).pos, Length(s).v)
Others(s) == SubSeq(s, Beyond(s) + 1, Len(s))

\* The loop ends here; it throws here.
Stops(s) == s = <<>> \/ s[1] = Marker
Fails(s) ==
  \/ 15 \in {s[1] \div 16, s[1] % 16} \/ ~Delta(s).ok \/ ~Length(s).ok
  \/ Truncated(s, Length(s).pos, Length(s).v)

\* An option of the given delta and value, then t.
IsOption(s, delta, value, t) ==
  /\ delta \in Sizes /\ Len(value) \in Sizes
  /\ value \in Seq(Octet) /\ t \in Seq(Octet) /\ s \in Seq(Octet)
  /\ s = EncodeOption(delta, value) \o t

\* It lies in s like that.
LaidOption(s, delta, e, a, value, f, b, c, t, d) ==
  /\ a \in Nat /\ b \in Nat /\ c \in Nat /\ d \in Nat
  /\ Form(delta, nibble(delta), e) /\ Form(c, nibble(c), f)
  /\ IsLaid(s, nibble(delta) * 16 + nibble(c), e, a, f, b, value, c, t, d)

\* Two nibbles below 15 in one byte, which is not the marker.
LEMMA Nibbles ==
  ASSUME NEW x \in 0..14, NEW y \in 0..14, NEW h, h = x * 16 + y
  PROVE  /\ h \in Octet /\ h # Marker /\ h \div 16 = x /\ h % 16 = y
         /\ ~(15 \in {h \div 16, h % 16})
<1>1. h \in Nat /\ h <= 238 /\ h \div 16 = x /\ h % 16 = y
  OBVIOUS
<1> QED
  BY <1>1, OctetIs DEF Marker

\* A byte is two nibbles.
LEMMA InNibbles ==
  ASSUME NEW h \in Octet
  PROVE  /\ h \div 16 \in 0..15 /\ h % 16 \in 0..15
         /\ h = (h \div 16) * 16 + (h % 16)
<1>1. h \in Nat /\ h <= 255
  BY OctetIs
<1> QED
  BY <1>1

\* What encode writes for an option lies there.
LEMMA OptionLaid ==
  ASSUME NEW s, NEW delta, NEW value, NEW t, IsOption(s, delta, value, t)
  PROVE  \E e, f \in Seq(Octet), a, b, d \in Nat :
           LaidOption(s, delta, e, a, value, f, b, Len(value), t, d)
<1>1. PICK c : c = Len(value) /\ c \in Sizes /\ c \in Nat
  BY DEF IsOption, Sizes
<1>2. PICK e \in Seq(Octet) : e = Extension(delta) /\ Form(delta, nibble(delta), e)
                              /\ nibble(delta) \in 0..14
  BY FormOf, FormIs, Zenon DEF IsOption
<1>3. PICK f \in Seq(Octet) : f = Extension(c) /\ Form(c, nibble(c), f) /\ nibble(c) \in 0..14
  BY <1>1, FormOf, FormIs, Zenon
<1>4. PICK a \in Nat, b \in Nat, d \in Nat : a = Len(e) /\ b = Len(f) /\ d = Len(t)
  BY LenProperties DEF IsOption
<1>5. PICK h \in Octet : h = nibble(delta) * 16 + nibble(c)
  BY <1>2, <1>3, Nibbles, Zenon
<1>6. s = <<h>> \o e \o f \o value \o t
  BY <1>1, <1>2, <1>3, <1>5, Zenon DEF IsOption, EncodeOption
<1>7. IsLaid(s, h, e, a, f, b, value, c, t, d)
  BY <1>1, <1>4, <1>6, Laying, Zenon DEF IsOption
<1>8. LaidOption(s, delta, e, a, value, f, b, c, t, d)
  BY <1>1, <1>2, <1>3, <1>5, <1>7, Zenon DEF LaidOption
<1> QED
  BY <1>1, <1>8, Zenon

\* The loop reads an option that encode wrote, and goes on after it.
ReadsOption(s, delta, value, t) ==
  /\ ~Stops(s) /\ ~Fails(s) /\ Beyond(s) # NaN
  /\ Delta(s).v = delta /\ Value(s) = value /\ Others(s) = t

\* decode reads the option that encode wrote.
LEMMA OptionRead ==
  ASSUME NEW s, NEW delta, NEW value, NEW t, IsOption(s, delta, value, t)
  PROVE  ReadsOption(s, delta, value, t)
<1>1. PICK e \in Seq(Octet), f \in Seq(Octet), a \in Nat, b \in Nat, d \in Nat :
        LaidOption(s, delta, e, a, value, f, b, Len(value), t, d)
  BY OptionLaid, Zenon
<1>2. PICK c \in Nat : c = Len(value)
  BY <1>1 DEF LaidOption
<1>3. PICK n \in Nat, p \in Nat, q \in Nat :
        n = Len(s) /\ p = 1 + a /\ q = 1 + a + b /\ n = q + c + d
        /\ p <= n /\ q <= n /\ q + c <= n /\ ~(q + c > n) /\ n # 0 /\ q + c \in Nat
  BY <1>1, <1>2 DEF LaidOption, IsLaid
<1>4. PICK h : h = nibble(delta) * 16 + nibble(c)
  OBVIOUS
<1>5. /\ s \in Seq(Octet) /\ s[1] = h
      /\ IsPart(e, s, 1, a) /\ IsPart(f, s, p, b) /\ IsPart(value, s, q, c)
      /\ IsPart(t, s, q + c, d)
  BY <1>1, <1>2, <1>3, <1>4, Zenon DEF LaidOption, IsLaid, IsOption
<1>6. Form(delta, nibble(delta), e) /\ Form(c, nibble(c), f)
  BY <1>1, <1>2, Zenon DEF LaidOption
<1>7. /\ h # Marker /\ h \div 16 = nibble(delta) /\ h % 16 = nibble(c)
      /\ ~(15 \in {h \div 16, h % 16})
  <2>1. nibble(delta) \in 0..14 /\ nibble(c) \in 0..14
    BY <1>6, FormIs, Zenon
  <2> QED
    BY <1>4, <2>1, Nibbles, Zenon
<1>8. IsRead(Delta(s), delta, p)
  <2>1. 1 \in Nat /\ 1 + a <= Len(s)
    BY <1>3
  <2> QED
    BY <1>3, <1>5, <1>6, <1>7, <2>1, FormRead, Zenon DEF Delta
<1>9. IsRead(Length(s), c, q)
  <2>1. p + b = q /\ p + b <= Len(s)
    BY <1>3
  <2>2. IsRead(Extended(nibble(c), s, p), c, p + b)
    BY <1>5, <1>6, <2>1, FormRead, Zenon
  <2>3. Delta(s).pos = p
    BY <1>8, Zenon DEF IsRead
  <2> QED
    BY <1>5, <1>7, <2>1, <2>2, <2>3, Zenon DEF Length
<1>10. Delta(s).v = delta /\ Delta(s).ok /\ Length(s).pos = q /\ Length(s).v = c /\ Length(s).ok
  BY <1>8, <1>9, Zenon DEF IsRead
<1>11. Beyond(s) = q + c /\ Beyond(s) # NaN /\ c # NaN
  <2>1. Plus(q, c) = q + c /\ q + c # NaN /\ c # NaN
    BY <1>3, NotNaN
  <2> QED
    BY <1>10, <2>1, Zenon DEF Beyond
<1>12. ~Truncated(s, q, c)
  <2>1. ~(q + c > Len(s))
    BY <1>3
  <2> QED
    BY <2>1 DEF Truncated
<1>13. ~Stops(s)
  <2>1. s # <<>>
    BY <1>3, EmptySeq, Zenon
  <2> QED
    BY <1>5, <1>7, <2>1, Zenon DEF Stops
<1>14. ~Fails(s)
  BY <1>5, <1>7, <1>10, <1>12, Zenon DEF Fails
<1>15. Value(s) = value
  <2>1. Min({q + c, Len(s)}) = q + c
    BY <1>3 DEF Min
  <2>2. Value(s) = SubSeq(s, q + 1, q + c)
    BY <1>10, <1>11, <2>1, Zenon DEF Value, Slice
  <2>3. q + c <= Len(s)
    BY <1>3
  <2>4. Value(s) \in Seq(Octet) /\ IsPart(Value(s), s, q, c)
    BY <1>5, <2>2, <2>3, Middle, Zenon
  <2>5. value \in Seq(Octet)
    BY DEF IsOption
  <2> QED
    BY <1>5, <2>4, <2>5, OnePart, Zenon
<1>16. Others(s) = t
  <2>1. Others(s) = SubSeq(s, (q + c) + 1, Len(s)) /\ Len(s) = (q + c) + d
    BY <1>3, <1>11 DEF Others
  <2>2. Others(s) \in Seq(Octet) /\ IsPart(Others(s), s, q + c, d)
    BY <1>3, <1>5, <2>1, RestOf, Zenon
  <2>3. t \in Seq(Octet)
    BY DEF IsOption
  <2> QED
    BY <1>5, <2>2, <2>3, OnePart, Zenon
<1> QED
  BY <1>10, <1>11, <1>13, <1>14, <1>15, <1>16, Zenon DEF ReadsOption

\* readUInt16BE has its two bytes.
LEMMA TwoMore ==
  ASSUME NEW s \in Seq(Octet), NEW pos \in Nat, Extended(14, s, pos).ok
  PROVE  pos + 2 <= Len(s) /\ Extended(14, s, pos).v = 269 + readUInt16BE(s, pos)
<1>1. Extended(14, s, pos).ok = (pos + 2 <= Len(s))
  BY DEF Extended
<1>2. pos + 2 <= Len(s)
  BY <1>1, Zenon
<1>3. Extended(14, s, pos).v = 269 + readUInt16BE(s, pos)
  BY <1>2 DEF Extended
<1> QED
  BY <1>2, <1>3

\* A NaN is read past the end, for an extension of one byte.
LEMMA ReadNaN ==
  ASSUME NEW nib \in 0..14, NEW s \in Seq(Octet), NEW pos \in Nat,
         Extended(nib, s, pos).ok, Extended(nib, s, pos).v = NaN
  PROVE  nib = 13 /\ ~(pos < Len(s)) /\ Extended(nib, s, pos).pos = pos + 1
<1>1. PICK n \in Nat : n = Len(s)
  BY LenProperties
<1>2. CASE nib # 13 /\ nib # 14
  <2>1. Extended(nib, s, pos) = [v |-> nib, pos |-> pos, ok |-> TRUE]
    BY <1>2 DEF Extended
  <2> QED
    BY <2>1 DEF NaN
<1>3. CASE nib = 13
  <2>1. Extended(nib, s, pos) = [v |-> Plus(13, At(s, pos)), pos |-> pos + 1, ok |-> TRUE]
    BY <1>3 DEF Extended
  <2>2. ASSUME pos < Len(s) PROVE FALSE
    <3>1. At(s, pos) \in Nat /\ 13 \in Nat
      BY <2>2, OctetAt, OctetIs
    <3>2. Plus(13, At(s, pos)) = 13 + At(s, pos)
      BY <3>1, NotNaN, Zenon
    <3>3. 13 + At(s, pos) = NaN
      BY <2>1, <3>2
    <3> QED
      BY <3>1, <3>3 DEF NaN
  <2> QED
    BY <1>3, <2>1, <2>2
<1>4. CASE nib = 14
  <2>1. pos + 2 <= Len(s) /\ 269 + readUInt16BE(s, pos) = NaN
    BY <1>4, TwoMore, Zenon
  <2>2. pos < n /\ pos + 1 < n /\ pos + 1 \in Nat
    BY <1>1, <2>1
  <2>3. At(s, pos) \in Nat /\ At(s, pos + 1) \in Nat
    BY <1>1, <2>2, OctetAt, OctetIs, Zenon
  <2>4. PICK x \in Nat, y \in Nat : x = At(s, pos) /\ y = At(s, pos + 1)
    BY <2>3
  <2>5. 269 + (x * 256 + y) = NaN
    BY <2>1, <2>4, Zenon DEF readUInt16BE
  <2>6. FALSE
    BY <2>5 DEF NaN
  <2> QED
    BY <2>6
<1> QED
  BY <1>2, <1>3, <1>4

\* At most two bytes extend a nibble.
LEMMA FormShort ==
  ASSUME NEW v, NEW nib, NEW ext, Form(v, nib, ext), NEW k \in Nat, NEW s, NEW pos,
         IsPart(ext, s, pos, k)
  PROVE  k \in 0..2
BY DEF Form, IsPart

\* The loop goes on with an option read; this is where its bytes lie.
GoesOn(s) == ~Stops(s) /\ ~Fails(s)

ReadAt(s, n, a) ==
  \E e \in Seq(Octet) :
    /\ Form(Delta(s).v, s[1] \div 16, e) /\ IsPart(e, s, 1, a)
    /\ Delta(s).pos = 1 + a /\ 1 + a <= n

\* The first byte of an option, and its delta, when the loop goes on.
LEMMA TurnHead ==
  ASSUME NEW s \in Seq(Octet), GoesOn(s), NEW n, n = Len(s)
  PROVE  /\ n \in Nat /\ n >= 1 /\ s[1] \in Octet
         /\ s[1] \div 16 \in 0..14 /\ s[1] % 16 \in 0..14
         /\ Delta(s).ok /\ Length(s).ok /\ ~Truncated(s, Length(s).pos, Length(s).v)
<1>1. n \in Nat /\ n >= 1
  BY LenProperties, EmptySeq DEF GoesOn, Stops
<1>2. s[1] \in Octet
  <2>1. 1 \in 1..n
    BY <1>1
  <2> QED
    BY <2>1, ElementOfSeq
<1>3. s[1] \div 16 \in 0..15 /\ s[1] % 16 \in 0..15
  BY <1>2, InNibbles
<1>4. s[1] \div 16 # 15 /\ s[1] % 16 # 15
  BY DEF GoesOn, Fails
<1> QED
  BY <1>1, <1>2, <1>3, <1>4 DEF GoesOn, Fails

\* When the delta is a number, its bytes are there.
LEMMA DeltaRead ==
  ASSUME NEW s \in Seq(Octet), GoesOn(s), Delta(s).v # NaN, NEW n, n = Len(s)
  PROVE  \E a \in Nat : ReadAt(s, n, a)
<1>1. /\ n \in Nat /\ n >= 1 /\ s[1] \div 16 \in 0..14 /\ Delta(s).ok /\ 1 \in Nat
      /\ 1 <= Len(s)
  BY TurnHead
<1>2. PICK d : d = Delta(s)
  OBVIOUS
<1>3. Written(d.v, s[1] \div 16, s, 1, d.pos)
  BY <1>1, <1>2, ReadForm, Zenon DEF Delta
<1> QED
  BY <1>2, <1>3, Zenon DEF Written, ReadAt

\* When it is NaN there is one byte, and the length is NaN too.
LEMMA DeltaNaN ==
  ASSUME NEW s \in Seq(Octet), GoesOn(s), Delta(s).v = NaN
  PROVE  Len(s) = 1 /\ s[1] % 16 = 13 /\ Length(s).v = NaN
<1>1. PICK n : n = Len(s)
  OBVIOUS
<1>2. /\ n \in Nat /\ n >= 1 /\ s[1] \div 16 \in 0..14 /\ s[1] % 16 \in 0..14
      /\ Delta(s).ok /\ Length(s).ok /\ ~Truncated(s, Length(s).pos, Length(s).v)
  BY <1>1, TurnHead, Zenon
<1>3. ~(1 < Len(s)) /\ Delta(s).pos = 1 + 1
  <2>1. 1 \in Nat
    OBVIOUS
  <2> QED
    BY <1>2, <2>1, ReadNaN, Zenon DEF Delta
<1>4. n = 1 /\ Len(s) = 1 /\ Delta(s).pos = 2
  BY <1>1, <1>2, <1>3
<1>5. PICK nib \in 0..14 : nib = s[1] % 16
  BY <1>2
<1>6. PICK l : l = Length(s) /\ l = Extended(nib, s, 2)
  BY <1>4, <1>5, Zenon DEF Length
<1>7. ASSUME nib = 14 PROVE FALSE
  <2>1. 2 + 2 <= Len(s)
    <3>1. Extended(14, s, 2).ok /\ 2 \in Nat
      BY <1>2, <1>6, <1>7
    <3> QED
      BY <3>1, TwoMore, Zenon
  <2> QED
    BY <1>4, <2>1
<1>8. CASE nib = 13
  <2>1. l = [v |-> Plus(13, At(s, 2)), pos |-> 2 + 1, ok |-> TRUE]
    BY <1>6, <1>8 DEF Extended
  <2>2. At(s, 2) = NaN
    BY <1>4 DEF At
  <2>3. l.v = NaN
    BY <2>1, <2>2 DEF Plus
  <2> QED
    BY <1>4, <1>5, <1>6, <1>8, <2>3
<1>9. ASSUME nib # 13, nib # 14 PROVE FALSE
  <2>1. l = [v |-> nib, pos |-> 2, ok |-> TRUE]
    BY <1>6, <1>9 DEF Extended
  <2>2. l.pos = 2 /\ l.v = nib /\ nib # NaN /\ 2 + nib > 1
    BY <2>1 DEF NaN
  <2>3. l.pos + l.v > Len(s)
    BY <1>4, <2>2
  <2>4. Truncated(s, l.pos, l.v)
    BY <2>2, <2>3 DEF Truncated
  <2> QED
    BY <1>2, <1>6, <2>4, Zenon
<1> QED
  BY <1>7, <1>8, <1>9

\* The same for the length, and the value.
LengthAt(s, n, a) ==
  \E f \in Seq(Octet), b \in Nat, c \in Nat :
    /\ Form(c, s[1] % 16, f) /\ IsPart(f, s, 1 + a, b)
    /\ Length(s).v = c /\ Length(s).pos = 1 + a + b /\ 1 + a + b + c <= n
    /\ Beyond(s) = 1 + a + b + c /\ Beyond(s) # NaN

\* When the length is a number too, its bytes and the value's are there.
LEMMA LengthRead ==
  ASSUME NEW s \in Seq(Octet), GoesOn(s), NEW n, n = Len(s), NEW a \in Nat, ReadAt(s, n, a),
         Length(s).v # NaN
  PROVE  LengthAt(s, n, a)
<1>1. /\ n \in Nat /\ s[1] % 16 \in 0..14
      /\ Length(s).ok /\ ~Truncated(s, Length(s).pos, Length(s).v)
  BY TurnHead, Zenon
<1>2. Delta(s).pos = 1 + a /\ 1 + a <= Len(s)
  BY Zenon DEF ReadAt
<1>3. PICK l : l = Length(s)
  OBVIOUS
<1>4. l = Extended(s[1] % 16, s, 1 + a) /\ 1 + a \in Nat /\ l.ok /\ l.v # NaN
  BY <1>1, <1>2, <1>3 DEF Length
<1>5. Written(l.v, s[1] % 16, s, 1 + a, l.pos)
  BY <1>1, <1>2, <1>4, ReadForm, Zenon
<1>6. PICK f \in Seq(Octet), b \in Nat :
        /\ Form(l.v, s[1] % 16, f) /\ IsPart(f, s, 1 + a, b) /\ l.pos = 1 + a + b
  BY <1>5, Zenon DEF Written
<1>7. PICK c \in Nat : c = l.v
  <2>1. l.v \in Sizes
    BY <1>6, FormIs, Zenon
  <2> QED
    BY <2>1 DEF Sizes
<1>8. PICK p \in Nat : p = 1 + a + b
  OBVIOUS
<1>9. Beyond(s) = p + c /\ Beyond(s) # NaN /\ c # NaN
  <2>1. p + c \in Nat
    OBVIOUS
  <2>2. Plus(p, c) = p + c /\ p + c # NaN /\ c # NaN
    BY <2>1, NotNaN
  <2>3. Length(s).pos = p /\ Length(s).v = c
    BY <1>3, <1>6, <1>7, <1>8, Zenon
  <2> QED
    BY <2>2, <2>3, Zenon DEF Beyond
<1>10. p + c <= n
  <2>1. ~Truncated(s, p, c)
    BY <1>1, <1>3, <1>6, <1>7, <1>8, Zenon
  <2>2. ~(p + c > Len(s))
    BY <1>9, <2>1 DEF Truncated
  <2> QED
    BY <1>1, <2>2
<1> QED
  BY <1>3, <1>6, <1>7, <1>8, <1>9, <1>10, Zenon DEF LengthAt

\* A position of NaN: the bytes end where the extension byte of the length should be.
LEMMA TurnRunsOff ==
  ASSUME NEW s \in Seq(Octet), GoesOn(s), Beyond(s) = NaN
  PROVE  Len(s) \in 1..3 /\ Value(s) = <<>> /\ s[1] % 16 = 13
<1>1. PICK n \in Nat : n = Len(s)
  BY LenProperties
<1>2. ASSUME Length(s).v = NaN PROVE Value(s) = <<>>
  BY <1>2, Zenon DEF Value, Slice
<1>3. CASE Delta(s).v = NaN
  BY <1>2, <1>3, DeltaNaN
<1>4. CASE Delta(s).v # NaN
  <2>1. PICK a \in Nat : ReadAt(s, n, a)
    BY <1>1, <1>4, DeltaRead, Zenon
  <2>2. Length(s).v = NaN
    BY <1>1, <2>1, LengthRead, Zenon DEF LengthAt
  <2>3. Delta(s).pos = 1 + a /\ 1 + a <= n /\ a \in 0..2
    <3>1. Delta(s).pos = 1 + a /\ 1 + a <= n
      BY <2>1, Zenon DEF ReadAt
    <3>2. a \in 0..2
      BY <2>1, FormShort, Zenon DEF ReadAt
    <3> QED
      BY <3>1, <3>2
  <2>4. s[1] % 16 = 13 /\ ~(1 + a < Len(s))
    <3>1. s[1] % 16 \in 0..14 /\ Length(s).ok
      BY TurnHead, Zenon
    <3>2. Length(s) = Extended(s[1] % 16, s, 1 + a) /\ 1 + a \in Nat
      BY <2>3 DEF Length
    <3> QED
      BY <2>2, <3>1, <3>2, ReadNaN, Zenon
  <2>5. n \in 1..3
    BY <1>1, <2>3, <2>4
  <2> QED
    BY <1>1, <1>2, <2>2, <2>4, <2>5
<1> QED
  BY <1>3, <1>4

\* Otherwise what was read is what encode writes.
LEMMA TurnReads ==
  ASSUME NEW s \in Seq(Octet), GoesOn(s), Beyond(s) # NaN
  PROVE  /\ IsOption(s, Delta(s).v, Value(s), Others(s))
         /\ Len(Others(s)) \in Nat /\ Len(Others(s)) < Len(s)
<1>1. PICK n \in Nat : n = Len(s)
  BY LenProperties
<1>2. Length(s).v # NaN
  BY DEF Beyond, Plus
<1>3. Delta(s).v # NaN
  BY <1>2, DeltaNaN, Zenon
<1>4. PICK a \in Nat : ReadAt(s, n, a)
  BY <1>1, <1>3, DeltaRead, Zenon
<1>5. PICK f \in Seq(Octet), b \in Nat, c \in Nat :
        /\ Form(c, s[1] % 16, f) /\ IsPart(f, s, 1 + a, b)
        /\ Length(s).v = c /\ Length(s).pos = 1 + a + b /\ 1 + a + b + c <= n
        /\ Beyond(s) = 1 + a + b + c
  <2>1. LengthAt(s, n, a)
    BY <1>1, <1>2, <1>4, LengthRead, Zenon
  <2> QED
    BY <2>1, Zenon DEF LengthAt
<1>6. PICK delta : delta = Delta(s).v
  OBVIOUS
<1>7. PICK e \in Seq(Octet) : Form(delta, s[1] \div 16, e) /\ IsPart(e, s, 1, a)
  BY <1>4, <1>6, Zenon DEF ReadAt
<1>8. PICK d \in Nat : n = 1 + a + b + c + d /\ d < n /\ 1 + a + b + c \in Nat
  <2>1. n - (1 + a + b + c) \in Nat
    BY <1>5
  <2> QED
    BY <2>1
<1>9. PICK v : v = Value(s) /\ v \in Seq(Octet) /\ IsPart(v, s, 1 + a + b, c)
  <2>1. c # NaN /\ 1 + a + b \in Nat
    BY NotNaN
  <2>2. Min({1 + a + b + c, Len(s)}) = 1 + a + b + c
    BY <1>1, <1>5 DEF Min
  <2>3. Value(s) = SubSeq(s, 1 + a + b + 1, 1 + a + b + c)
    BY <1>5, <2>1, <2>2, Zenon DEF Value, Slice
  <2> QED
    BY <1>1, <1>5, <2>1, <2>3, Middle, Zenon
<1>10. PICK t : t = Others(s) /\ t \in Seq(Octet) /\ IsPart(t, s, 1 + a + b + c, d)
  BY <1>1, <1>5, <1>8, RestOf, Zenon DEF Others
<1>11. Len(v) = c /\ Len(t) = d
  BY <1>9, <1>10, Zenon DEF IsPart
<1>12. PICK h \in Octet : /\ h = s[1] /\ h = nibble(delta) * 16 + nibble(c)
                          /\ delta \in Sizes /\ c \in Sizes
                          /\ e = Extension(delta) /\ f = Extension(c)
  <2>1. s[1] \in Octet /\ s[1] = (s[1] \div 16) * 16 + (s[1] % 16)
    BY <1>1, TurnHead, InNibbles, Zenon
  <2>2. nibble(delta) = s[1] \div 16 /\ delta \in Sizes /\ e = Extension(delta)
    BY <1>6, <1>7, FormIs, Zenon
  <2>3. nibble(c) = s[1] % 16 /\ c \in Sizes /\ f = Extension(c)
    BY <1>5, FormIs, Zenon
  <2> QED
    BY <2>1, <2>2, <2>3, Zenon
<1>13. IsLaid(s, h, e, a, f, b, v, c, t, d)
  BY <1>1, <1>5, <1>6, <1>7, <1>8, <1>9, <1>10, <1>12, Zenon DEF IsLaid
<1>14. PICK r : r = <<h>> \o e \o f \o v \o t
  OBVIOUS
<1>15. r \in Seq(Octet) /\ IsLaid(r, h, e, a, f, b, v, c, t, d)
  <2>1. a = Len(e) /\ b = Len(f) /\ c = Len(v) /\ d = Len(t)
    BY <1>5, <1>6, <1>7, <1>11, Zenon DEF IsPart
  <2> QED
    BY <1>9, <1>10, <1>14, <2>1, Laying, Zenon
<1>16. s = r
  BY <1>13, <1>15, OneLaid, Zenon
<1>17. s = EncodeOption(delta, v) \o t
  BY <1>11, <1>12, <1>14, <1>16, Zenon DEF EncodeOption
<1>18. IsOption(s, delta, v, t)
  BY <1>9, <1>10, <1>11, <1>12, <1>17, Zenon DEF IsOption
<1> QED
  BY <1>1, <1>6, <1>7, <1>8, <1>9, <1>10, <1>11, <1>18, Zenon

-----------------------------------------------------------------------------
(* Codec: the two loops, turn by turn.                                      *)

\* One turn of the loop of encode, which g goes on with.
Wrote(g, os) == [prev \in Nat |->
  IF os = <<>> THEN <<>>
  ELSE EncodeOption(os[1].number - prev, os[1].value) \o g[Tail(os)][os[1].number]]

\* Functions that do these turns, and agree, on fewer than n options.
Fewer(n) == {os \in Seq(Option) : Len(os) < n}
Writes(g, n) == \A os \in Fewer(n) : g[os] = Wrote(g, os)
SameWrites(g, h, n) == \A os \in Fewer(n) : g[os] = h[os]

\* The first option and the others.
LEMMA FirstOption ==
  ASSUME NEW os \in Seq(Option), os # <<>>
  PROVE  /\ os[1].number \in Nat /\ os[1].value \in Seq(Octet)
         /\ Tail(os) \in Seq(Option) /\ Len(Tail(os)) \in Nat /\ Len(Tail(os)) < Len(os)
<1>1. PICK n \in Nat : n = Len(os) /\ n >= 1
  BY LenProperties, EmptySeq
<1>2. os[1] \in Option
  BY <1>1, ElementOfSeq
<1>3. Tail(os) \in Seq(Option) /\ Len(Tail(os)) = n - 1
  BY <1>1, HeadTailProperties
<1>4. n - 1 \in Nat /\ n - 1 < n
  BY <1>1
<1> QED
  BY <1>1, <1>2, <1>3, <1>4 DEF Option

\* Turns with functions that agree on fewer options agree.
LEMMA WroteSame ==
  ASSUME NEW n \in Nat, NEW g, NEW h, SameWrites(g, h, n), NEW os \in Fewer(n + 1)
  PROVE  Wrote(g, os) = Wrote(h, os)
<1>1. os \in Seq(Option) /\ Len(os) < n + 1 /\ Len(os) \in Nat
  BY LenProperties DEF Fewer
<1>2. CASE os # <<>>
  <2>1. Tail(os) \in Seq(Option) /\ Len(Tail(os)) \in Nat /\ Len(Tail(os)) < Len(os)
    BY <1>1, <1>2, FirstOption, Zenon
  <2>2. Len(Tail(os)) < n
    BY <1>1, <2>1
  <2>3. g[Tail(os)] = h[Tail(os)]
    BY <2>1, <2>2, Zenon DEF Fewer, SameWrites
  <2> QED
    BY <2>3, Zenon DEF Wrote
<1>3. CASE os = <<>>
  BY <1>3, Zenon DEF Wrote
<1> QED
  BY <1>2, <1>3

\* For each number of options there is a function that does these turns.
LEMMA WritesExist == \A n \in Nat : \E g : Writes(g, n)
<1> DEFINE T == {n \in Nat : \E g : Writes(g, n)}
<1>1. 0 \in T
  <2>1. ASSUME NEW b \in Fewer(0) PROVE FALSE
    BY LenProperties DEF Fewer
  <2>2. \A g : Writes(g, 0)
    BY <2>1 DEF Writes
  <2> QED
    BY <2>2
<1>2. ASSUME NEW n \in Nat, n \in T PROVE n + 1 \in T
  <2>1. PICK g : Writes(g, n)
    BY <1>2
  <2> DEFINE h == [b \in Seq(Option) |-> Wrote(g, b)]
  <2>2. \A b \in Seq(Option) : h[b] = Wrote(g, b)
    OBVIOUS
  <2> HIDE DEF h
  <2>3. SameWrites(g, h, n)
    BY <2>1, <2>2, Zenon DEF Writes, Fewer, SameWrites
  <2>4. \A b \in Fewer(n + 1) : Wrote(g, b) = Wrote(h, b)
    BY <2>3, WroteSame, Zenon
  <2>5. Writes(h, n + 1)
    BY <2>2, <2>4, Zenon DEF Writes, Fewer
  <2>6. n + 1 \in Nat
    OBVIOUS
  <2> QED
    BY <2>5, <2>6, Zenon
<1> HIDE DEF T
<1>3. \A n \in Nat : n \in T
  BY <1>1, <1>2, Induction, Zenon
<1> QED
  BY <1>3 DEF T

\* Such functions agree.
LEMMA WritesAgree ==
  ASSUME NEW n \in Nat, NEW m \in Nat, n <= m, NEW g, NEW h, Writes(g, n), Writes(h, m)
  PROVE  SameWrites(g, h, n)
<1> DEFINE T == {k \in Nat : k <= n => SameWrites(g, h, k)}
<1>1. 0 \in T
  <2>1. ASSUME NEW b \in Fewer(0) PROVE FALSE
    BY LenProperties DEF Fewer
  <2> QED
    BY <2>1 DEF SameWrites
<1>2. ASSUME NEW k \in Nat, k \in T PROVE k + 1 \in T
  <2>1. SUFFICES ASSUME k + 1 <= n PROVE SameWrites(g, h, k + 1)
    OBVIOUS
  <2>2. k <= n
    BY <2>1
  <2>3. SameWrites(g, h, k)
    BY <1>2, <2>2
  <2>4. \A b \in Fewer(k + 1) : Wrote(g, b) = Wrote(h, b)
    BY <2>3, WroteSame, Zenon
  <2>5. ASSUME NEW b \in Fewer(k + 1) PROVE b \in Fewer(n) /\ b \in Fewer(m)
    <3>1. \A x \in Nat : x < k + 1 => x < n /\ x < m
      BY <2>1
    <3>2. b \in Seq(Option) /\ Len(b) \in Nat /\ Len(b) < k + 1
      BY LenProperties DEF Fewer
    <3>3. Len(b) < n /\ Len(b) < m
      BY <3>1, <3>2, Zenon
    <3> QED
      BY <3>2, <3>3, Zenon DEF Fewer
  <2> QED
    BY <2>4, <2>5, Zenon DEF Writes, SameWrites
<1> HIDE DEF T
<1>3. \A k \in Nat : k \in T
  BY <1>1, <1>2, Induction, Zenon
<1>4. n \in T /\ n <= n
  BY <1>3
<1> QED
  BY <1>4 DEF T

\* EncodeOptions does them.
LEMMA EncodeTurns == \A b \in Seq(Option) : EncodeOptions[b] = Wrote(EncodeOptions, b)
<1> DEFINE G(n) == CHOOSE g : Writes(g, n)
           H == [b \in Seq(Option) |-> G(Len(b) + 1)[b]]
<1>1. \A n \in Nat : Writes(G(n), n)
  BY WritesExist
<1>2. \A b \in Seq(Option) : H[b] = G(Len(b) + 1)[b]
  OBVIOUS
<1> HIDE DEF G, H
<1>3. ASSUME NEW b \in Seq(Option) PROVE H[b] = Wrote(H, b)
  <2>1. PICK n \in Nat : n = Len(b) /\ n + 1 \in Nat
    BY LenProperties
  <2>2. b \in Fewer(n + 1)
    BY <2>1 DEF Fewer
  <2>3. H[b] = Wrote(G(n + 1), b)
    BY <1>1, <1>2, <2>1, <2>2, Zenon DEF Writes
  <2>4. ASSUME NEW c \in Fewer(n) PROVE G(n + 1)[c] = H[c]
    <3>1. PICK m \in Nat : m = Len(c) /\ m + 1 \in Nat /\ m + 1 <= n + 1 /\ c \in Seq(Option)
      <4>1. c \in Seq(Option) /\ Len(c) \in Nat /\ Len(c) < n
        BY LenProperties DEF Fewer
      <4>2. \A x \in Nat : x < n => x + 1 \in Nat /\ x + 1 <= n + 1
        OBVIOUS
      <4>3. Len(c) + 1 \in Nat /\ Len(c) + 1 <= n + 1
        BY <4>1, <4>2, Zenon
      <4> QED
        BY <4>1, <4>3, Zenon
    <3>2. c \in Fewer(m + 1)
      BY <3>1 DEF Fewer
    <3>3. G(m + 1)[c] = G(n + 1)[c]
      <4>1. SameWrites(G(m + 1), G(n + 1), m + 1)
        BY <1>1, <2>1, <3>1, WritesAgree, Zenon
      <4> QED
        BY <3>2, <4>1, Zenon DEF SameWrites
    <3> QED
      BY <1>2, <3>1, <3>3, Zenon
  <2>5. SameWrites(G(n + 1), H, n)
    BY <2>4, Zenon DEF SameWrites
  <2>6. Wrote(G(n + 1), b) = Wrote(H, b)
    BY <2>2, <2>5, WroteSame, Zenon
  <2> QED
    BY <2>3, <2>6, Zenon
<1>4. H = [b \in Seq(Option) |-> Wrote(H, b)]
  <2>1. H = [b \in Seq(Option) |-> H[b]]
    BY DEF H
  <2> QED
    BY <1>3, <2>1, Zenon
<1>5. EncodeOptions = CHOOSE g : g = [b \in Seq(Option) |-> Wrote(g, b)]
  BY Zenon DEF EncodeOptions, Wrote
<1>6. EncodeOptions = [b \in Seq(Option) |-> Wrote(EncodeOptions, b)]
  BY <1>4, <1>5, Zenon
<1> QED
  BY <1>6, Zenon

\* One turn of the loop of decode, which g goes on with.
Ended(s) == [ok |-> TRUE, options |-> <<>>, payload |-> SubSeq(s, 2, Len(s)), ranOff |-> FALSE]
Then(g, s, number) == IF Beyond(s) = NaN THEN RanOff ELSE g[Others(s)][number]
Took(s, number, rest) ==
  IF 15 \in {s[1] \div 16, s[1] % 16} \/ ~Delta(s).ok \/ ~Length(s).ok
     \/ Truncated(s, Length(s).pos, Length(s).v) \/ ~rest.ok
  THEN Throws
  ELSE [ok |-> TRUE, options |-> <<[number |-> number, value |-> Value(s)]>> \o rest.options,
        payload |-> rest.payload, ranOff |-> rest.ranOff]
Reads(g, s) == [prev \in Int |->
  IF s = <<>> \/ s[1] = Marker THEN Ended(s)
  ELSE Took(s, Plus(prev, Delta(s).v), Then(g, s, Plus(prev, Delta(s).v)))]

\* Functions that do these turns, and agree, on fewer than n bytes.
Shorter(n) == {s \in Seq(Octet) : Len(s) < n}
ReadsAll(g, n) == \A s \in Shorter(n) : g[s] = Reads(g, s)
SameReads(g, h, n) == \A s \in Shorter(n) : g[s] = h[s]

\* Turns with functions that agree on fewer bytes agree.
LEMMA ReadsSame ==
  ASSUME NEW n \in Nat, NEW g, NEW h, SameReads(g, h, n), NEW s \in Shorter(n + 1)
  PROVE  Reads(g, s) = Reads(h, s)
<1>1. s \in Seq(Octet) /\ Len(s) < n + 1 /\ Len(s) \in Nat
  BY LenProperties DEF Shorter
<1>2. CASE Stops(s)
  BY <1>2, Zenon DEF Reads, Stops
<1>3. CASE Fails(s)
  BY <1>3, Zenon DEF Reads, Took, Fails
<1>4. CASE GoesOn(s) /\ Beyond(s) = NaN
  BY <1>4, Zenon DEF Reads, Then
<1>5. CASE GoesOn(s) /\ Beyond(s) # NaN
  <2>1. Others(s) \in Seq(Octet) /\ Len(Others(s)) \in Nat /\ Len(Others(s)) < Len(s)
    BY <1>1, <1>5, TurnReads, Zenon DEF IsOption
  <2>2. Len(Others(s)) < n
    BY <1>1, <2>1
  <2>3. g[Others(s)] = h[Others(s)]
    BY <2>1, <2>2, Zenon DEF Shorter, SameReads
  <2> QED
    BY <2>3, Zenon DEF Reads, Then
<1> QED
  BY <1>2, <1>3, <1>4, <1>5, Zenon DEF GoesOn

\* For each number of bytes there is a function that does these turns.
LEMMA ReadsExist == \A n \in Nat : \E g : ReadsAll(g, n)
<1> DEFINE T == {n \in Nat : \E g : ReadsAll(g, n)}
<1>1. 0 \in T
  <2>1. ASSUME NEW b \in Shorter(0) PROVE FALSE
    BY LenProperties DEF Shorter
  <2>2. \A g : ReadsAll(g, 0)
    BY <2>1 DEF ReadsAll
  <2> QED
    BY <2>2
<1>2. ASSUME NEW n \in Nat, n \in T PROVE n + 1 \in T
  <2>1. PICK g : ReadsAll(g, n)
    BY <1>2
  <2> DEFINE h == [b \in Seq(Octet) |-> Reads(g, b)]
  <2>2. \A b \in Seq(Octet) : h[b] = Reads(g, b)
    OBVIOUS
  <2> HIDE DEF h
  <2>3. SameReads(g, h, n)
    BY <2>1, <2>2, Zenon DEF ReadsAll, Shorter, SameReads
  <2>4. \A b \in Shorter(n + 1) : Reads(g, b) = Reads(h, b)
    BY <2>3, ReadsSame, Zenon
  <2>5. ReadsAll(h, n + 1)
    BY <2>2, <2>4, Zenon DEF ReadsAll, Shorter
  <2>6. n + 1 \in Nat
    OBVIOUS
  <2> QED
    BY <2>5, <2>6, Zenon
<1> HIDE DEF T
<1>3. \A n \in Nat : n \in T
  BY <1>1, <1>2, Induction, Zenon
<1> QED
  BY <1>3 DEF T

\* Such functions agree.
LEMMA ReadsAgree ==
  ASSUME NEW n \in Nat, NEW m \in Nat, n <= m, NEW g, NEW h, ReadsAll(g, n), ReadsAll(h, m)
  PROVE  SameReads(g, h, n)
<1> DEFINE T == {k \in Nat : k <= n => SameReads(g, h, k)}
<1>1. 0 \in T
  <2>1. ASSUME NEW b \in Shorter(0) PROVE FALSE
    BY LenProperties DEF Shorter
  <2> QED
    BY <2>1 DEF SameReads
<1>2. ASSUME NEW k \in Nat, k \in T PROVE k + 1 \in T
  <2>1. SUFFICES ASSUME k + 1 <= n PROVE SameReads(g, h, k + 1)
    OBVIOUS
  <2>2. k <= n
    BY <2>1
  <2>3. SameReads(g, h, k)
    BY <1>2, <2>2
  <2>4. \A b \in Shorter(k + 1) : Reads(g, b) = Reads(h, b)
    BY <2>3, ReadsSame, Zenon
  <2>5. ASSUME NEW b \in Shorter(k + 1) PROVE b \in Shorter(n) /\ b \in Shorter(m)
    <3>1. \A x \in Nat : x < k + 1 => x < n /\ x < m
      BY <2>1
    <3>2. b \in Seq(Octet) /\ Len(b) \in Nat /\ Len(b) < k + 1
      BY LenProperties DEF Shorter
    <3>3. Len(b) < n /\ Len(b) < m
      BY <3>1, <3>2, Zenon
    <3> QED
      BY <3>2, <3>3, Zenon DEF Shorter
  <2> QED
    BY <2>4, <2>5, Zenon DEF ReadsAll, SameReads
<1> HIDE DEF T
<1>3. \A k \in Nat : k \in T
  BY <1>1, <1>2, Induction, Zenon
<1>4. n \in T /\ n <= n
  BY <1>3
<1> QED
  BY <1>4 DEF T

\* DecodeOptions does them.
LEMMA DecodeTurns == \A b \in Seq(Octet) : DecodeOptions[b] = Reads(DecodeOptions, b)
<1> DEFINE G(n) == CHOOSE g : ReadsAll(g, n)
           H == [b \in Seq(Octet) |-> G(Len(b) + 1)[b]]
<1>1. \A n \in Nat : ReadsAll(G(n), n)
  BY ReadsExist
<1>2. \A b \in Seq(Octet) : H[b] = G(Len(b) + 1)[b]
  OBVIOUS
<1> HIDE DEF G, H
<1>3. ASSUME NEW b \in Seq(Octet) PROVE H[b] = Reads(H, b)
  <2>1. PICK n \in Nat : n = Len(b) /\ n + 1 \in Nat
    BY LenProperties
  <2>2. b \in Shorter(n + 1)
    BY <2>1 DEF Shorter
  <2>3. H[b] = Reads(G(n + 1), b)
    BY <1>1, <1>2, <2>1, <2>2, Zenon DEF ReadsAll
  <2>4. ASSUME NEW c \in Shorter(n) PROVE G(n + 1)[c] = H[c]
    <3>1. PICK m \in Nat : m = Len(c) /\ m + 1 \in Nat /\ m + 1 <= n + 1 /\ c \in Seq(Octet)
      <4>1. c \in Seq(Octet) /\ Len(c) \in Nat /\ Len(c) < n
        BY LenProperties DEF Shorter
      <4>2. \A x \in Nat : x < n => x + 1 \in Nat /\ x + 1 <= n + 1
        OBVIOUS
      <4>3. Len(c) + 1 \in Nat /\ Len(c) + 1 <= n + 1
        BY <4>1, <4>2, Zenon
      <4> QED
        BY <4>1, <4>3, Zenon
    <3>2. c \in Shorter(m + 1)
      BY <3>1 DEF Shorter
    <3>3. G(m + 1)[c] = G(n + 1)[c]
      <4>1. SameReads(G(m + 1), G(n + 1), m + 1)
        BY <1>1, <2>1, <3>1, ReadsAgree, Zenon
      <4> QED
        BY <3>2, <4>1, Zenon DEF SameReads
    <3> QED
      BY <1>2, <3>1, <3>3, Zenon
  <2>5. SameReads(G(n + 1), H, n)
    BY <2>4, Zenon DEF SameReads
  <2>6. Reads(G(n + 1), b) = Reads(H, b)
    BY <2>2, <2>5, ReadsSame, Zenon
  <2> QED
    BY <2>3, <2>6, Zenon
<1>4. H = [b \in Seq(Octet) |-> Reads(H, b)]
  <2>1. H = [b \in Seq(Octet) |-> H[b]]
    BY DEF H
  <2> QED
    BY <1>3, <2>1, Zenon
<1>5. DecodeOptions = CHOOSE g : g = [b \in Seq(Octet) |-> Reads(g, b)]
  BY Zenon DEF DecodeOptions, Reads, Took, Then, Ended, Delta, Length, Beyond, Value, Others
<1>6. DecodeOptions = [b \in Seq(Octet) |-> Reads(DecodeOptions, b)]
  BY <1>4, <1>5, Zenon
<1> QED
  BY <1>6, Zenon

-----------------------------------------------------------------------------
(* Codec: what decode makes of what encode writes.                          *)

\* Bytes can be grouped either way.
LEMMA Regrouped ==
  ASSUME NEW a \in Seq(Octet), NEW b \in Seq(Octet), NEW c \in Seq(Octet)
  PROVE  IsRegrouped(a, b, c)
BY ConcatAssociative DEF IsRegrouped

\* The tail of a sequence is the part after its first element.
LEMMA TailIs ==
  ASSUME NEW S, NEW s \in Seq(S), s # <<>>, NEW n, n = Len(s)
  PROVE  n \in Nat /\ n >= 1 /\ Tail(s) \in Seq(S) /\ IsPart(Tail(s), s, 1, n - 1)
<1>1. n \in Nat /\ n >= 1
  BY LenProperties, EmptySeq
<1>2. /\ Tail(s) \in Seq(S) /\ Len(Tail(s)) = n - 1
      /\ \A i \in 1..Len(Tail(s)) : Tail(s)[i] = s[i + 1]
  BY HeadTailProperties
<1>3. \A i \in 1..(n - 1) : Tail(s)[i] = s[1 + i]
  <2>1. \A i \in 1..(n - 1) : i + 1 = 1 + i
    OBVIOUS
  <2> QED
    BY <1>2, <2>1, Zenon
<1> QED
  BY <1>1, <1>2, <1>3, Zenon DEF IsPart

\* s is the element o followed by t.
Prepends(s, o, t) == s # <<>> /\ s[1] = o /\ Tail(s) = t

\* Putting an element in front of a sequence gives that.
LEMMA Prepended ==
  ASSUME NEW S, NEW o \in S, NEW t \in Seq(S), NEW s, s = <<o>> \o t
  PROVE  s \in Seq(S) /\ Prepends(s, o, t)
<1>1. PICK g \in Seq(S) : g = <<o>> /\ Len(g) = 1 /\ g[1] = o
  <2>1. <<o>> \in Seq(S) /\ Len(<<o>>) = 1 /\ <<o>>[1] = o
    OBVIOUS
  <2> QED
    BY <2>1
<1>2. PICK m \in Nat : m = Len(t)
  BY LenProperties
<1>3. s \in Seq(S) /\ IsJoin(s, g, 1, t, m)
  BY <1>1, <1>2, Join, Zenon
<1>4. Len(s) = 1 + m /\ s[1] = o /\ \A i \in 1..m : s[1 + i] = t[i]
  BY <1>1, <1>3 DEF IsJoin
<1>5. s # <<>>
  BY <1>4, EmptySeq
<1>6. Tail(s) \in Seq(S) /\ Len(Tail(s)) = m /\ \A i \in 1..m : Tail(s)[i] = t[i]
  <2>1. Tail(s) \in Seq(S) /\ IsPart(Tail(s), s, 1, Len(s) - 1)
    BY <1>3, <1>5, TailIs, Zenon
  <2>2. Len(s) - 1 = m
    BY <1>4
  <2> QED
    BY <1>4, <2>1, <2>2, Zenon DEF IsPart
<1>7. Tail(s) = t
  BY <1>2, <1>6, SeqEqual
<1> QED
  BY <1>3, <1>4, <1>5, <1>7, Zenon DEF Prepends

\* A sequence is its first element followed by the others.
LEMMA FirstAndTail ==
  ASSUME NEW S, NEW s \in Seq(S), s # <<>>
  PROVE  s[1] \in S /\ Tail(s) \in Seq(S) /\ s = <<s[1]>> \o Tail(s)
<1>1. PICK n \in Nat : n = Len(s) /\ n >= 1
  BY LenProperties, EmptySeq
<1>2. s[1] \in S
  BY <1>1, ElementOfSeq
<1>3. PICK t \in Seq(S) : t = Tail(s) /\ IsPart(t, s, 1, n - 1)
  BY <1>1, TailIs, Zenon
<1>4. PICK g \in Seq(S) : g = <<s[1]>> /\ Len(g) = 1 /\ g[1] = s[1]
  <2>1. <<s[1]>> \in Seq(S) /\ Len(<<s[1]>>) = 1 /\ <<s[1]>>[1] = s[1]
    BY <1>2
  <2> QED
    BY <2>1
<1>5. PICK r : r = g \o t
  OBVIOUS
<1>6. r \in Seq(S) /\ IsJoin(r, g, 1, t, n - 1)
  BY <1>3, <1>4, <1>5, Join, Zenon DEF IsPart
<1>7. Len(r) = n /\ \A i \in 1..n : r[i] = s[i]
  <2>1. Len(r) = 1 + (n - 1) /\ r[1] = s[1] /\ \A i \in 1..(n - 1) : r[1 + i] = t[i]
    BY <1>4, <1>6 DEF IsJoin
  <2>2. ASSUME NEW i \in 1..n, i # 1 PROVE r[i] = s[i]
    <3>1. i - 1 \in 1..(n - 1) /\ 1 + (i - 1) = i
      BY <2>2
    <3> QED
      BY <1>3, <2>1, <3>1, Zenon DEF IsPart
  <2> QED
    BY <1>1, <2>1, <2>2
<1>8. r = s
  BY <1>1, <1>6, <1>7, SeqEqual
<1> QED
  BY <1>2, <1>3, <1>4, <1>5, <1>8, Zenon

\* The options os can be encoded after the number prev.
DeltaAt(os, prev, i) == os[i].number - (IF i = 1 THEN prev ELSE os[i - 1].number)
Fits(os, prev) ==
  /\ os \in Seq(Option) /\ prev \in Nat
  /\ \A i \in 1..Len(os) : DeltaAt(os, prev, i) \in Sizes /\ Len(os[i].value) \in Sizes

\* Without the first option, too.
LEMMA FitsTail ==
  ASSUME NEW os, NEW prev, Fits(os, prev), os # <<>>
  PROVE  /\ os[1].number - prev \in Sizes /\ Len(os[1].value) \in Sizes
         /\ Fits(Tail(os), os[1].number)
<1>1. os \in Seq(Option) /\ prev \in Nat
  BY DEF Fits
<1>2. PICK n \in Nat : n = Len(os) /\ n >= 1
  BY <1>1, LenProperties, EmptySeq
<1>3. PICK t \in Seq(Option) : /\ t = Tail(os) /\ Len(t) = n - 1
                              /\ \A i \in 1..(n - 1) : t[i] = os[1 + i]
  <2>1. Tail(os) \in Seq(Option) /\ IsPart(Tail(os), os, 1, n - 1)
    BY <1>1, <1>2, TailIs, Zenon
  <2> QED
    BY <2>1, Zenon DEF IsPart
<1>4. \A i \in 1..n : DeltaAt(os, prev, i) \in Sizes /\ Len(os[i].value) \in Sizes
  BY <1>2 DEF Fits
<1>5. os[1].number - prev \in Sizes /\ Len(os[1].value) \in Sizes
  <2>1. 1 \in 1..n
    BY <1>2
  <2>2. DeltaAt(os, prev, 1) = os[1].number - prev
    BY DEF DeltaAt
  <2> QED
    BY <1>4, <2>1, <2>2, Zenon
<1>6. ASSUME NEW i \in 1..(n - 1)
      PROVE  DeltaAt(t, os[1].number, i) \in Sizes /\ Len(t[i].value) \in Sizes
  <2>1. 1 + i \in 1..n /\ 1 + i # 1 /\ (1 + i) - 1 = i /\ (i = 1 \/ i - 1 \in 1..(n - 1))
        /\ 1 + (i - 1) = i
    BY <1>2
  <2>2. t[i] = os[1 + i] /\ (i # 1 => t[i - 1] = os[i])
    <3>1. i # 1 => t[i - 1] = os[1 + (i - 1)]
      BY <1>3, <2>1, Zenon
    <3> QED
      BY <1>3, <2>1, <3>1, Zenon
  <2>3. DeltaAt(t, os[1].number, i) = DeltaAt(os, prev, 1 + i)
    BY <2>1, <2>2, Zenon DEF DeltaAt
  <2> QED
    BY <1>4, <2>1, <2>2, <2>3, Zenon
<1>7. os[1].number \in Nat
  BY <1>1, <1>2, FirstOption, EmptySeq
<1>8. Fits(t, os[1].number)
  BY <1>3, <1>6, <1>7 DEF Fits
<1> QED
  BY <1>3, <1>5, <1>8, Zenon

\* With one more option in front, too.
LEMMA FitsCons ==
  ASSUME NEW o \in Option, NEW t, Fits(t, o.number), NEW prev \in Nat,
         o.number - prev \in Sizes, Len(o.value) \in Sizes, NEW os, os = <<o>> \o t
  PROVE  Fits(os, prev) /\ Prepends(os, o, t)
<1>1. t \in Seq(Option)
  BY DEF Fits
<1>2. os \in Seq(Option) /\ Prepends(os, o, t)
  BY <1>1, Prepended, Zenon
<1>3. os # <<>> /\ os[1] = o /\ Tail(os) = t
  BY <1>2, Zenon DEF Prepends
<1>4. PICK n \in Nat : n = Len(os) /\ n >= 1
  BY <1>2, <1>3, LenProperties, EmptySeq
<1>5. Len(t) = n - 1 /\ \A i \in 1..(n - 1) : t[i] = os[1 + i]
  <2>1. IsPart(Tail(os), os, 1, n - 1)
    BY <1>2, <1>3, <1>4, TailIs, Zenon
  <2> QED
    BY <1>3, <2>1, Zenon DEF IsPart
<1>6. ASSUME NEW i \in 1..n PROVE DeltaAt(os, prev, i) \in Sizes /\ Len(os[i].value) \in Sizes
  <2>1. CASE i = 1
    BY <1>3, <2>1 DEF DeltaAt
  <2>2. CASE i # 1
    <3>1. PICK j \in 1..(n - 1) : i = 1 + j /\ i - 1 = j /\ (j = 1 \/ j - 1 \in 1..(n - 1))
                                  /\ 1 + (j - 1) = j
      <4>1. /\ i - 1 \in 1..(n - 1) /\ i = 1 + (i - 1)
            /\ (i - 1 = 1 \/ (i - 1) - 1 \in 1..(n - 1)) /\ 1 + ((i - 1) - 1) = i - 1
        BY <2>2
      <4> QED
        BY <4>1, Zenon
    <3>2. t[j] = os[i] /\ (j # 1 => t[j - 1] = os[j])
      <4>1. j # 1 => t[j - 1] = os[1 + (j - 1)]
        BY <1>5, <3>1, Zenon
      <4> QED
        BY <1>5, <3>1, <4>1, Zenon
    <3>3. DeltaAt(t, o.number, j) = DeltaAt(os, prev, i)
      BY <1>3, <2>2, <3>1, <3>2, Zenon DEF DeltaAt
    <3>4. DeltaAt(t, o.number, j) \in Sizes /\ Len(t[j].value) \in Sizes
      BY <1>5 DEF Fits
    <3> QED
      BY <3>2, <3>3, <3>4, Zenon
  <2> QED
    BY <2>1, <2>2
<1> QED
  BY <1>2, <1>4, <1>6 DEF Fits

\* An option is bytes.
LEMMA OptionBytes ==
  ASSUME NEW delta \in Sizes, NEW value \in Seq(Octet), Len(value) \in Sizes
  PROVE  EncodeOption(delta, value) \in Seq(Octet)
<1>1. PICK e \in Seq(Octet) : e = Extension(delta) /\ nibble(delta) \in 0..14
  BY FormOf, FormIs, Zenon
<1>2. PICK f \in Seq(Octet) : f = Extension(Len(value)) /\ nibble(Len(value)) \in 0..14
  BY FormOf, FormIs, Zenon
<1>3. PICK h \in Octet : h = nibble(delta) * 16 + nibble(Len(value))
  BY <1>1, <1>2, Nibbles, Zenon
<1>4. PICK g \in Seq(Octet) : g = <<h>>
  <2>1. <<h>> \in Seq(Octet)
    OBVIOUS
  <2> QED
    BY <2>1
<1>5. g \o e \in Seq(Octet)
  BY ConcatProperties
<1>6. (g \o e) \o f \in Seq(Octet)
  BY <1>5, ConcatProperties, Zenon
<1>7. ((g \o e) \o f) \o value \in Seq(Octet)
  BY <1>6, ConcatProperties, Zenon
<1> QED
  BY <1>1, <1>2, <1>3, <1>4, <1>7, Zenon DEF EncodeOption

\* What decode returns.
Result(os, p, off) == [ok |-> TRUE, options |-> os, payload |-> p, ranOff |-> off]

\* decode reads back the options that encode wrote, whatever ends them.
ReadsBack(os, prev) ==
  /\ EncodeOptions[os][prev] \in Seq(Octet)
  /\ \A u \in Seq(Octet) :
       Stops(u) => DecodeOptions[EncodeOptions[os][prev] \o u][prev]
                     = Result(os, SubSeq(u, 2, Len(u)), FALSE)

\* With no options there is nothing but the end.
LEMMA NoneBack ==
  ASSUME NEW prev \in Nat
  PROVE  ReadsBack(<<>>, prev)
<1>1. <<>> \in Seq(Option) /\ <<>> \in Seq(Octet)
  BY EmptySeq
<1>2. EncodeOptions[<<>>][prev] = <<>>
  BY <1>1, EncodeTurns DEF Wrote
<1>3. ASSUME NEW u \in Seq(Octet), Stops(u)
      PROVE  DecodeOptions[<<>> \o u][prev] = Result(<<>>, SubSeq(u, 2, Len(u)), FALSE)
  <2>1. <<>> \o u = u
    BY ConcatEmptySeq
  <2>2. DecodeOptions[u][prev] = Ended(u)
    <3>1. prev \in Int
      OBVIOUS
    <3>2. DecodeOptions[u][prev] = Reads(DecodeOptions, u)[prev]
      BY DecodeTurns
    <3> QED
      BY <1>3, <3>1, <3>2 DEF Reads, Stops
  <2> QED
    BY <2>1, <2>2 DEF Ended, Result
<1> QED
  BY <1>1, <1>2, <1>3 DEF ReadsBack

\* One turn of encode.
LEMMA EncodeTurn ==
  ASSUME NEW os \in Seq(Option), os # <<>>, NEW prev \in Nat
  PROVE  EncodeOptions[os][prev]
           = EncodeOption(os[1].number - prev, os[1].value) \o EncodeOptions[Tail(os)][os[1].number]
<1>1. EncodeOptions[os][prev] = Wrote(EncodeOptions, os)[prev]
  BY EncodeTurns
<1> QED
  BY <1>1 DEF Wrote

\* One turn of decode that goes on.
LEMMA DecodeTurn ==
  ASSUME NEW s \in Seq(Octet), ~Stops(s), NEW prev \in Int
  PROVE  DecodeOptions[s][prev]
           = Took(s, Plus(prev, Delta(s).v), Then(DecodeOptions, s, Plus(prev, Delta(s).v)))
<1>1. DecodeOptions[s][prev] = Reads(DecodeOptions, s)[prev]
  BY DecodeTurns
<1> QED
  BY <1>1 DEF Reads, Stops

\* An option and what follows it are read back.
LEMMA OneBack ==
  ASSUME NEW os, NEW prev, Fits(os, prev), os # <<>>, ReadsBack(Tail(os), os[1].number)
  PROVE  ReadsBack(os, prev)
<1>1. os \in Seq(Option) /\ prev \in Nat
  BY DEF Fits
<1>2. PICK o \in Option, t \in Seq(Option) : o = os[1] /\ t = Tail(os) /\ os = <<o>> \o t
  BY <1>1, FirstAndTail
<1>3. PICK delta : delta = o.number - prev
  OBVIOUS
<1>4. /\ delta \in Sizes /\ Len(o.value) \in Sizes /\ o.value \in Seq(Octet) /\ o.number \in Nat
      /\ o = [number |-> o.number, value |-> o.value]
  BY <1>2, <1>3, FitsTail DEF Option
<1>5. PICK x \in Seq(Octet) : x = EncodeOption(delta, o.value)
  BY <1>4, OptionBytes, Zenon
<1>6. PICK y \in Seq(Octet) : y = EncodeOptions[t][o.number]
  BY <1>2, Zenon DEF ReadsBack
<1>7. EncodeOptions[os][prev] = x \o y
  BY <1>1, <1>2, <1>3, <1>5, <1>6, EncodeTurn, Zenon
<1>8. x \o y \in Seq(Octet)
  BY ConcatProperties
<1>9. ASSUME NEW u \in Seq(Octet), Stops(u)
      PROVE  DecodeOptions[(x \o y) \o u][prev] = Result(os, SubSeq(u, 2, Len(u)), FALSE)
  <2>1. PICK z \in Seq(Octet) : z = y \o u
    BY ConcatProperties
  <2>2. PICK s \in Seq(Octet) : s = x \o z
    BY ConcatProperties
  <2>3. (x \o y) \o u = s
    <3>1. IsRegrouped(x, y, u)
      BY Regrouped, Zenon
    <3> QED
      BY <2>1, <2>2, <3>1 DEF IsRegrouped
  <2>4. IsOption(s, delta, o.value, z)
    BY <1>4, <1>5, <2>2, Zenon DEF IsOption
  <2>5. ReadsOption(s, delta, o.value, z)
    BY <2>4, OptionRead, Zenon
  <2>6. /\ ~Stops(s) /\ ~Fails(s) /\ Beyond(s) # NaN
        /\ Delta(s).v = delta /\ Value(s) = o.value /\ Others(s) = z
    BY <2>5, Zenon DEF ReadsOption
  <2>7. Plus(prev, delta) = o.number
    <3>1. delta \in Nat /\ prev + delta = o.number
      BY <1>1, <1>3, <1>4 DEF Sizes
    <3> QED
      BY <1>1, <3>1, NotNaN, Zenon
  <2>8. PICK r : r = DecodeOptions[z][o.number] /\ r = Result(t, SubSeq(u, 2, Len(u)), FALSE)
    BY <1>2, <1>6, <1>9, <2>1, Zenon DEF ReadsBack
  <2>9. prev \in Int
    BY <1>1
  <2>10. DecodeOptions[s][prev] = Took(s, o.number, r)
    BY <2>6, <2>7, <2>8, <2>9, DecodeTurn, Zenon DEF Then
  <2>11. r.ok /\ r.options = t /\ r.payload = SubSeq(u, 2, Len(u)) /\ r.ranOff = FALSE
    BY <2>8 DEF Result
  <2>12. Took(s, o.number, r)
           = [ok |-> TRUE, options |-> <<[number |-> o.number, value |-> o.value]>> \o t,
              payload |-> SubSeq(u, 2, Len(u)), ranOff |-> FALSE]
    BY <2>6, <2>11, Zenon DEF Took, Fails
  <2> QED
    BY <1>2, <1>4, <2>3, <2>10, <2>12, Zenon DEF Result
<1> QED
  BY <1>7, <1>8, <1>9, Zenon DEF ReadsBack

\* decode reads back whatever options encode wrote.
LEMMA AllBack ==
  ASSUME NEW os, NEW prev, Fits(os, prev)
  PROVE  ReadsBack(os, prev)
<1> DEFINE T == {n \in Nat : \A o \in Fewer(n), k \in Nat : Fits(o, k) => ReadsBack(o, k)}
<1>1. 0 \in T
  <2>1. ASSUME NEW o \in Fewer(0) PROVE FALSE
    BY LenProperties DEF Fewer
  <2> QED
    BY <2>1
<1>2. ASSUME NEW n \in Nat, n \in T PROVE n + 1 \in T
  <2>1. \A o \in Fewer(n), k \in Nat : Fits(o, k) => ReadsBack(o, k)
    BY <1>2
  <2>2. ASSUME NEW o \in Fewer(n + 1), NEW k \in Nat, Fits(o, k) PROVE ReadsBack(o, k)
    <3>1. CASE o = <<>>
      BY <3>1, NoneBack
    <3>2. CASE o # <<>>
      <4>1. o \in Seq(Option) /\ Len(o) < n + 1 /\ Len(o) \in Nat
        BY LenProperties DEF Fewer
      <4>2. /\ o[1].number \in Nat /\ Tail(o) \in Seq(Option)
            /\ Len(Tail(o)) \in Nat /\ Len(Tail(o)) < Len(o)
        BY <3>2, <4>1, FirstOption, Zenon
      <4>3. Len(Tail(o)) < n
        BY <4>1, <4>2
      <4>4. Tail(o) \in Fewer(n)
        BY <4>2, <4>3 DEF Fewer
      <4>5. ReadsBack(Tail(o), o[1].number)
        BY <2>1, <2>2, <3>2, <4>2, <4>4, FitsTail, Zenon
      <4> QED
        BY <2>2, <3>2, <4>5, OneBack, Zenon
    <3> QED
      BY <3>1, <3>2
  <2>3. n + 1 \in Nat
    OBVIOUS
  <2> QED
    BY <2>2, <2>3
<1> HIDE DEF T
<1>3. \A n \in Nat : n \in T
  BY <1>1, <1>2, Induction, Zenon
<1>4. os \in Seq(Option) /\ prev \in Nat /\ Len(os) \in Nat
  BY LenProperties DEF Fits
<1>5. Len(os) + 1 \in Nat /\ Len(os) < Len(os) + 1
  BY <1>4
<1>6. os \in Fewer(Len(os) + 1)
  BY <1>4, <1>5 DEF Fewer
<1>7. Len(os) + 1 \in T
  BY <1>3, <1>5, Zenon
<1> QED
  BY <1>4, <1>6, <1>7 DEF T

-----------------------------------------------------------------------------
(* Codec: what encode makes of what decode accepts.                         *)

\* The payload behind its marker.
Trail(p) == IF p = <<>> THEN <<>> ELSE <<Marker>> \o p

\* s is what encode writes for os and p, or a bare marker stands for the empty payload.
Exact(s, prev, os, p) ==
  /\ Fits(os, prev) /\ p \in Seq(Octet)
  /\ \/ s = EncodeOptions[os][prev] \o Trail(p)
     \/ p = <<>> /\ s = EncodeOptions[os][prev] \o <<Marker>>

\* An option as decode returns it: its number may be NaN.
ReadOption == [number : Int, value : Seq(Octet)]

\* s is what encode writes for all of os but the last, which is empty, and a part of
\* an option.
IsCut(u) == u \in Seq(Octet) /\ Len(u) \in 1..3 /\ u[1] % 16 = 13
TruncatedRead(s, prev, os, p) ==
  /\ p = <<>>
  /\ \E front, u, o :
       /\ o \in ReadOption /\ Fits(front, prev) /\ os = front \o <<o>> /\ o.value = <<>>
       /\ IsCut(u) /\ s = EncodeOptions[front][prev] \o u

\* What decode returns is one of these, or it throws.
Explained(s, prev, r) ==
  \/ r = Throws
  \/ \E os, p : r = Result(os, p, FALSE) /\ Exact(s, prev, os, p)
  \/ \E os, p : r = Result(os, p, TRUE) /\ TruncatedRead(s, prev, os, p)

\* Nothing fits, and is written as nothing.
LEMMA NoneFits ==
  ASSUME NEW prev \in Nat
  PROVE  /\ Fits(<<>>, prev) /\ EncodeOptions[<<>>][prev] = <<>>
         /\ \A u \in Seq(Octet) : EncodeOptions[<<>>][prev] \o u = u
<1>1. <<>> \in Seq(Option) /\ Len(<<>>) = 0
  BY EmptySeq
<1>2. Fits(<<>>, prev)
  <2>1. \A i \in 1..Len(<<>>) : FALSE
    BY <1>1
  <2> QED
    BY <1>1, <2>1 DEF Fits
<1>3. EncodeOptions[<<>>][prev] = <<>>
  BY <1>1, EncodeTurns DEF Wrote
<1>4. \A u \in Seq(Octet) : <<>> \o u = u
  BY ConcatEmptySeq
<1> QED
  BY <1>2, <1>3, <1>4

\* An option in front, and what follows.
IsOneMore(o, t, prev) ==
  /\ Fits(<<o>> \o t, prev)
  /\ \A u \in Seq(Octet) :
       EncodeOption(o.number - prev, o.value) \o (EncodeOptions[t][o.number] \o u)
         = EncodeOptions[<<o>> \o t][prev] \o u

\* Putting it there keeps that they fit.
LEMMA OneMore ==
  ASSUME NEW o \in Option, NEW t, Fits(t, o.number), NEW prev \in Nat,
         o.number - prev \in Sizes, Len(o.value) \in Sizes
  PROVE  IsOneMore(o, t, prev)
<1>1. PICK os : os = <<o>> \o t
  OBVIOUS
<1>2. Fits(os, prev) /\ Prepends(os, o, t)
  BY <1>1, FitsCons, Zenon
<1>3. os # <<>> /\ os[1] = o /\ Tail(os) = t /\ os \in Seq(Option)
  BY <1>2, Zenon DEF Prepends, Fits
<1>4. PICK x \in Seq(Octet) : x = EncodeOption(o.number - prev, o.value)
  <2>1. o.value \in Seq(Octet)
    BY DEF Option
  <2> QED
    BY <2>1, OptionBytes, Zenon
<1>5. PICK y \in Seq(Octet) : y = EncodeOptions[t][o.number]
  BY AllBack, Zenon DEF ReadsBack
<1>6. EncodeOptions[os][prev] = x \o y
  BY <1>3, <1>4, <1>5, EncodeTurn, Zenon
<1>7. ASSUME NEW u \in Seq(Octet) PROVE x \o (y \o u) = (x \o y) \o u
  <2>1. IsRegrouped(x, y, u)
    BY Regrouped, Zenon
  <2> QED
    BY <2>1, Zenon DEF IsRegrouped
<1>8. \A u \in Seq(Octet) : x \o (y \o u) = EncodeOptions[os][prev] \o u
  BY <1>6, <1>7, Zenon
<1> QED
  BY <1>1, <1>2, <1>4, <1>5, <1>8, Zenon DEF IsOneMore

\* The tail, as decode cuts it off.
LEMMA TailIsRest ==
  ASSUME NEW s \in Seq(Octet), s # <<>>
  PROVE  SubSeq(s, 2, Len(s)) = Tail(s)
<1>1. PICK n \in Nat : n = Len(s) /\ n >= 1
  BY LenProperties, EmptySeq
<1>2. Tail(s) \in Seq(Octet) /\ IsPart(Tail(s), s, 1, n - 1)
  BY <1>1, TailIs, Zenon
<1>3. 1 \in Nat /\ n - 1 \in Nat /\ n = 1 + (n - 1) /\ 1 + 1 = 2
  BY <1>1
<1>4. PICK p : p = SubSeq(s, 1 + 1, Len(s))
  OBVIOUS
<1>5. p \in Seq(Octet) /\ IsPart(p, s, 1, n - 1)
  BY <1>1, <1>3, <1>4, RestOf, Zenon
<1>6. p = Tail(s)
  BY <1>2, <1>3, <1>5, OnePart, Zenon
<1> QED
  BY <1>3, <1>4, <1>6, Zenon

\* The loop ends: there is a payload, or a bare marker, or nothing.
LEMMA EndExplained ==
  ASSUME NEW s \in Seq(Octet), Stops(s), NEW prev \in Nat
  PROVE  Explained(s, prev, Ended(s))
<1>1. PICK p : p = SubSeq(s, 2, Len(s))
  OBVIOUS
<1>2. Ended(s) = Result(<<>>, p, FALSE)
  BY <1>1, Zenon DEF Ended, Result
<1>3. CASE s = <<>>
  <2>1. p = <<>>
    <3>1. Len(<<>>) = 0 /\ SubSeq(<<>>, 2, 0) = <<>>
      OBVIOUS
    <3> QED
      BY <1>1, <1>3, <3>1, Zenon
  <2>2. s = EncodeOptions[<<>>][prev] \o Trail(p)
    BY <1>3, <2>1, NoneFits, Zenon DEF Trail
  <2>3. Exact(s, prev, <<>>, p)
    BY <1>3, <2>1, <2>2, NoneFits, Zenon DEF Exact
  <2> QED
    BY <1>2, <2>3, Zenon DEF Explained
<1>4. CASE s # <<>>
  <2>1. s[1] = Marker
    BY <1>4 DEF Stops
  <2>2. s[1] \in Octet /\ Tail(s) \in Seq(Octet) /\ s = <<Marker>> \o Tail(s)
    BY <1>4, <2>1, FirstAndTail, Zenon
  <2>3. p = Tail(s)
    BY <1>1, <1>4, TailIsRest, Zenon
  <2>4. /\ s = EncodeOptions[<<>>][prev] \o (<<Marker>> \o p) /\ p \in Seq(Octet)
        /\ Fits(<<>>, prev)
    BY <2>2, <2>3, NoneFits, Zenon
  <2>5. CASE p # <<>>
    BY <1>2, <2>4, <2>5, Zenon DEF Explained, Exact, Trail
  <2>6. CASE p = <<>>
    <3>1. <<Marker>> \o p = <<Marker>>
      <4>1. <<Marker>> \in Seq(Octet)
        BY <2>1, <2>2
      <4> QED
        BY <2>6, <4>1, ConcatEmptySeq
    <3> QED
      BY <1>2, <2>4, <2>6, <3>1, Zenon DEF Explained, Exact
  <2> QED
    BY <2>5, <2>6
<1> QED
  BY <1>3, <1>4

\* The position is NaN: the rest of the bytes is a part of an option.
LEMMA CutExplained ==
  ASSUME NEW s \in Seq(Octet), GoesOn(s), Beyond(s) = NaN, NEW prev \in Nat
  PROVE  Explained(s, prev, Took(s, Plus(prev, Delta(s).v), RanOff))
<1>1. Len(s) \in 1..3 /\ Value(s) = <<>> /\ s[1] % 16 = 13
  BY TurnRunsOff
<1>2. PICK number \in Int : number = Plus(prev, Delta(s).v)
  <2>1. CASE Delta(s).v = NaN
    BY <2>1 DEF Plus, NaN
  <2>2. CASE Delta(s).v # NaN
    <3>1. Delta(s).v \in Sizes
      <4>1. \E a \in Nat : ReadAt(s, Len(s), a)
        BY <2>2, DeltaRead, Zenon
      <4> QED
        BY <4>1, FormIs, Zenon DEF ReadAt
    <3>2. PICK d \in Nat : d = Delta(s).v
      BY <3>1 DEF Sizes
    <3>3. Plus(prev, d) = prev + d
      BY NotNaN, Zenon
    <3>4. prev + d \in Int
      OBVIOUS
    <3> QED
      BY <3>2, <3>3, <3>4, Zenon
  <2> QED
    BY <2>1, <2>2
<1>3. PICK o \in ReadOption : o = [number |-> number, value |-> <<>>]
  <2>1. [number |-> number, value |-> <<>>] \in ReadOption
    BY EmptySeq DEF ReadOption
  <2> QED
    BY <2>1
<1>4. <<o>> \o <<>> = <<o>> /\ <<>> \o <<o>> = <<o>> /\ o.value = <<>>
  <2>1. <<o>> \in Seq(ReadOption)
    OBVIOUS
  <2> QED
    BY <1>3, <2>1, ConcatEmptySeq
<1>5. Took(s, number, RanOff)
        = [ok |-> TRUE, options |-> <<o>> \o <<>>, payload |-> <<>>, ranOff |-> TRUE]
  <2>1. /\ RanOff.ok /\ RanOff.options = <<>> /\ RanOff.payload = <<>> /\ RanOff.ranOff = TRUE
    BY DEF RanOff
  <2>2. ~Fails(s)
    BY DEF GoesOn
  <2> QED
    BY <1>1, <1>3, <2>1, <2>2, Zenon DEF Took, Fails
<1>6. Took(s, number, RanOff) = Result(<<>> \o <<o>>, <<>>, TRUE)
  BY <1>4, <1>5, Zenon DEF Result
<1>7. TruncatedRead(s, prev, <<>> \o <<o>>, <<>>)
  <2>1. IsCut(s)
    BY <1>1 DEF IsCut
  <2>2. Fits(<<>>, prev) /\ s = EncodeOptions[<<>>][prev] \o s
    BY NoneFits, Zenon
  <2> QED
    BY <1>4, <2>1, <2>2, Zenon DEF TruncatedRead
<1> QED
  BY <1>2, <1>6, <1>7, Zenon DEF Explained

\* An option is read, and what follows is explained.
LEMMA TurnExplained ==
  ASSUME NEW s \in Seq(Octet), GoesOn(s), Beyond(s) # NaN, NEW prev \in Nat, NEW r,
         NEW number, number = Plus(prev, Delta(s).v),
         number \in Nat => Explained(Others(s), number, r)
  PROVE  number \in Nat /\ Explained(s, prev, Took(s, number, r))
<1>1. PICK delta, v, t : delta = Delta(s).v /\ v = Value(s) /\ t = Others(s)
  OBVIOUS
<1>2. /\ delta \in Sizes /\ Len(v) \in Sizes /\ v \in Seq(Octet) /\ t \in Seq(Octet)
      /\ s = EncodeOption(delta, v) \o t
  BY <1>1, TurnReads, Zenon DEF IsOption
<1>3. number \in Nat /\ number - prev = delta
  <2>1. delta \in Nat
    BY <1>2 DEF Sizes
  <2>2. number = prev + delta
    BY <1>1, <2>1, NotNaN, Zenon
  <2> QED
    BY <2>1, <2>2
<1>4. PICK o \in Option : o = [number |-> number, value |-> v]
  <2>1. [number |-> number, value |-> v] \in Option
    BY <1>2, <1>3 DEF Option
  <2> QED
    BY <2>1
<1>5. o.number = number /\ o.value = v
  BY <1>4
<1>6. ASSUME NEW front, Fits(front, number) PROVE IsOneMore(o, front, prev)
  BY <1>2, <1>3, <1>5, <1>6, OneMore, Zenon
<1>7. ~Fails(s)
  BY DEF GoesOn
<1>8. CASE r = Throws
  <2>1. ~r.ok
    BY <1>8 DEF Throws
  <2>2. Took(s, number, r) = Throws
    BY <2>1, Zenon DEF Took
  <2> QED
    BY <1>3, <2>2, Zenon DEF Explained
<1>9. ASSUME NEW os, NEW p, NEW off, r = Result(os, p, off)
      PROVE  Took(s, number, r) = Result(<<o>> \o os, p, off)
  <2>1. r.ok /\ r.options = os /\ r.payload = p /\ r.ranOff = off
    BY <1>9 DEF Result
  <2> QED
    BY <1>1, <1>4, <1>7, <2>1, Zenon DEF Took, Fails, Result
<1>10. ASSUME NEW os, NEW p, r = Result(os, p, FALSE), Exact(t, number, os, p)
       PROVE  Explained(s, prev, Took(s, number, r))
  <2>1. Fits(os, number) /\ p \in Seq(Octet)
    BY <1>10, Zenon DEF Exact
  <2>2. IsOneMore(o, os, prev)
    BY <1>6, <2>1, Zenon
  <2>3. ASSUME NEW u \in Seq(Octet), t = EncodeOptions[os][number] \o u
        PROVE  s = EncodeOptions[<<o>> \o os][prev] \o u
    BY <1>2, <1>3, <1>5, <2>2, <2>3, Zenon DEF IsOneMore
  <2>4. Trail(p) \in Seq(Octet) /\ <<Marker>> \in Seq(Octet)
    <3>1. Marker \in Octet
      BY OctetIs DEF Marker
    <3>2. <<Marker>> \in Seq(Octet)
      BY <3>1
    <3>3. <<>> \in Seq(Octet) /\ <<Marker>> \o p \in Seq(Octet)
      BY <2>1, <3>2, ConcatProperties, EmptySeq
    <3> QED
      BY <3>2, <3>3, Zenon DEF Trail
  <2>5. Exact(s, prev, <<o>> \o os, p)
    <3>1. \/ t = EncodeOptions[os][number] \o Trail(p)
          \/ p = <<>> /\ t = EncodeOptions[os][number] \o <<Marker>>
      BY <1>10, Zenon DEF Exact
    <3>2. Fits(<<o>> \o os, prev)
      BY <2>2, Zenon DEF IsOneMore
    <3> QED
      BY <2>1, <2>3, <2>4, <3>1, <3>2, Zenon DEF Exact
  <2> QED
    BY <1>9, <1>10, <2>5, Zenon DEF Explained
<1>11. ASSUME NEW os, NEW p, r = Result(os, p, TRUE), TruncatedRead(t, number, os, p)
       PROVE  Explained(s, prev, Took(s, number, r))
  <2>1. PICK front, u, last :
          /\ last \in ReadOption /\ last.value = <<>>
          /\ Fits(front, number) /\ os = front \o <<last>>
          /\ IsCut(u) /\ t = EncodeOptions[front][number] \o u /\ p = <<>>
    BY <1>11, Zenon DEF TruncatedRead
  <2>2. IsOneMore(o, front, prev)
    BY <1>6, <2>1, Zenon
  <2>3. u \in Seq(Octet)
    BY <2>1 DEF IsCut
  <2>4. s = EncodeOptions[<<o>> \o front][prev] \o u /\ Fits(<<o>> \o front, prev)
    BY <1>2, <1>3, <1>5, <2>1, <2>2, <2>3, Zenon DEF IsOneMore
  <2>5. <<o>> \o os = (<<o>> \o front) \o <<last>>
    <3>1. Option \subseteq ReadOption
      BY DEF Option, ReadOption
    <3>2. front \in Seq(Option)
      BY <2>1 DEF Fits
    <3>3. front \in Seq(ReadOption)
      BY <3>1, <3>2, SeqMonotonic
    <3>4. <<o>> \in Seq(ReadOption) /\ <<last>> \in Seq(ReadOption)
      BY <2>1, <3>1
    <3>5. (<<o>> \o front) \o <<last>> = <<o>> \o (front \o <<last>>)
      BY <3>3, <3>4, ConcatAssociative
    <3> QED
      BY <2>1, <3>5
  <2>6. TruncatedRead(s, prev, <<o>> \o os, p)
    BY <2>1, <2>4, <2>5, Zenon DEF TruncatedRead
  <2> QED
    BY <1>9, <1>11, <2>6, Zenon DEF Explained
<1> QED
  BY <1>1, <1>3, <1>8, <1>10, <1>11, Zenon DEF Explained

\* One turn of decode is explained, when what it goes on with is.
LEMMA StepExplained ==
  ASSUME NEW s \in Seq(Octet), NEW prev \in Nat,
         Beyond(s) # NaN /\ GoesOn(s)
           => \A k \in Nat : Explained(Others(s), k, DecodeOptions[Others(s)][k])
  PROVE  Explained(s, prev, DecodeOptions[s][prev])
<1>1. prev \in Int
  OBVIOUS
<1>2. CASE Stops(s)
  <2>1. DecodeOptions[s][prev] = Ended(s)
    <3>1. DecodeOptions[s][prev] = Reads(DecodeOptions, s)[prev]
      BY DecodeTurns
    <3> QED
      BY <1>1, <1>2, <3>1 DEF Reads, Stops
  <2> QED
    BY <1>2, <2>1, EndExplained, Zenon
<1>3. CASE ~Stops(s)
  <2>1. PICK number : number = Plus(prev, Delta(s).v)
    OBVIOUS
  <2>2. DecodeOptions[s][prev] = Took(s, number, Then(DecodeOptions, s, number))
    BY <1>1, <1>3, <2>1, DecodeTurn, Zenon
  <2>3. CASE Fails(s)
    <3>1. DecodeOptions[s][prev] = Throws
      BY <2>2, <2>3, Zenon DEF Took, Fails
    <3> QED
      BY <3>1, Zenon DEF Explained
  <2>4. CASE GoesOn(s) /\ Beyond(s) = NaN
    BY <2>1, <2>2, <2>4, CutExplained, Zenon DEF Then
  <2>5. CASE GoesOn(s) /\ Beyond(s) # NaN
    <3>1. Then(DecodeOptions, s, number) = DecodeOptions[Others(s)][number]
      BY <2>5, Zenon DEF Then
    <3>2. number \in Nat => Explained(Others(s), number, DecodeOptions[Others(s)][number])
      BY <2>5, Zenon
    <3> QED
      BY <2>1, <2>2, <2>5, <3>1, <3>2, TurnExplained, Zenon
  <2> QED
    BY <1>3, <2>3, <2>4, <2>5, Zenon DEF GoesOn
<1> QED
  BY <1>2, <1>3

\* Whatever decode reads is explained.
LEMMA AllExplained ==
  ASSUME NEW s \in Seq(Octet), NEW prev \in Nat
  PROVE  Explained(s, prev, DecodeOptions[s][prev])
<1> DEFINE T == {n \in Nat : \A u \in Shorter(n), k \in Nat : Explained(u, k, DecodeOptions[u][k])}
<1>1. 0 \in T
  <2>1. ASSUME NEW u \in Shorter(0) PROVE FALSE
    BY LenProperties DEF Shorter
  <2> QED
    BY <2>1
<1>2. ASSUME NEW n \in Nat, n \in T PROVE n + 1 \in T
  <2>1. \A u \in Shorter(n), k \in Nat : Explained(u, k, DecodeOptions[u][k])
    BY <1>2
  <2>2. ASSUME NEW u \in Shorter(n + 1), NEW k \in Nat PROVE Explained(u, k, DecodeOptions[u][k])
    <3>1. u \in Seq(Octet) /\ Len(u) < n + 1 /\ Len(u) \in Nat
      BY LenProperties DEF Shorter
    <3>2. ASSUME Beyond(u) # NaN, GoesOn(u)
          PROVE  \A j \in Nat : Explained(Others(u), j, DecodeOptions[Others(u)][j])
      <4>1. Others(u) \in Seq(Octet) /\ Len(Others(u)) \in Nat /\ Len(Others(u)) < Len(u)
        BY <3>1, <3>2, TurnReads, Zenon DEF IsOption
      <4>2. Len(Others(u)) < n
        BY <3>1, <4>1
      <4>3. Others(u) \in Shorter(n)
        BY <4>1, <4>2 DEF Shorter
      <4> QED
        BY <2>1, <4>3, Zenon
    <3> QED
      BY <3>1, <3>2, StepExplained, Zenon
  <2>3. n + 1 \in Nat
    OBVIOUS
  <2> QED
    BY <2>2, <2>3
<1> HIDE DEF T
<1>3. \A n \in Nat : n \in T
  BY <1>1, <1>2, Induction, Zenon
<1>4. Len(s) + 1 \in Nat /\ Len(s) < Len(s) + 1
  BY LenProperties
<1>5. s \in Shorter(Len(s) + 1)
  BY <1>4 DEF Shorter
<1>6. Len(s) + 1 \in T
  BY <1>3, <1>4, Zenon
<1> QED
  BY <1>5, <1>6 DEF T

-----------------------------------------------------------------------------
(* Codec: the stable sort of the options.                                   *)

\* p puts the first k options of os in order.
Puts(os, k, p) ==
  p \in [1..k -> 1..k] /\ \A i, j \in 1..k : i < j => Before(os, p[i], p[j])

\* The options of os have numbers.
Numbered(os, n) == \A i \in 1..n : os[i].number \in Nat

\* A set of naturals has a least element.
LEMMA Least ==
  ASSUME NEW U, U \subseteq Nat, NEW u \in U
  PROVE  \E m \in U : \A x \in U : m <= x
<1> DEFINE R == OpToRel(<, Nat)
<1>1. IsWellFoundedOn(R, Nat)
  BY NatLessThanWellFounded
<1>2. \A x, y \in Nat : x < y => <<x, y>> \in R
  BY DEF OpToRel
<1> HIDE DEF R
<1>3. PICK m \in U : \A y \in U : ~(<<y, m>> \in R)
  BY <1>1, WFMin, Zenon
<1>4. ASSUME NEW x \in U PROVE m <= x
  <2>1. x \in Nat /\ m \in Nat /\ ~(x < m)
    BY <1>2, <1>3, Zenon
  <2> QED
    BY <2>1
<1> QED
  BY <1>4

\* One option comes before another by its number, or by its place.
LEMMA BeforeNumbers ==
  ASSUME NEW os, NEW a \in Nat, NEW b \in Nat, os[a].number \in Nat, os[b].number \in Nat
  PROVE  /\ Before(os, a, b) => os[a].number <= os[b].number /\ a # b
         /\ os[a].number <= os[b].number /\ a < b => Before(os, a, b)
         /\ os[a].number < os[b].number => Before(os, a, b)
         /\ Before(os, a, b) /\ os[a].number = os[b].number => a < b
BY DEF Before

\* The place of one option more.
IsPlace(os, k, p, c) ==
  /\ c \in 1..(k + 1)
  /\ \A i \in 1..k : IF i < c THEN os[p[i]].number <= os[k + 1].number
                     ELSE os[k + 1].number < os[p[i]].number

\* There is one.
LEMMA HasPlace ==
  ASSUME NEW os, NEW k \in Nat, NEW p, Puts(os, k, p), Numbered(os, k + 1)
  PROVE  \E c : IsPlace(os, k, p, c)
<1> DEFINE U == {i \in 1..(k + 1) : i = k + 1 \/ os[k + 1].number < os[p[i]].number}
<1>1. k + 1 \in U /\ U \subseteq Nat
  OBVIOUS
<1>2. PICK c \in U : \A x \in U : c <= x
  BY <1>1, Least
<1>3. /\ p \in [1..k -> 1..k] /\ \A i, j \in 1..k : i < j => Before(os, p[i], p[j])
  BY DEF Puts
<1>4. os[k + 1].number \in Nat /\ \A i \in 1..k : p[i] \in Nat /\ os[p[i]].number \in Nat
  <2>1. k + 1 \in 1..(k + 1) /\ \A i \in 1..k : i \in 1..(k + 1) /\ i \in Nat
    OBVIOUS
  <2>2. \A i \in 1..k : p[i] \in 1..k
    BY <1>3
  <2> QED
    BY <2>1, <2>2, Zenon DEF Numbered
<1>5. ASSUME NEW i \in 1..k, i < c PROVE os[p[i]].number <= os[k + 1].number
  <2>1. i \notin U
    BY <1>2, <1>5
  <2>2. ~(os[k + 1].number < os[p[i]].number)
    BY <2>1
  <2> QED
    BY <1>4, <2>2
<1>6. ASSUME NEW i \in 1..k, ~(i < c) PROVE os[k + 1].number < os[p[i]].number
  <2>1. c \in 1..k /\ (c = i \/ c < i)
    BY <1>2, <1>6
  <2>2. os[k + 1].number < os[p[c]].number
    BY <1>2, <2>1
  <2>3. os[p[c]].number <= os[p[i]].number
    <3>1. CASE c = i
      BY <1>4, <3>1
    <3>2. CASE c < i
      <4>1. Before(os, p[c], p[i])
        BY <1>3, <2>1, <3>2
      <4> QED
        BY <1>4, <2>1, <4>1, BeforeNumbers
    <3> QED
      BY <2>1, <3>1, <3>2
  <2>4. PICK x \in Nat, y \in Nat, z \in Nat :
          x = os[k + 1].number /\ y = os[p[c]].number /\ z = os[p[i]].number
    BY <1>4, <2>1
  <2> QED
    BY <2>2, <2>3, <2>4
<1>7. c \in 1..(k + 1)
  BY <1>2
<1> QED
  BY <1>5, <1>6, <1>7, Zenon DEF IsPlace

\* One option more can be put in order too.
LEMMA PutsMore ==
  ASSUME NEW os, NEW k \in Nat, NEW p, Puts(os, k, p), Numbered(os, k + 1)
  PROVE  \E q : Puts(os, k + 1, q)
<1>1. PICK c : IsPlace(os, k, p, c)
  BY HasPlace
<1>2. /\ c \in 1..(k + 1)
      /\ \A i \in 1..k : i < c => os[p[i]].number <= os[k + 1].number
      /\ \A i \in 1..k : ~(i < c) => os[k + 1].number < os[p[i]].number
  BY <1>1, Zenon DEF IsPlace
<1>3. /\ p \in [1..k -> 1..k] /\ \A i, j \in 1..k : i < j => Before(os, p[i], p[j])
  BY DEF Puts
<1>4. /\ k + 1 \in Nat /\ os[k + 1].number \in Nat
      /\ \A i \in 1..k : p[i] \in Nat /\ p[i] < k + 1 /\ os[p[i]].number \in Nat
  <2>1. k + 1 \in 1..(k + 1) /\ \A i \in 1..k : i \in 1..(k + 1) /\ i \in Nat /\ i < k + 1
    OBVIOUS
  <2>2. \A i \in 1..k : p[i] \in 1..k
    BY <1>3
  <2>3. k + 1 \in Nat
    OBVIOUS
  <2> QED
    BY <2>1, <2>2, <2>3, Zenon DEF Numbered
<1> DEFINE q == [i \in 1..(k + 1) |-> IF i < c THEN p[i] ELSE IF i = c THEN k + 1 ELSE p[i - 1]]
<1>5. ASSUME NEW i \in 1..(k + 1)
      PROVE  \/ i < c /\ i \in 1..k /\ q[i] = p[i]
             \/ i = c /\ q[i] = k + 1
             \/ c < i /\ i - 1 \in 1..k /\ ~(i - 1 < c) /\ q[i] = p[i - 1]
  BY <1>2
<1>6. q \in [1..(k + 1) -> 1..(k + 1)]
  <2>1. \A i \in 1..k : p[i] \in 1..(k + 1)
    BY <1>3
  <2>2. k + 1 \in 1..(k + 1)
    OBVIOUS
  <2>3. \A i \in 1..(k + 1) : q[i] \in 1..(k + 1)
    BY <1>5, <2>1, <2>2, Zenon
  <2> QED
    BY <2>3
<1> HIDE DEF q
<1>7. ASSUME NEW i \in 1..(k + 1), NEW j \in 1..(k + 1), i < j PROVE Before(os, q[i], q[j])
  <2>1. CASE i < c /\ i \in 1..k /\ q[i] = p[i]
    <3>1. CASE j < c /\ j \in 1..k /\ q[j] = p[j]
      BY <1>3, <1>7, <2>1, <3>1, Zenon
    <3>2. CASE j = c /\ q[j] = k + 1
      <4>1. os[p[i]].number <= os[k + 1].number /\ p[i] < k + 1
        BY <1>2, <1>4, <2>1, Zenon
      <4>2. Before(os, p[i], k + 1)
        BY <1>4, <2>1, <4>1, BeforeNumbers, Zenon
      <4> QED
        BY <2>1, <3>2, <4>2, Zenon
    <3>3. CASE c < j /\ j - 1 \in 1..k /\ ~(j - 1 < c) /\ q[j] = p[j - 1]
      <4>1. i < j - 1
        BY <1>2, <2>1, <3>3
      <4> QED
        BY <1>3, <2>1, <3>3, <4>1, Zenon
    <3> QED
      BY <1>5, <3>1, <3>2, <3>3, Zenon
  <2>2. CASE i = c /\ q[i] = k + 1
    <3>1. c < j /\ ~(j < c) /\ j # c
      BY <1>2, <1>7, <2>2
    <3>2. c < j /\ j - 1 \in 1..k /\ ~(j - 1 < c) /\ q[j] = p[j - 1]
      BY <1>5, <3>1, Zenon
    <3>3. os[k + 1].number < os[p[j - 1]].number
      BY <1>2, <3>2, Zenon
    <3>4. Before(os, k + 1, p[j - 1])
      BY <1>4, <3>2, <3>3, BeforeNumbers, Zenon
    <3> QED
      BY <2>2, <3>2, <3>4, Zenon
  <2>3. CASE c < i /\ i - 1 \in 1..k /\ ~(i - 1 < c) /\ q[i] = p[i - 1]
    <3>1. c < j /\ ~(j < c) /\ j # c /\ i - 1 < j - 1
      BY <1>2, <1>7, <2>3
    <3>2. j - 1 \in 1..k /\ q[j] = p[j - 1]
      BY <1>5, <3>1, Zenon
    <3>3. Before(os, p[i - 1], p[j - 1])
      BY <1>3, <2>3, <3>1, <3>2, Zenon
    <3> QED
      BY <2>3, <3>2, <3>3, Zenon
  <2> QED
    BY <1>5, <2>1, <2>2, <2>3, Zenon
<1> QED
  BY <1>6, <1>7, Zenon DEF Puts

\* The order that Sorted takes.
Order(os) == CHOOSE p \in [1..Len(os) -> 1..Len(os)] :
               \A i, j \in 1..Len(os) : i < j => Before(os, p[i], p[j])

\* It exists.
LEMMA OrderPuts ==
  ASSUME NEW os \in Seq(Option), NEW n, n = Len(os)
  PROVE  n \in Nat /\ Numbered(os, n) /\ Puts(os, n, Order(os))
<1>1. n \in Nat
  BY LenProperties
<1>2. Numbered(os, n)
  <2>1. \A i \in 1..n : os[i] \in Option
    BY ElementOfSeq
  <2> QED
    BY <2>1 DEF Numbered, Option
<1> DEFINE T == {k \in Nat : k <= n => \E p : Puts(os, k, p)}
<1>3. 0 \in T
  <2>1. Puts(os, 0, [i \in 1..0 |-> 0])
    BY DEF Puts
  <2> QED
    BY <2>1
<1>4. ASSUME NEW k \in Nat, k \in T PROVE k + 1 \in T
  <2>1. SUFFICES ASSUME k + 1 <= n PROVE \E p : Puts(os, k + 1, p)
    OBVIOUS
  <2>2. k <= n /\ \A i \in 1..(k + 1) : i \in 1..n
    BY <1>1, <2>1
  <2>3. Numbered(os, k + 1)
    BY <1>2, <2>2, Zenon DEF Numbered
  <2>4. \E p : Puts(os, k, p)
    BY <1>4, <2>2
  <2> QED
    BY <2>3, <2>4, PutsMore, Zenon
<1> HIDE DEF T
<1>5. \A k \in Nat : k \in T
  BY <1>3, <1>4, Induction, Zenon
<1>6. n \in T /\ n <= n
  BY <1>1, <1>5
<1>7. \E p : Puts(os, n, p)
  BY <1>6 DEF T
<1>8. \E p \in [1..Len(os) -> 1..Len(os)] : \A i, j \in 1..Len(os) : i < j => Before(os, p[i], p[j])
  BY <1>7, Zenon DEF Puts
<1>9. Puts(os, n, Order(os))
  BY <1>8, Zenon DEF Puts, Order
<1> QED
  BY <1>1, <1>2, <1>9

\* taken has the options of os as p puts them.
SortedBy(taken, os, n, p) ==
  /\ taken \in Seq(Option) /\ Len(taken) = n
  /\ \A i \in 1..n : p[i] \in 1..n /\ taken[i] = os[p[i]]

\* Sorted does that.
LEMMA SortedIs ==
  ASSUME NEW os \in Seq(Option), NEW n, n = Len(os)
  PROVE  SortedBy(Sorted(os), os, n, Order(os))
<1>1. n \in Nat /\ Puts(os, n, Order(os))
  BY OrderPuts
<1>2. PICK p : p = Order(os) /\ p \in [1..n -> 1..n]
  BY <1>1 DEF Puts
<1>3. Sorted(os) = [i \in 1..n |-> os[p[i]]]
  <2>1. Sorted(os) = [i \in 1..Len(os) |-> os[Order(os)[i]]]
    BY Zenon DEF Sorted, Order
  <2> QED
    BY <1>2, <2>1
<1>4. \A i \in 1..n : p[i] \in 1..n /\ os[p[i]] \in Option
  BY <1>2, ElementOfSeq
<1>5. Sorted(os) \in Seq(Option) /\ Len(Sorted(os)) = n
  BY <1>1, <1>3, <1>4
<1> QED
  BY <1>2, <1>3, <1>4, <1>5 DEF SortedBy

\* The options come in ascending order.
LEMMA SortedAscends ==
  ASSUME NEW os \in Seq(Option)
  PROVE  Ascending(Sorted(os))
<1>1. PICK n, taken, p : n = Len(os) /\ taken = Sorted(os) /\ p = Order(os)
  OBVIOUS
<1>2. n \in Nat /\ Numbered(os, n) /\ Puts(os, n, p)
  BY <1>1, OrderPuts
<1>3. Len(taken) = n /\ \A i \in 1..n : p[i] \in 1..n /\ taken[i] = os[p[i]]
  BY <1>1, SortedIs, Zenon DEF SortedBy
<1>4. ASSUME NEW i \in 1..(n - 1) PROVE taken[i].number <= taken[i + 1].number
  <2>1. i \in 1..n /\ i + 1 \in 1..n /\ i < i + 1
    BY <1>2
  <2>2. Before(os, p[i], p[i + 1])
    BY <1>2, <2>1, Zenon DEF Puts
  <2>3. p[i] \in 1..n /\ p[i + 1] \in 1..n /\ taken[i] = os[p[i]] /\ taken[i + 1] = os[p[i + 1]]
    BY <1>3, <2>1, Zenon
  <2>4. /\ os[p[i]].number \in Nat /\ os[p[i + 1]].number \in Nat
        /\ p[i] \in Nat /\ p[i + 1] \in Nat
    BY <1>2, <2>3 DEF Numbered
  <2>5. os[p[i]].number <= os[p[i + 1]].number
    BY <2>2, <2>4, BeforeNumbers, Zenon
  <2> QED
    BY <2>3, <2>5, Zenon
<1> QED
  BY <1>1, <1>3, <1>4, Zenon DEF Ascending

\* They are those that were given, those of one number in the order they were given.
LEMMA SortedRearranges ==
  ASSUME NEW os \in Seq(Option)
  PROVE  Rearranged(Sorted(os), os)
<1>1. PICK n, taken, p : n = Len(os) /\ taken = Sorted(os) /\ p = Order(os)
  OBVIOUS
<1>2. n \in Nat /\ Numbered(os, n) /\ Puts(os, n, p)
  BY <1>1, OrderPuts
<1>3. Len(taken) = n /\ \A i \in 1..n : p[i] \in 1..n /\ taken[i] = os[p[i]]
  BY <1>1, SortedIs, Zenon DEF SortedBy
<1>4. p \in [1..n -> 1..n] /\ \A i, j \in 1..n : i < j => Before(os, p[i], p[j])
  BY <1>2 DEF Puts
<1>5. \A i \in 1..n : os[p[i]].number \in Nat /\ p[i] \in Nat
  BY <1>2, <1>4 DEF Numbered
<1>6. ASSUME NEW i \in 1..n, NEW j \in 1..n, p[i] = p[j] PROVE i = j
  <2>1. ~(i < j) /\ ~(j < i)
    <3>1. \A a, b \in 1..n : a < b => p[a] # p[b]
      BY <1>4, <1>5, BeforeNumbers, Zenon
    <3> QED
      BY <1>6, <3>1, Zenon
  <2> QED
    BY <2>1
<1>7. p \in Bijection(1..n, 1..n)
  <2>1. p \in Injection(1..n, 1..n)
    BY <1>4, <1>6 DEF Injection, IsInjective
  <2>2. IsFiniteSet(1..n)
    BY <1>2, FS_Interval
  <2>3. p \in Surjection(1..n, 1..n)
    BY <2>1, <2>2, FS_Injection
  <2> QED
    BY <2>1, <2>3 DEF Bijection
<1>8. ASSUME NEW i \in 1..n, NEW j \in 1..n, i < j, taken[i].number = taken[j].number
      PROVE  p[i] < p[j]
  <2>1. Before(os, p[i], p[j]) /\ os[p[i]].number = os[p[j]].number
    BY <1>3, <1>4, <1>8, Zenon
  <2> QED
    BY <1>5, <2>1, BeforeNumbers, Zenon
<1> QED
  BY <1>1, <1>3, <1>7, <1>8, Zenon DEF Rearranged

\* The options never come in descending order, from one to any later one.
Monotone(os, n) == \A i, j \in 1..n : i <= j => os[i].number <= os[j].number

\* Ascending options do not.
LEMMA AscendingMonotone ==
  ASSUME NEW os \in Seq(Option), Ascending(os), NEW n, n = Len(os)
  PROVE  Monotone(os, n)
<1>1. n \in Nat /\ Numbered(os, n)
  BY OrderPuts
<1>2. \A i \in 1..(n - 1) : os[i].number <= os[i + 1].number
  BY DEF Ascending
<1> DEFINE T == {k \in Nat : k <= n => Monotone(os, k)}
<1>3. 0 \in T
  BY DEF Monotone
<1>4. ASSUME NEW k \in Nat, k \in T PROVE k + 1 \in T
  <2>1. SUFFICES ASSUME k + 1 <= n PROVE Monotone(os, k + 1)
    OBVIOUS
  <2>2. k <= n /\ \A i \in 1..(k + 1) : i \in 1..n
    BY <1>1, <2>1
  <2>3. Monotone(os, k)
    BY <1>4, <2>2
  <2>4. \A i \in 1..(k + 1) : os[i].number \in Nat
    BY <1>1, <2>2, Zenon DEF Numbered
  <2>5. ASSUME NEW i \in 1..(k + 1), NEW j \in 1..(k + 1), i <= j
        PROVE  os[i].number <= os[j].number
    <3>1. CASE i = j
      BY <2>4, <3>1
    <3>2. CASE i \in 1..k /\ j \in 1..k
      BY <2>3, <2>5, <3>2, Zenon DEF Monotone
    <3>3. CASE i \in 1..k /\ j = k + 1
      <4>1. k \in 1..k /\ k \in 1..(k + 1) /\ i <= k /\ k \in 1..(n - 1)
        BY <1>1, <2>1, <3>3
      <4>2. os[i].number <= os[k].number /\ os[k].number <= os[k + 1].number
        BY <1>2, <2>3, <3>3, <4>1, Zenon DEF Monotone
      <4>3. PICK x \in Nat, y \in Nat, z \in Nat :
              x = os[i].number /\ y = os[k].number /\ z = os[j].number
        BY <2>4, <4>1
      <4> QED
        BY <3>3, <4>2, <4>3
    <3> QED
      BY <2>5, <3>1, <3>2, <3>3
  <2> QED
    BY <2>5 DEF Monotone
<1> HIDE DEF T
<1>5. \A k \in Nat : k \in T
  BY <1>3, <1>4, Induction, Zenon
<1>6. n \in T /\ n <= n
  BY <1>1, <1>5
<1> QED
  BY <1>6 DEF T

\* A strictly ascending function from 1..n to itself leaves every number where it is.
LEMMA IdentityOnly ==
  ASSUME NEW n \in Nat, NEW p \in [1..n -> 1..n], \A i, j \in 1..n : i < j => p[i] < p[j]
  PROVE  \A i \in 1..n : p[i] = i
<1>1. \A i \in 1..n : p[i] \in Nat /\ p[i] <= n
  OBVIOUS
<1> DEFINE T == {k \in Nat : \A i \in 1..n : i = k + 1 => i <= p[i]}
           U == {k \in Nat : \A i \in 1..n : i = n - k => p[i] <= i}
<1>2. 0 \in T
  <2>1. ASSUME NEW i \in 1..n, i = 0 + 1 PROVE i <= p[i]
    BY <2>1
  <2> QED
    BY <2>1
<1>3. ASSUME NEW k \in Nat, k \in T PROVE k + 1 \in T
  <2>1. ASSUME NEW i \in 1..n, i = (k + 1) + 1 PROVE i <= p[i]
    <3>1. i - 1 \in 1..n /\ i - 1 = k + 1 /\ i - 1 < i
      BY <2>1
    <3>2. i - 1 <= p[i - 1] /\ p[i - 1] < p[i]
      BY <1>3, <3>1
    <3> QED
      BY <1>1, <3>1, <3>2
  <2>2. k + 1 \in Nat
    OBVIOUS
  <2> QED
    BY <2>1, <2>2
<1>4. 0 \in U
  <2>1. ASSUME NEW i \in 1..n, i = n - 0 PROVE p[i] <= i
    BY <1>1, <2>1
  <2> QED
    BY <2>1
<1>5. ASSUME NEW k \in Nat, k \in U PROVE k + 1 \in U
  <2>1. ASSUME NEW i \in 1..n, i = n - (k + 1) PROVE p[i] <= i
    <3>1. i + 1 \in 1..n /\ i + 1 = n - k /\ i < i + 1
      BY <2>1
    <3>2. p[i + 1] <= i + 1 /\ p[i] < p[i + 1]
      BY <1>5, <3>1
    <3> QED
      BY <1>1, <3>1, <3>2
  <2>2. k + 1 \in Nat
    OBVIOUS
  <2> QED
    BY <2>1, <2>2
<1> HIDE DEF T, U
<1>6. \A k \in Nat : k \in T
  BY <1>2, <1>3, Induction, Zenon
<1>7. \A k \in Nat : k \in U
  BY <1>4, <1>5, Induction, Zenon
<1> TAKE i \in 1..n
<1>8. i - 1 \in T /\ i = (i - 1) + 1
  BY <1>6
<1>9. n - i \in U /\ i = n - (n - i)
  BY <1>7
<1>10. i <= p[i]
  BY <1>8 DEF T
<1>11. p[i] <= i
  BY <1>9 DEF U
<1> QED
  BY <1>1, <1>10, <1>11

\* Sorting ascending options changes nothing.
LEMMA SortedSame ==
  ASSUME NEW os \in Seq(Option), Ascending(os)
  PROVE  Sorted(os) = os
<1>1. PICK n, taken, p : n = Len(os) /\ taken = Sorted(os) /\ p = Order(os)
  OBVIOUS
<1>2. n \in Nat /\ Numbered(os, n) /\ Puts(os, n, p)
  BY <1>1, OrderPuts
<1>3. /\ taken \in Seq(Option) /\ Len(taken) = n
      /\ \A i \in 1..n : p[i] \in 1..n /\ taken[i] = os[p[i]]
  BY <1>1, SortedIs, Zenon DEF SortedBy
<1>4. p \in [1..n -> 1..n] /\ \A i, j \in 1..n : i < j => Before(os, p[i], p[j])
  BY <1>2 DEF Puts
<1>5. ASSUME NEW i \in 1..n, NEW j \in 1..n, i < j PROVE p[i] < p[j]
  <2>1. /\ p[i] \in 1..n /\ p[j] \in 1..n /\ p[i] \in Nat /\ p[j] \in Nat
        /\ os[p[i]].number \in Nat /\ os[p[j]].number \in Nat
    BY <1>2, <1>3 DEF Numbered
  <2>2. Before(os, p[i], p[j])
    BY <1>4, <1>5, Zenon
  <2>3. os[p[i]].number <= os[p[j]].number /\ p[i] # p[j]
    BY <2>1, <2>2, BeforeNumbers, Zenon
  <2>4. CASE os[p[i]].number = os[p[j]].number
    BY <2>1, <2>2, <2>4, BeforeNumbers, Zenon
  <2>5. CASE os[p[i]].number # os[p[j]].number
    <3>1. ASSUME p[j] < p[i] PROVE FALSE
      <4>1. p[j] <= p[i]
        BY <2>1, <3>1
      <4>2. os[p[j]].number <= os[p[i]].number
        BY <1>1, <2>1, <4>1, AscendingMonotone, Zenon DEF Monotone
      <4>3. PICK x \in Nat, y \in Nat : x = os[p[i]].number /\ y = os[p[j]].number
        BY <2>1
      <4> QED
        BY <2>3, <2>5, <4>2, <4>3
    <3> QED
      BY <2>1, <2>3, <3>1
  <2> QED
    BY <2>4, <2>5
<1>6. \A i \in 1..n : p[i] = i
  BY <1>2, <1>4, <1>5, IdentityOnly, Zenon
<1>7. \A i \in 1..n : taken[i] = os[i]
  BY <1>3, <1>6, Zenon
<1>8. taken = os
  BY <1>1, <1>3, <1>7, SeqEqual
<1> QED
  BY <1>1, <1>8

-----------------------------------------------------------------------------
(* Codec: encode.                                                           *)

\* An option has a delta or a length that encode throws on.
TooMuch(os) ==
  \E i \in 1..Len(os) : TooLong(DeltaAt(os, 0, i)) \/ TooLong(Len(os[i].value))

\* What two bytes hold of an id.
Low(id) == id % 65536

\* The two bytes, the id, the token, the options and the payload.
Start(m) == <<64 + (m.type % 4) * 16 + Len(m.token), m.code % 256>>
Encoded(m, os) ==
  Start(m) \o UInt16(Low(m.messageId)) \o m.token \o EncodeOptions[os][0] \o Trail(m.payload)

\* encode, in these words.
LEMMA EncodeIs ==
  ASSUME NEW m
  PROVE  encode(m) = IF Len(m.token) > 8 \/ TooMuch(Sorted(m.options)) THEN Throws
                     ELSE [ok |-> TRUE, bytes |-> Encoded(m, Sorted(m.options))]
BY DEF encode, TooMuch, DeltaAt, Encoded, Low, Start, Trail

\* What two bytes can extend.
LEMMA NotTooLong ==
  ASSUME NEW v \in Int
  PROVE  v \in Sizes <=> v >= 0 /\ ~TooLong(v)
BY DEF Sizes, TooLong

\* Options fit when they ascend and none is too long.
LEMMA FitsWhen ==
  ASSUME NEW os \in Seq(Option)
  PROVE  Fits(os, 0) <=> Ascending(os) /\ ~TooMuch(os)
<1>1. PICK n : n = Len(os)
  OBVIOUS
<1>2. n \in Nat /\ Numbered(os, n)
  BY <1>1, OrderPuts
<1>3. ASSUME NEW i \in 1..n
      PROVE  /\ DeltaAt(os, 0, i) \in Int /\ Len(os[i].value) \in Nat
             /\ i = 1 => DeltaAt(os, 0, i) >= 0
             /\ i # 1 => /\ i - 1 \in 1..(n - 1) /\ (i - 1) + 1 = i
                         /\ DeltaAt(os, 0, i) >= 0 <=> os[i - 1].number <= os[i].number
  <2>1. os[i].number \in Nat
    BY <1>2 DEF Numbered
  <2>2. Len(os[i].value) \in Nat
    <3>1. os[i] \in Option
      BY <1>1, ElementOfSeq
    <3>2. os[i].value \in Seq(Octet)
      BY <3>1 DEF Option
    <3> QED
      BY <3>2, LenProperties
  <2>3. CASE i = 1
    <3>1. DeltaAt(os, 0, i) = os[i].number - 0
      BY <2>3 DEF DeltaAt
    <3> QED
      BY <2>1, <2>2, <2>3, <3>1
  <2>4. CASE i # 1
    <3>1. DeltaAt(os, 0, i) = os[i].number - os[i - 1].number
      BY <2>4 DEF DeltaAt
    <3>2. i - 1 \in 1..n /\ i - 1 \in 1..(n - 1) /\ (i - 1) + 1 = i
      BY <1>2, <2>4
    <3>3. os[i - 1].number \in Nat
      BY <1>2, <3>2, Zenon DEF Numbered
    <3> QED
      BY <2>1, <2>2, <2>4, <3>1, <3>2, <3>3
  <2> QED
    BY <2>3, <2>4
<1>4. \A v \in Nat : v \in Int /\ v >= 0
  OBVIOUS
<1>5. ASSUME Fits(os, 0) PROVE Ascending(os) /\ ~TooMuch(os)
  <2>1. \A i \in 1..n : DeltaAt(os, 0, i) \in Sizes /\ Len(os[i].value) \in Sizes
    BY <1>1, <1>5, Zenon DEF Fits
  <2>2. ~TooMuch(os)
    BY <1>1, <1>3, <1>4, <2>1, NotTooLong, Zenon DEF TooMuch
  <2>3. ASSUME NEW j \in 1..(n - 1) PROVE os[j].number <= os[j + 1].number
    <3>1. j + 1 \in 1..n /\ j + 1 # 1 /\ (j + 1) - 1 = j
      BY <1>2
    <3>2. DeltaAt(os, 0, j + 1) >= 0
      BY <1>3, <2>1, <3>1, NotTooLong, Zenon
    <3>3. os[(j + 1) - 1].number <= os[j + 1].number
      BY <1>3, <3>1, <3>2, Zenon
    <3> QED
      BY <3>1, <3>3, Zenon
  <2> QED
    BY <1>1, <2>2, <2>3, Zenon DEF Ascending
<1>6. ASSUME Ascending(os), ~TooMuch(os) PROVE Fits(os, 0)
  <2>1. ASSUME NEW i \in 1..n
        PROVE  DeltaAt(os, 0, i) \in Sizes /\ Len(os[i].value) \in Sizes
    <3>1. ~TooLong(DeltaAt(os, 0, i)) /\ ~TooLong(Len(os[i].value))
      BY <1>1, <1>6, Zenon DEF TooMuch
    <3>2. DeltaAt(os, 0, i) >= 0
      <4>1. CASE i = 1
        BY <1>3, <4>1, Zenon
      <4>2. CASE i # 1
        <5>1. i - 1 \in 1..(n - 1) /\ (i - 1) + 1 = i
          BY <1>3, <4>2, Zenon
        <5>2. os[i - 1].number <= os[(i - 1) + 1].number
          BY <1>1, <1>6, <5>1, Zenon DEF Ascending
        <5>3. os[i - 1].number <= os[i].number
          BY <5>1, <5>2, Zenon
        <5> QED
          BY <1>3, <4>2, <5>3, Zenon
      <4> QED
        BY <4>1, <4>2
    <3> QED
      BY <1>3, <1>4, <3>1, <3>2, NotTooLong, Zenon
  <2>2. 0 \in Nat
    OBVIOUS
  <2> QED
    BY <1>1, <2>1, <2>2, Zenon DEF Fits
<1> QED
  BY <1>5, <1>6

\* What encode does with options that fit, and with those that do not.
LEMMA EncodeFits ==
  ASSUME NEW m, m.options \in Seq(Option), NEW os, os = Sorted(m.options)
  PROVE  /\ encode(m).ok <=> Fits(os, 0) /\ ~(Len(m.token) > 8)
         /\ encode(m).ok => encode(m).bytes = Encoded(m, os)
<1>1. os \in Seq(Option) /\ Ascending(os)
  BY SortedIs, SortedAscends, Zenon DEF SortedBy
<1>2. Fits(os, 0) <=> ~TooMuch(os)
  BY <1>1, FitsWhen, Zenon
<1>3. ~Throws.ok
  BY DEF Throws
<1>4. CASE Len(m.token) > 8 \/ TooMuch(os)
  <2>1. encode(m) = Throws
    BY <1>4, EncodeIs, Zenon
  <2> QED
    BY <1>2, <1>3, <1>4, <2>1, Zenon
<1>5. CASE ~(Len(m.token) > 8 \/ TooMuch(os))
  <2>1. encode(m) = [ok |-> TRUE, bytes |-> Encoded(m, os)]
    BY <1>5, EncodeIs, Zenon
  <2>2. encode(m).ok = TRUE /\ encode(m).bytes = Encoded(m, os)
    BY <2>1
  <2> QED
    BY <1>2, <1>5, <2>2, Zenon
<1> QED
  BY <1>4, <1>5

-----------------------------------------------------------------------------
(* Codec: the head of a message.                                            *)

\* s is four bytes, the token and the rest, of the lengths k and d.
IsMessage(s, h, c, i, j, token, k, rest, d) ==
  /\ Len(s) = 4 + k + d
  /\ s[1] = h /\ s[2] = c /\ s[3] = i /\ s[4] = j
  /\ IsPart(token, s, 4, k) /\ IsPart(rest, s, 4 + k, d)

\* They are joined to s.
Joins(s, h, c, i, j, token, k, rest, d) ==
  /\ k = Len(token) /\ d = Len(rest)
  /\ s = <<h, c>> \o <<i, j>> \o token \o rest

\* Joining them gives that.
LEMMA MessageLaid ==
  ASSUME NEW h \in Octet, NEW c \in Octet, NEW i \in Octet, NEW j \in Octet,
         NEW token \in Seq(Octet), NEW rest \in Seq(Octet), NEW k, NEW d, NEW s,
         Joins(s, h, c, i, j, token, k, rest, d)
  PROVE  s \in Seq(Octet) /\ IsMessage(s, h, c, i, j, token, k, rest, d)
<1>1. k = Len(token) /\ d = Len(rest) /\ s = <<h, c>> \o <<i, j>> \o token \o rest
  BY Zenon DEF Joins
<1>2. k \in Nat /\ d \in Nat
  BY <1>1, LenProperties
<1>3. PICK a \in Seq(Octet) : a = <<h, c>> /\ Len(a) = 2 /\ a[1] = h /\ a[2] = c
  <2>1. /\ <<h, c>> \in Seq(Octet) /\ Len(<<h, c>>) = 2
        /\ <<h, c>>[1] = h /\ <<h, c>>[2] = c
    OBVIOUS
  <2> QED
    BY <2>1
<1>4. PICK b \in Seq(Octet) : b = <<i, j>> /\ Len(b) = 2 /\ b[1] = i /\ b[2] = j
  <2>1. /\ <<i, j>> \in Seq(Octet) /\ Len(<<i, j>>) = 2
        /\ <<i, j>>[1] = i /\ <<i, j>>[2] = j
    OBVIOUS
  <2> QED
    BY <2>1
<1>5. PICK x : x = a \o b
  OBVIOUS
<1>6. PICK y : y = x \o token
  OBVIOUS
<1>7. s = y \o rest
  BY <1>1, <1>3, <1>4, <1>5, <1>6
<1>8. x \in Seq(Octet) /\ Len(x) = 4 /\ x[1] = h /\ x[2] = c /\ x[3] = i /\ x[4] = j
  <2>1. x \in Seq(Octet) /\ IsJoin(x, a, 2, b, 2)
    BY <1>3, <1>4, <1>5, Join, Zenon
  <2>2. /\ Len(x) = 2 + 2 /\ x[1] = a[1] /\ x[2] = a[2]
        /\ x[2 + 1] = b[1] /\ x[2 + 2] = b[2]
    <3>1. 1 \in 1..2 /\ 2 \in 1..2
      OBVIOUS
    <3> QED
      BY <2>1, <3>1, Zenon DEF IsJoin
  <2>3. 2 + 1 = 3 /\ 2 + 2 = 4
    OBVIOUS
  <2> QED
    BY <1>3, <1>4, <2>1, <2>2, <2>3, Zenon
<1>9. y \in Seq(Octet) /\ IsJoin(y, x, 4, token, k)
  BY <1>1, <1>6, <1>8, Join, Zenon
<1>10. /\ Len(y) = 4 + k /\ y[1] = h /\ y[2] = c /\ y[3] = i /\ y[4] = j
      /\ IsPart(token, y, 4, k)
  <2>1. 1 \in 1..4 /\ 2 \in 1..4 /\ 3 \in 1..4 /\ 4 \in 1..4
    OBVIOUS
  <2>2. IsPart(token, y, 4, k)
    BY <1>1, <1>9, JoinPart, Zenon
  <2> QED
    BY <1>8, <1>9, <2>1, <2>2, Zenon DEF IsJoin
<1>11. s \in Seq(Octet) /\ IsJoin(s, y, 4 + k, rest, d)
  BY <1>1, <1>7, <1>9, <1>10, Join, Zenon
<1>12. /\ 1 \in 1..(4 + k) /\ 2 \in 1..(4 + k) /\ 3 \in 1..(4 + k) /\ 4 \in 1..(4 + k)
       /\ 4 \in Nat /\ 4 + k \in Nat /\ 4 + k <= 4 + k
  BY <1>2
<1>13. IsPart(token, s, 4, k) /\ IsPart(rest, s, 4 + k, d)
  <2>1. IsPart(token, s, 4, k)
    BY <1>2, <1>10, <1>11, <1>12, PartStays, Zenon
  <2>2. IsPart(rest, s, 4 + k, d)
    BY <1>1, <1>11, JoinPart, Zenon
  <2> QED
    BY <2>1, <2>2
<1>14. s[1] = h /\ s[2] = c /\ s[3] = i /\ s[4] = j /\ Len(s) = (4 + k) + d
  BY <1>10, <1>11, <1>12, Zenon DEF IsJoin
<1> QED
  BY <1>11, <1>13, <1>14, Zenon DEF IsMessage

\* There is one such sequence.
LEMMA OneMessage ==
  ASSUME NEW s \in Seq(Octet), NEW r \in Seq(Octet), NEW h, NEW c, NEW i, NEW j,
         NEW token, NEW k \in Nat, NEW rest, NEW d \in Nat,
         IsMessage(s, h, c, i, j, token, k, rest, d),
         IsMessage(r, h, c, i, j, token, k, rest, d)
  PROVE  s = r
<1>1. ASSUME NEW x \in 1..(4 + k + d) PROVE s[x] = r[x]
  <2>1. \/ x \in {1, 2, 3, 4}
        \/ \E y \in 1..k : x = 4 + y
        \/ \E y \in 1..d : x = (4 + k) + y
    <3>1. x - 4 \in 1..k => x = 4 + (x - 4)
      OBVIOUS
    <3>2. x - (4 + k) \in 1..d => x = (4 + k) + (x - (4 + k))
      OBVIOUS
    <3>3. x \in {1, 2, 3, 4} \/ x - 4 \in 1..k \/ x - (4 + k) \in 1..d
      OBVIOUS
    <3> QED
      BY <3>1, <3>2, <3>3, Zenon
  <2>2. CASE x \in {1, 2, 3, 4}
    BY <2>2, Zenon DEF IsMessage
  <2>3. ASSUME NEW y \in 1..k, x = 4 + y PROVE s[x] = r[x]
    BY <2>3, Zenon DEF IsMessage, IsPart
  <2>4. ASSUME NEW y \in 1..d, x = (4 + k) + y PROVE s[x] = r[x]
    BY <2>4, Zenon DEF IsMessage, IsPart
  <2> QED
    BY <2>1, <2>2, <2>3, <2>4, Zenon
<1>2. Len(s) = 4 + k + d /\ Len(r) = 4 + k + d
  BY Zenon DEF IsMessage
<1> QED
  BY <1>1, <1>2, SeqEqual, Zenon

\* The first byte holds the version, the type and the length of the token.
HeadByte(h, t, k) ==
  h \in Octet /\ h \div 64 = 1 /\ (h \div 16) % 4 = t /\ h % 16 = k

\* What encode makes of them is such a byte.
LEMMA FirstByte ==
  ASSUME NEW t \in 0..3, NEW k \in 0..8, NEW h, h = 64 + t * 16 + k
  PROVE  HeadByte(h, t, k)
<1>1. h \in Nat /\ h <= 255
  OBVIOUS
<1>2. h \div 64 = 1
  OBVIOUS
<1>3. h \div 16 = 4 + t /\ h % 16 = k
  OBVIOUS
<1>4. (4 + t) % 4 = t
  OBVIOUS
<1> QED
  BY <1>1, <1>2, <1>3, <1>4, OctetIs, Zenon DEF HeadByte

\* An octet is its own remainder.
LEMMA OctetRest == \A x \in Octet : x % 256 = x
BY OctetIs

\* What decode makes of a byte are those.
LEMMA InFirstByte ==
  ASSUME NEW h \in Octet, h \div 64 = 1, NEW k, k = h % 16, NEW t, t = (h \div 16) % 4
  PROVE  t \in 0..3 /\ k \in Nat /\ h = 64 + t * 16 + k /\ t % 4 = t
<1>1. h \in Nat /\ h <= 255
  BY OctetIs
<1>2. h >= 64 /\ h < 128
  BY <1>1
<1>3. PICK q : q = h \div 16
  OBVIOUS
<1>4. q \in 4..7 /\ h = q * 16 + k /\ k \in Nat
  BY <1>1, <1>2, <1>3
<1>5. t = q - 4
  BY <1>3, <1>4
<1> QED
  BY <1>4, <1>5

\* The low 16 bits of an id are two bytes.
LEMMA TwoBytes ==
  ASSUME NEW n \in Nat
  PROVE  \E i, j \in Octet : UInt16(Low(n)) = <<i, j>> /\ i * 256 + j = Low(n)
<1>1. Low(n) \in Nat /\ Low(n) <= 65535
  BY DEF Low
<1>2. PICK v \in Nat : v = Low(n) /\ v <= 65535
  BY <1>1
<1>3. PICK i, j : i = (v \div 256) % 256 /\ j = v % 256
  OBVIOUS
<1>4. i \in Nat /\ i <= 255 /\ j \in Nat /\ j <= 255
  BY <1>2, <1>3
<1>5. i * 256 + j = v
  BY <1>2, <1>3
<1>6. UInt16(v) = <<i, j>>
  BY <1>3 DEF UInt16
<1> QED
  BY <1>2, <1>4, <1>5, <1>6, OctetIs

\* Two bytes are the number that encode makes the two of.
LEMMA BytesTwo ==
  ASSUME NEW i \in Octet, NEW j \in Octet
  PROVE  UInt16(Low(i * 256 + j)) = <<i, j>> /\ i * 256 + j \in Nat
<1>1. i \in Nat /\ i <= 255 /\ j \in Nat /\ j <= 255
  BY OctetIs
<1>2. Low(i * 256 + j) = i * 256 + j /\ i * 256 + j \in Nat
  BY <1>1 DEF Low
<1>3. ((i * 256 + j) \div 256) % 256 = i /\ (i * 256 + j) % 256 = j
  <2>1. (i * 256 + j) \div 256 = i /\ (i * 256 + j) % 256 = j /\ i % 256 = i
    BY <1>1
  <2> QED
    BY <2>1, Zenon
<1> QED
  BY <1>2, <1>3 DEF UInt16

\* What decode makes of the bytes behind the token, and of all of them.
Parsed(s) == DecodeOptions[SubSeq(s, 5 + (s[1] % 16), Len(s))][0]
Message(s) ==
  [type |-> (s[1] \div 16) % 4, code |-> s[2], messageId |-> readUInt16BE(s, 2),
   token |-> SubSeq(s, 5, 4 + (s[1] % 16)),
   options |-> Parsed(s).options, payload |-> Parsed(s).payload]
Accepts(s) ==
  /\ ~(Len(s) < 4) /\ s[1] \div 64 = 1 /\ ~(s[1] % 16 > 8) /\ ~(Len(s) < 4 + (s[1] % 16))
  /\ Parsed(s).ok

\* decode, in these words.
LEMMA DecodeIs ==
  ASSUME NEW s
  PROVE  decode(s) = IF Accepts(s)
                     THEN [ok |-> TRUE, ranOff |-> Parsed(s).ranOff, msg |-> Message(s)]
                     ELSE Throws
BY DEF decode, Accepts, Message, Parsed

\* Its fields.
LEMMA DecodeGives ==
  ASSUME NEW s
  PROVE  /\ decode(s).ok <=> Accepts(s)
         /\ Accepts(s) => decode(s).ranOff = Parsed(s).ranOff /\ decode(s).msg = Message(s)
<1>1. CASE Accepts(s)
  <2>1. decode(s) = [ok |-> TRUE, ranOff |-> Parsed(s).ranOff, msg |-> Message(s)]
    BY <1>1, DecodeIs, Zenon
  <2>2. decode(s).ok = TRUE /\ decode(s).ranOff = Parsed(s).ranOff /\ decode(s).msg = Message(s)
    BY <2>1
  <2> QED
    BY <1>1, <2>2, Zenon
<1>2. CASE ~Accepts(s)
  <2>1. decode(s) = Throws /\ ~Throws.ok
    BY <1>2, DecodeIs DEF Throws
  <2> QED
    BY <1>2, <2>1, Zenon
<1> QED
  BY <1>1, <1>2

\* The head of m: four bytes and the token.
Preamble(m) == Start(m) \o UInt16(Low(m.messageId)) \o m.token

\* m has a head that encode can write.
HasHead(m) ==
  /\ m.type \in 0..3 /\ m.code \in Octet /\ m.messageId \in Nat
  /\ m.token \in Seq(Octet) /\ ~(Len(m.token) > 8)

\* What decode cuts s into, with k bytes of token.
TokenIn(s, k) == SubSeq(s, 5, 4 + k)
RestIn(s, k) == SubSeq(s, 5 + k, Len(s))
CutUp(s, k, d) ==
  /\ s[1] \in Octet /\ s[2] \in Octet /\ s[3] \in Octet /\ s[4] \in Octet
  /\ readUInt16BE(s, 2) = s[3] * 256 + s[4]
  /\ TokenIn(s, k) \in Seq(Octet) /\ IsPart(TokenIn(s, k), s, 4, k)
  /\ RestIn(s, k) \in Seq(Octet) /\ IsPart(RestIn(s, k), s, 4 + k, d)

\* A buffer that is long enough is cut up so.
LEMMA CuttingUp ==
  ASSUME NEW s \in Seq(Octet), NEW k \in Nat, NEW d \in Nat, Len(s) = 4 + k + d
  PROVE  CutUp(s, k, d)
<1>1. PICK n \in Nat : n = Len(s) /\ n = 4 + k + d
  BY LenProperties
<1>2. /\ 1 \in 1..n /\ 2 \in 1..n /\ 3 \in 1..n /\ 4 \in 1..n /\ 2 < n /\ 3 < n
      /\ 4 + k \in Nat /\ 4 + k <= n /\ n = (4 + k) + d
      /\ 4 + 1 = 5 /\ (4 + k) + 1 = 5 + k /\ 2 + 1 = 3 /\ 3 + 1 = 4
  BY <1>1
<1>3. s[1] \in Octet /\ s[2] \in Octet /\ s[3] \in Octet /\ s[4] \in Octet
  BY <1>1, <1>2, ElementOfSeq
<1>4. readUInt16BE(s, 2) = s[3] * 256 + s[4]
  <2>1. 2 \in Nat /\ 3 \in Nat
    OBVIOUS
  <2>2. At(s, 2) = s[2 + 1] /\ At(s, 3) = s[3 + 1]
    BY <1>1, <1>2, <2>1, OctetAt, Zenon
  <2>3. At(s, 2) = s[3] /\ At(s, 2 + 1) = s[4]
    BY <1>2, <2>2, Zenon
  <2> QED
    BY <2>3, Zenon DEF readUInt16BE
<1>5. TokenIn(s, k) \in Seq(Octet) /\ IsPart(TokenIn(s, k), s, 4, k)
  <2>1. 4 \in Nat
    OBVIOUS
  <2>2. /\ SubSeq(s, 4 + 1, 4 + k) \in Seq(Octet)
        /\ IsPart(SubSeq(s, 4 + 1, 4 + k), s, 4, k)
    BY <1>1, <1>2, <2>1, Middle, Zenon
  <2> QED
    BY <1>2, <2>2, Zenon DEF TokenIn
<1>6. RestIn(s, k) \in Seq(Octet) /\ IsPart(RestIn(s, k), s, 4 + k, d)
  <2>1. /\ SubSeq(s, (4 + k) + 1, Len(s)) \in Seq(Octet)
        /\ IsPart(SubSeq(s, (4 + k) + 1, Len(s)), s, 4 + k, d)
    BY <1>1, <1>2, RestOf, Zenon
  <2> QED
    BY <1>2, <2>1, Zenon DEF RestIn
<1> QED
  BY <1>3, <1>4, <1>5, <1>6, Zenon DEF CutUp

\* The four bytes of the head of m.
StartIs(m, h, c, i, j, k) ==
  /\ HeadByte(h, m.type, k) /\ k = Len(m.token)
  /\ c = m.code /\ i \in Octet /\ j \in Octet /\ i * 256 + j = Low(m.messageId)
  /\ Start(m) = <<h, c>> /\ UInt16(Low(m.messageId)) = <<i, j>>

\* There are such bytes.
LEMMA StartOf ==
  ASSUME NEW m, HasHead(m)
  PROVE  \E h, c, i, j : StartIs(m, h, c, i, j, Len(m.token)) /\ Len(m.token) \in Nat
<1>1. PICK k : k = Len(m.token) /\ k \in Nat /\ ~(k > 8)
  BY LenProperties DEF HasHead
<1>2. PICK t \in 0..3 : t = m.type
  BY DEF HasHead
<1>3. PICK c \in Octet : c = m.code
  BY DEF HasHead
<1>4. k \in 0..8
  <2>1. \A x \in Nat : ~(x > 8) => x \in 0..8
    OBVIOUS
  <2> QED
    BY <1>1, <2>1, Zenon
<1>5. PICK h : h = 64 + (t % 4) * 16 + k
  OBVIOUS
<1>6. t % 4 = t
  OBVIOUS
<1>7. HeadByte(h, t, k)
  <2>1. h = 64 + t * 16 + k
    BY <1>5, <1>6
  <2> QED
    BY <1>4, <2>1, FirstByte, Zenon
<1>8. c % 256 = c
  BY OctetRest, Zenon
<1>9. PICK i, j \in Octet : UInt16(Low(m.messageId)) = <<i, j>> /\ i * 256 + j = Low(m.messageId)
  BY TwoBytes DEF HasHead
<1>10. Start(m) = <<h, c>>
  BY <1>1, <1>2, <1>3, <1>5, <1>8 DEF Start
<1> QED
  BY <1>1, <1>2, <1>3, <1>7, <1>9, <1>10, Zenon DEF StartIs

\* The head of m is read back.
IsHead(s, m, rest) ==
  /\ s \in Seq(Octet)
  /\ ~(Len(s) < 4) /\ s[1] \div 64 = 1 /\ ~(s[1] % 16 > 8) /\ ~(Len(s) < 4 + (s[1] % 16))
  /\ (s[1] \div 16) % 4 = m.type /\ s[2] = m.code
  /\ readUInt16BE(s, 2) = Low(m.messageId)
  /\ SubSeq(s, 5, 4 + (s[1] % 16)) = m.token
  /\ SubSeq(s, 5 + (s[1] % 16), Len(s)) = rest

\* decode reads the head that encode wrote, and finds the rest.
LEMMA HeadBack ==
  ASSUME NEW m, HasHead(m), NEW rest \in Seq(Octet), NEW s, s = Preamble(m) \o rest
  PROVE  IsHead(s, m, rest)
<1>1. PICK h, c, i, j, k : StartIs(m, h, c, i, j, k) /\ k \in Nat
  BY StartOf, Zenon
<1>2. /\ h \in Octet /\ c \in Octet /\ i \in Octet /\ j \in Octet
      /\ m.token \in Seq(Octet) /\ ~(Len(m.token) > 8)
  BY <1>1 DEF StartIs, HeadByte, HasHead
<1>3. PICK d \in Nat : d = Len(rest)
  BY LenProperties
<1>4. Joins(s, h, c, i, j, m.token, k, rest, d)
  BY <1>1, <1>3, Zenon DEF StartIs, Preamble, Joins
<1>5. s \in Seq(Octet) /\ IsMessage(s, h, c, i, j, m.token, k, rest, d)
  BY <1>2, <1>4, MessageLaid, Zenon
<1>6. /\ Len(s) = 4 + k + d /\ s[1] = h /\ s[2] = c /\ s[3] = i /\ s[4] = j
      /\ IsPart(m.token, s, 4, k) /\ IsPart(rest, s, 4 + k, d)
  BY <1>5, Zenon DEF IsMessage
<1>7. CutUp(s, k, d)
  <2>1. s \in Seq(Octet) /\ k \in Nat /\ d \in Nat /\ Len(s) = 4 + k + d
    BY <1>1, <1>3, <1>5, <1>6
  <2> QED
    BY <2>1, CuttingUp, Zenon
<1>8. TokenIn(s, k) = m.token
  <2>1. TokenIn(s, k) \in Seq(Octet) /\ IsPart(TokenIn(s, k), s, 4, k)
    BY <1>7, Zenon DEF CutUp
  <2>2. k \in Nat /\ m.token \in Seq(Octet) /\ IsPart(m.token, s, 4, k)
    BY <1>1, <1>2, <1>6
  <2> QED
    BY <2>1, <2>2, OnePart, Zenon
<1>9. RestIn(s, k) = rest
  BY <1>3, <1>6, <1>7, OnePart, Zenon DEF CutUp
<1>10. s[1] \div 64 = 1 /\ (s[1] \div 16) % 4 = m.type /\ s[1] % 16 = k /\ k = Len(m.token)
  BY <1>1, <1>6, Zenon DEF StartIs, HeadByte
<1>11. s[2] = m.code /\ readUInt16BE(s, 2) = Low(m.messageId)
  BY <1>1, <1>6, <1>7, Zenon DEF StartIs, CutUp
<1>12. ~(4 + k + d < 4) /\ ~(4 + k + d < 4 + k)
  BY <1>1, <1>3
<1> QED
  BY <1>2, <1>5, <1>6, <1>8, <1>9, <1>10, <1>11, <1>12, Zenon DEF IsHead, TokenIn, RestIn

\* s is the head of m and the rest.
IsFound(s, m, rest) ==
  /\ HasHead(m) /\ rest \in Seq(Octet) /\ s = Preamble(m) \o rest

\* encode writes the head that decode read.
LEMMA HeadFound ==
  ASSUME NEW s \in Seq(Octet), NEW k, k = s[1] % 16, s[1] \div 64 = 1, ~(k > 8),
         ~(Len(s) < 4), ~(Len(s) < 4 + k), NEW m, m.type = (s[1] \div 16) % 4, m.code = s[2],
         m.messageId = readUInt16BE(s, 2), m.token = SubSeq(s, 5, 4 + k)
  PROVE  IsFound(s, m, SubSeq(s, 5 + k, Len(s)))
<1>1. PICK n \in Nat : n = Len(s) /\ ~(n < 4) /\ ~(n < 4 + k)
  BY LenProperties
<1>2. s[1] \in Octet
  <2>1. 1 \in 1..n
    BY <1>1
  <2> QED
    BY <1>1, <2>1, ElementOfSeq
<1>3. PICK h \in Octet : h = s[1]
  BY <1>2
<1>4. /\ m.type \in 0..3 /\ k \in Nat /\ h = 64 + m.type * 16 + k /\ m.type % 4 = m.type
  BY <1>3, InFirstByte, Zenon
<1>5. PICK d \in Nat : n = 4 + k + d
  <2>1. n - (4 + k) \in Nat /\ n = 4 + k + (n - (4 + k))
    BY <1>1, <1>4
  <2> QED
    BY <2>1
<1>6. CutUp(s, k, d)
  BY <1>1, <1>4, <1>5, CuttingUp, Zenon
<1>7. PICK i, j, c, rest : /\ i = s[3] /\ j = s[4] /\ c = s[2]
                          /\ rest = SubSeq(s, 5 + k, Len(s))
  OBVIOUS
<1>8. /\ i \in Octet /\ j \in Octet /\ c \in Octet /\ m.messageId = i * 256 + j
      /\ rest \in Seq(Octet) /\ IsPart(rest, s, 4 + k, d)
      /\ m.token \in Seq(Octet) /\ IsPart(m.token, s, 4, k)
  BY <1>6, <1>7 DEF CutUp, TokenIn, RestIn
<1>9. UInt16(Low(m.messageId)) = <<i, j>> /\ m.messageId \in Nat
  <2>1. UInt16(Low(i * 256 + j)) = <<i, j>> /\ i * 256 + j \in Nat
    BY <1>8, BytesTwo, Zenon
  <2> QED
    BY <1>8, <2>1
<1>10. Len(m.token) = k /\ Len(rest) = d
  BY <1>8 DEF IsPart
<1>11. HasHead(m)
  BY <1>4, <1>7, <1>8, <1>9, <1>10, Zenon DEF HasHead
<1>12. Start(m) = <<h, c>>
  <2>1. c % 256 = c
    BY <1>8, OctetRest, Zenon
  <2> QED
    BY <1>4, <1>7, <1>10, <2>1, Zenon DEF Start
<1>13. PICK r : r = Preamble(m) \o rest
  OBVIOUS
<1>14. Joins(r, h, c, i, j, m.token, k, rest, d)
  <2>1. r = <<h, c>> \o <<i, j>> \o m.token \o rest
    BY <1>9, <1>12, <1>13 DEF Preamble
  <2> QED
    BY <1>10, <2>1, Zenon DEF Joins
<1>15. r \in Seq(Octet) /\ IsMessage(r, h, c, i, j, m.token, k, rest, d)
  BY <1>8, <1>14, MessageLaid, Zenon
<1>16. IsMessage(s, h, c, i, j, m.token, k, rest, d)
  BY <1>1, <1>3, <1>5, <1>7, <1>8, Zenon DEF IsMessage
<1>17. r = s
  BY <1>4, <1>15, <1>16, OneMessage, Zenon
<1> QED
  BY <1>7, <1>8, <1>11, <1>13, <1>17, Zenon DEF IsFound

-----------------------------------------------------------------------------
(* Codec: what arrives, encoded again.                                      *)

\* a is the beginning of a \o b.
Begins(a, b) ==
  /\ SubSeq(a \o b, 1, Len(a)) = a /\ SubSeq(a, 1, Len(a)) = a
  /\ Len(a \o b) = Len(a) + Len(b) /\ Len(a) \in Nat /\ Len(b) \in Nat
  /\ b # <<>> => (a \o b)[Len(a) + 1] = b[1]

\* Two sequences that are joined begin with the first.
LEMMA Beginning ==
  ASSUME NEW S, NEW a \in Seq(S), NEW b \in Seq(S)
  PROVE  Begins(a, b)
<1>1. PICK n, m, c : n = Len(a) /\ m = Len(b) /\ c = a \o b
  OBVIOUS
<1>2. c \in Seq(S) /\ n \in Nat /\ m \in Nat /\ IsJoin(c, a, n, b, m)
  BY <1>1, Join, Zenon
<1>3. ASSUME NEW s \in Seq(S), \A i \in 1..n : s[i] = a[i] PROVE SubSeq(s, 1, n) = a
  <2>1. PICK k : k = 1
    OBVIOUS
  <2>2. k \in Int /\ n \in Int /\ \A i \in k..n : s[i] \in S
    BY <1>1, <1>2, <1>3, <2>1, ElementOfSeq
  <2>3. PICK t : t = SubSeq(s, k, n)
    OBVIOUS
  <2>4. /\ t \in Seq(S) /\ Len(t) = IF k <= n THEN n - k + 1 ELSE 0
        /\ \A i \in 1..(n - k + 1) : t[i] = s[k + i - 1]
    BY <2>2, <2>3, SubSeqProperties
  <2>5. /\ (IF k <= n THEN n - k + 1 ELSE 0) = n /\ n - k + 1 = n
        /\ \A i \in 1..n : k + i - 1 = i
    BY <1>2, <2>1
  <2>6. Len(t) = n /\ \A i \in 1..n : t[i] = a[i]
    BY <1>3, <2>4, <2>5, Zenon
  <2> QED
    BY <1>1, <2>1, <2>3, <2>4, <2>6, SeqEqual
<1>4. SubSeq(a, 1, n) = a
  BY <1>3, Zenon
<1>5. SubSeq(c, 1, n) = a
  <2>1. \A i \in 1..n : c[i] = a[i]
    BY <1>2, Zenon DEF IsJoin
  <2> QED
    BY <1>2, <1>3, <2>1, Zenon
<1>6. Len(c) = n + m
  BY <1>2, Zenon DEF IsJoin
<1>7. b # <<>> => c[n + 1] = b[1]
  <2>1. SUFFICES ASSUME b # <<>> PROVE c[n + 1] = b[1]
    OBVIOUS
  <2>2. m # 0
    BY <1>1, <2>1, EmptySeq
  <2>3. 1 \in 1..m
    BY <1>2, <2>2
  <2> QED
    BY <1>2, <2>3, Zenon DEF IsJoin
<1> QED
  BY <1>1, <1>2, <1>4, <1>5, <1>6, <1>7, Zenon DEF Begins

\* The last element of a sequence, and those before it.
LEMMA FrontAndLast ==
  ASSUME NEW S, NEW a \in Seq(S), NEW o \in S
  PROVE  Front(a \o <<o>>) = a /\ Last(a \o <<o>>) = o
<1>1. PICK b \in Seq(S) : b = <<o>> /\ Len(b) = 1 /\ b[1] = o /\ b # <<>>
  <2>1. <<o>> \in Seq(S) /\ Len(<<o>>) = 1 /\ <<o>>[1] = o /\ <<o>> # <<>>
    OBVIOUS
  <2> QED
    BY <2>1
<1>2. PICK n, c : n = Len(a) /\ c = a \o b
  OBVIOUS
<1>3. /\ SubSeq(c, 1, n) = a /\ Len(c) = n + 1 /\ n \in Nat /\ c[n + 1] = o
  BY <1>1, <1>2, Beginning, Zenon DEF Begins
<1>4. Len(c) - 1 = n
  BY <1>3
<1> QED
  BY <1>1, <1>2, <1>3, <1>4, Zenon DEF Front, Last

\* The head of m and what follows it, in two parts.
IsGrouped(m, e, x) ==
  /\ Preamble(m) \o e \in Seq(Octet)
  /\ (Preamble(m) \o e) \o x = Preamble(m) \o (e \o x)

\* The head of a message can be grouped with either.
LEMMA Grouped ==
  ASSUME NEW m, HasHead(m), NEW e \in Seq(Octet), NEW x \in Seq(Octet)
  PROVE  IsGrouped(m, e, x)
<1>1. PICK h, c, i, j : StartIs(m, h, c, i, j, Len(m.token))
  BY StartOf, Zenon
<1>2. /\ h \in Octet /\ c \in Octet /\ i \in Octet /\ j \in Octet /\ m.token \in Seq(Octet)
      /\ Start(m) = <<h, c>> /\ UInt16(Low(m.messageId)) = <<i, j>>
  BY <1>1, Zenon DEF StartIs, HeadByte, HasHead
<1>3. <<h, c>> \in Seq(Octet) /\ <<i, j>> \in Seq(Octet)
  BY <1>2
<1>4. Preamble(m) = <<h, c>> \o <<i, j>> \o m.token
  BY <1>2, Zenon DEF Preamble
<1>5. Preamble(m) \in Seq(Octet)
  <2>1. <<h, c>> \o <<i, j>> \in Seq(Octet)
    BY <1>3, ConcatProperties, Zenon
  <2> QED
    BY <1>2, <1>4, <2>1, ConcatProperties, Zenon
<1>6. PICK p \in Seq(Octet) : p = Preamble(m)
  BY <1>5
<1>7. p \o e \in Seq(Octet) /\ IsRegrouped(p, e, x)
  BY ConcatProperties, Regrouped, Zenon
<1> QED
  BY <1>6, <1>7, Zenon DEF IsGrouped, IsRegrouped

\* A message that decode returns although the byte that extends the length of its last
\* option is missing has an empty option there, and no payload; the message before that
\* option is what the buffer begins with, and three bytes at most come after it.
CutShort ==
  Arrived /\ decoded.ok /\ decoded.ranOff =>
    LET m == decoded.msg
        whole == encode([m EXCEPT !.options = Front(@)]).bytes
    IN  /\ m.payload = <<>> /\ Last(m.options).value = <<>>
        /\ IsPrefix(whole, buffer)
        /\ Len(buffer) - Len(whole) \in 1..3 /\ buffer[Len(whole) + 1] % 16 = 13

\* What is proved of the bytes s, decoded to m: they are its encoding, or, where the
\* byte that extends the last option's length is missing, begin with that of the rest.
IsExact(s, m, ranOff) ==
  LET again == encode(m).bytes
      whole == encode([m EXCEPT !.options = Front(@)]).bytes
  IN  IF ~ranOff THEN s \in {again, again \o <<Marker>>}
      ELSE /\ m.payload = <<>> /\ Last(m.options).value = <<>>
           /\ IsPrefix(whole, s)
           /\ Len(s) - Len(whole) \in 1..3 /\ s[Len(whole) + 1] % 16 = 13

\* What encode writes for options that fit.
LEMMA EncodeWrites ==
  ASSUME NEW m, HasHead(m), Fits(m.options, 0)
  PROVE  /\ encode(m).ok
         /\ encode(m).bytes = (Preamble(m) \o EncodeOptions[m.options][0]) \o Trail(m.payload)
<1>1. PICK os : os = m.options
  OBVIOUS
<1>2. os \in Seq(Option) /\ Ascending(os)
  BY <1>1, FitsWhen, Zenon DEF Fits
<1>3. Sorted(os) = os
  BY <1>2, SortedSame, Zenon
<1>4. encode(m).ok /\ encode(m).bytes = Encoded(m, os)
  BY <1>1, <1>2, <1>3, EncodeFits, Zenon DEF HasHead
<1> QED
  BY <1>1, <1>4, Zenon DEF Encoded, Preamble

\* The bytes are those of the message, or there is a bare marker.
LEMMA WholeExact ==
  ASSUME NEW s, NEW m, NEW rest, IsFound(s, m, rest),
         Exact(rest, 0, m.options, m.payload)
  PROVE  IsExact(s, m, FALSE)
<1>1. PICK e \in Seq(Octet) : e = EncodeOptions[m.options][0]
  BY AllBack, Zenon DEF Exact, ReadsBack
<1>2. HasHead(m) /\ s = Preamble(m) \o rest /\ Fits(m.options, 0) /\ m.payload \in Seq(Octet)
  BY Zenon DEF IsFound, Exact
<1>3. PICK again : again = encode(m).bytes /\ again = (Preamble(m) \o e) \o Trail(m.payload)
  BY <1>1, <1>2, EncodeWrites, Zenon
<1>4. <<Marker>> \in Seq(Octet) /\ Trail(m.payload) \in Seq(Octet)
  <2>1. Marker \in Octet
    BY OctetIs DEF Marker
  <2>2. <<Marker>> \in Seq(Octet)
    BY <2>1
  <2>3. <<>> \in Seq(Octet) /\ <<Marker>> \o m.payload \in Seq(Octet)
    BY <1>2, <2>2, ConcatProperties, EmptySeq
  <2> QED
    BY <2>2, <2>3, Zenon DEF Trail
<1>5. CASE rest = e \o Trail(m.payload)
  <2>1. IsGrouped(m, e, Trail(m.payload))
    BY <1>2, <1>4, Grouped, Zenon
  <2>2. s = again
    BY <1>2, <1>3, <1>5, <2>1, Zenon DEF IsGrouped
  <2> QED
    BY <1>3, <2>2, Zenon DEF IsExact
<1>6. CASE m.payload = <<>> /\ rest = e \o <<Marker>>
  <2>1. IsGrouped(m, e, <<Marker>>)
    BY <1>2, <1>4, Grouped, Zenon
  <2>2. (Preamble(m) \o e) \o <<>> = Preamble(m) \o e
    BY <2>1, ConcatEmptySeq, Zenon DEF IsGrouped
  <2>3. Trail(m.payload) = <<>>
    BY <1>6, Zenon DEF Trail
  <2>4. s = again \o <<Marker>>
    BY <1>2, <1>3, <1>6, <2>1, <2>2, <2>3, Zenon DEF IsGrouped
  <2> QED
    BY <1>3, <2>4, Zenon DEF IsExact
<1> QED
  BY <1>1, <1>5, <1>6, Zenon DEF Exact

\* The bytes are cut off behind those of the message without its last option.
LEMMA PartExact ==
  ASSUME NEW s, NEW m, NEW rest, IsFound(s, m, rest), NEW w,
         w = [m EXCEPT !.options = Front(@)], w.options = Front(m.options),
         w.payload = m.payload, HasHead(w), Preamble(w) = Preamble(m),
         TruncatedRead(rest, 0, m.options, m.payload)
  PROVE  IsExact(s, m, TRUE)
<1>1. PICK front, u, o :
        /\ o \in ReadOption /\ Fits(front, 0) /\ m.options = front \o <<o>> /\ o.value = <<>>
        /\ IsCut(u) /\ rest = EncodeOptions[front][0] \o u /\ m.payload = <<>>
  BY Zenon DEF TruncatedRead
<1>2. Front(m.options) = front /\ Last(m.options) = o
  <2>1. Option \subseteq ReadOption
    BY DEF Option, ReadOption
  <2>2. front \in Seq(Option)
    BY <1>1 DEF Fits
  <2>3. front \in Seq(ReadOption)
    BY <2>1, <2>2, SeqMonotonic
  <2>4. o \in ReadOption /\ m.options = front \o <<o>>
    BY <1>1
  <2>5. Front(front \o <<o>>) = front /\ Last(front \o <<o>>) = o
    BY <2>3, <2>4, FrontAndLast, Zenon
  <2> QED
    BY <2>4, <2>5, Zenon
<1>3. PICK e \in Seq(Octet) : e = EncodeOptions[front][0]
  BY <1>1, AllBack, Zenon DEF ReadsBack
<1>4. u \in Seq(Octet) /\ Len(u) \in 1..3 /\ u[1] % 16 = 13 /\ u # <<>>
  BY <1>1, EmptySeq DEF IsCut
<1>5. HasHead(m) /\ s = Preamble(m) \o rest
  BY Zenon DEF IsFound
<1>6. PICK whole \in Seq(Octet) : whole = Preamble(m) \o e /\ s = whole \o u
  <2>1. IsGrouped(m, e, u)
    BY <1>4, <1>5, Grouped, Zenon
  <2> QED
    BY <1>1, <1>3, <1>5, <2>1, Zenon DEF IsGrouped
<1>7. encode(w).bytes = whole
  <2>1. encode(w).bytes = (Preamble(w) \o EncodeOptions[w.options][0]) \o Trail(w.payload)
    BY <1>1, <1>2, EncodeWrites, Zenon
  <2>2. Trail(w.payload) = <<>>
    BY <1>1, Zenon DEF Trail
  <2>3. whole \o <<>> = whole
    BY ConcatEmptySeq
  <2> QED
    BY <1>2, <1>3, <1>6, <2>1, <2>2, <2>3, Zenon
<1>8. /\ SubSeq(s, 1, Len(whole)) = SubSeq(whole, 1, Len(whole))
      /\ Len(s) = Len(whole) + Len(u) /\ Len(whole) \in Nat /\ Len(u) \in Nat
      /\ s[Len(whole) + 1] = u[1]
  BY <1>4, <1>6, Beginning, Zenon DEF Begins
<1>9. \A x, y \in Nat : x <= x + y /\ (x + y) - x = y
  OBVIOUS
<1>10. Len(whole) <= Len(s) /\ Len(s) - Len(whole) = Len(u)
  BY <1>8, <1>9, Zenon
<1>11. IsPrefix(whole, s)
  BY <1>8, <1>10, Zenon DEF IsPrefix
<1> QED
  BY <1>1, <1>2, <1>4, <1>7, <1>8, <1>10, <1>11, Zenon DEF IsExact

\* Whatever decode accepts, is exact.
LEMMA DecodedExact ==
  ASSUME NEW s \in Seq(Octet), decode(s).ok
  PROVE  IsExact(s, decode(s).msg, decode(s).ranOff)
<1>1. Accepts(s) /\ decode(s).ranOff = Parsed(s).ranOff /\ decode(s).msg = Message(s)
  BY DecodeGives, Zenon
<1>2. PICK k : k = s[1] % 16
  OBVIOUS
<1>3. PICK rest : rest = SubSeq(s, 5 + k, Len(s))
  OBVIOUS
<1>4. PICK m : m = Message(s)
  OBVIOUS
<1>5. /\ m = [type |-> m.type, code |-> m.code, messageId |-> m.messageId, token |-> m.token,
              options |-> m.options, payload |-> m.payload]
      /\ m.type = (s[1] \div 16) % 4 /\ m.code = s[2] /\ m.messageId = readUInt16BE(s, 2)
      /\ m.token = SubSeq(s, 5, 4 + k)
      /\ m.options = Parsed(s).options /\ m.payload = Parsed(s).payload
  BY <1>2, <1>4 DEF Message
<1>6. IsFound(s, m, rest)
  <2>1. /\ s[1] \div 64 = 1 /\ ~(k > 8) /\ ~(Len(s) < 4) /\ ~(Len(s) < 4 + k)
    BY <1>1, <1>2, Zenon DEF Accepts
  <2> QED
    BY <1>2, <1>3, <1>5, <2>1, HeadFound, Zenon
<1>7. rest \in Seq(Octet) /\ HasHead(m)
  BY <1>6, Zenon DEF IsFound
<1>8. PICK r : r = Parsed(s) /\ r = DecodeOptions[rest][0] /\ r.ok
  BY <1>1, <1>2, <1>3, Zenon DEF Parsed, Accepts
<1>9. Explained(rest, 0, r)
  <2>1. 0 \in Nat
    OBVIOUS
  <2> QED
    BY <1>7, <1>8, <2>1, AllExplained, Zenon
<1>10. r # Throws
  <2>1. ~Throws.ok
    BY DEF Throws
  <2> QED
    BY <1>8, <2>1, Zenon
<1>11. ASSUME NEW os, NEW p, r = Result(os, p, FALSE), Exact(rest, 0, os, p)
       PROVE  IsExact(s, m, r.ranOff)
  <2>1. r.options = os /\ r.payload = p /\ r.ranOff = FALSE
    BY <1>11 DEF Result
  <2>2. m.options = os /\ m.payload = p
    BY <1>5, <1>8, <2>1, Zenon
  <2> QED
    BY <1>6, <1>11, <2>1, <2>2, WholeExact, Zenon
<1>12. ASSUME NEW os, NEW p, r = Result(os, p, TRUE), TruncatedRead(rest, 0, os, p)
       PROVE  IsExact(s, m, r.ranOff)
  <2>1. r.options = os /\ r.payload = p /\ r.ranOff = TRUE
    BY <1>12 DEF Result
  <2>2. m.options = os /\ m.payload = p
    BY <1>5, <1>8, <2>1, Zenon
  <2>3. PICK w : w = [m EXCEPT !.options = Front(@)]
    OBVIOUS
  <2>4. /\ w.options = Front(m.options) /\ w.payload = m.payload /\ w.type = m.type
        /\ w.code = m.code /\ w.messageId = m.messageId /\ w.token = m.token
    BY <1>5, <2>3
  <2>5. HasHead(w) /\ Preamble(w) = Preamble(m)
    BY <1>7, <2>4, Zenon DEF HasHead, Preamble, Start
  <2> QED
    BY <1>6, <1>12, <2>1, <2>2, <2>3, <2>4, <2>5, PartExact, Zenon
<1> QED
  BY <1>1, <1>4, <1>8, <1>9, <1>10, <1>11, <1>12, Zenon DEF Explained

-----------------------------------------------------------------------------
(* Codec: what is sent, decoded again.                                      *)

\* What ends the options can be read back.
Ends(p) ==
  /\ Trail(p) \in Seq(Octet) /\ Stops(Trail(p))
  /\ SubSeq(Trail(p), 2, Len(Trail(p))) = p

\* The payload behind its marker, or nothing, can be.
LEMMA TrailEnds ==
  ASSUME NEW p \in Seq(Octet)
  PROVE  Ends(p)
<1>1. CASE p = <<>>
  <2>1. Trail(p) = <<>> /\ <<>> \in Seq(Octet)
    BY <1>1, EmptySeq DEF Trail
  <2>2. Len(<<>>) = 0 /\ SubSeq(<<>>, 2, 0) = <<>>
    OBVIOUS
  <2> QED
    BY <1>1, <2>1, <2>2, Zenon DEF Ends, Stops
<1>2. CASE p # <<>>
  <2>1. Marker \in Octet
    BY OctetIs DEF Marker
  <2>2. PICK s : s = <<Marker>> \o p /\ s = Trail(p)
    BY <1>2, Zenon DEF Trail
  <2>3. s \in Seq(Octet) /\ s # <<>> /\ s[1] = Marker /\ Tail(s) = p
    BY <2>1, <2>2, Prepended, Zenon DEF Prepends
  <2>4. SubSeq(s, 2, Len(s)) = Tail(s)
    BY <2>3, TailIsRest, Zenon
  <2> QED
    BY <2>2, <2>3, <2>4, Zenon DEF Ends, Stops
<1> QED
  BY <1>1, <1>2

\* m is made of what send() is given and the table has.
Sendable(m) ==
  /\ m.type \in 0..3 /\ m.code \in Octet /\ m.messageId \in Nat /\ m.token \in Seq(Octet)
  /\ m.payload \in Seq(Octet) /\ m.options \in Seq(Option)

\* s is decoded to m.
IsReceived(s, m) ==
  /\ s \in Seq(Octet) /\ decode(s).ok /\ ~decode(s).ranOff
  /\ decode(s).msg = [type |-> m.type, code |-> m.code, messageId |-> Low(m.messageId),
                      token |-> m.token, options |-> Sorted(m.options), payload |-> m.payload]

\* decode returns what send() built, with its options sorted.
LEMMA SentReceived ==
  ASSUME NEW m, Sendable(m), encode(m).ok
  PROVE  IsReceived(encode(m).bytes, m)
<1>1. PICK os, p, s : os = Sorted(m.options) /\ p = m.payload /\ s = encode(m).bytes
  OBVIOUS
<1>2. Fits(os, 0) /\ ~(Len(m.token) > 8) /\ s = Encoded(m, os)
  BY <1>1, EncodeFits, Zenon DEF Sendable
<1>3. HasHead(m) /\ p \in Seq(Octet)
  BY <1>1, <1>2, Zenon DEF HasHead, Sendable
<1>4. PICK e \in Seq(Octet) : e = EncodeOptions[os][0]
  BY <1>2, AllBack, Zenon DEF ReadsBack
<1>5. PICK u \in Seq(Octet) : u = Trail(p) /\ Stops(u) /\ SubSeq(u, 2, Len(u)) = p
  BY <1>3, TrailEnds, Zenon DEF Ends
<1>6. PICK rest \in Seq(Octet) : rest = e \o u
  BY ConcatProperties
<1>7. s = Preamble(m) \o rest
  <2>1. s = (Preamble(m) \o e) \o u
    BY <1>1, <1>2, <1>4, <1>5, Zenon DEF Encoded, Preamble
  <2>2. IsGrouped(m, e, u)
    BY <1>3, Grouped, Zenon
  <2> QED
    BY <1>6, <2>1, <2>2, Zenon DEF IsGrouped
<1>8. IsHead(s, m, rest)
  BY <1>3, <1>7, HeadBack, Zenon
<1>9. DecodeOptions[rest][0] = Result(os, p, FALSE)
  BY <1>2, <1>4, <1>5, <1>6, AllBack, Zenon DEF ReadsBack
<1>10. Parsed(s) = Result(os, p, FALSE)
  BY <1>8, <1>9, Zenon DEF Parsed, IsHead
<1>11. Parsed(s).ok /\ Parsed(s).options = os /\ Parsed(s).payload = p /\ ~Parsed(s).ranOff
  BY <1>10 DEF Result
<1>12. Accepts(s)
  BY <1>8, <1>11, Zenon DEF Accepts, IsHead
<1>13. Message(s) = [type |-> m.type, code |-> m.code, messageId |-> Low(m.messageId),
                     token |-> m.token, options |-> os, payload |-> p]
  BY <1>8, <1>11, Zenon DEF Message, IsHead
<1>14. decode(s).ok /\ ~decode(s).ranOff /\ decode(s).msg = Message(s)
  BY <1>11, <1>12, DecodeGives, Zenon
<1>15. s \in Seq(Octet)
  BY <1>8, Zenon DEF IsHead
<1> QED
  BY <1>1, <1>13, <1>14, <1>15, Zenon DEF IsReceived

-----------------------------------------------------------------------------
(* Codec: the table of the messages, and classify.                          *)

\* The Uri-Paths among the options, and the first of them.
Paths(os) == {i \in 1..Len(os) : os[i].number = UriPath}
FirstPath(os) == IF Paths(os) # {} THEN Min(Paths(os)) ELSE 0

\* The messages of the table that a message may be.
Found(m) ==
  {n \in Names : /\ FirstPath(m.options) # 0
                 /\ Matches(Messages[n], m.code, m.options[FirstPath(m.options)].value)}

\* classify, in these words.
LEMMA ClassifyIs ==
  ASSUME NEW m
  PROVE  classify(m) = IF m.code = Empty /\ m.type = CON THEN "Ping"
                       ELSE IF Found(m) = {} THEN Null ELSE CHOOSE n \in Found(m) : TRUE
BY Zenon DEF classify, SelectInSeq, Found, FirstPath, Paths

\* A row of the table.
Row(n, key, code, type, uri) ==
  /\ n = key /\ Messages[n].code = code /\ Messages[n].type = type /\ Messages[n].uri = uri

\* The table has these.
LEMMA Rows ==
  ASSUME NEW n \in Names
  PROVE  \/ Row(n, "Hello", 2, 1, 104)         \/ Row(n, "KeyChange", 3, 0, 107)
         \/ Row(n, "UpdateBegin", 2, 0, 117)   \/ Row(n, "Chunk", 2, 0, 99)
         \/ Row(n, "UpdateDone", 3, 0, 117)    \/ Row(n, "FunctionCall", 2, 0, 102)
         \/ Row(n, "VariableRequest", 1, 0, 118)
         \/ Row(n, "PrivateEvent", 2, 1, 69)   \/ Row(n, "PublicEvent", 2, 1, 101)
         \/ Row(n, "SynergyProtocol", 2, 1, 109)
         \/ Row(n, "Attribute", 2, 1, 97)      \/ Row(n, "Describe", 1, 0, 100)
         \/ Row(n, "GetTime", 1, 0, 116)       \/ Row(n, "RaiseYourHand", 3, 0, 115)
         \/ Row(n, "Ping", 0, 0, Null)         \/ Row(n, "GetTimeReturn", 69, 2, Null)
<1>1. n \in DOMAIN Messages
  BY DEF Names
<1>2. n \in {"Hello", "KeyChange", "UpdateBegin", "Chunk", "UpdateDone", "FunctionCall",
             "VariableRequest", "PrivateEvent", "PublicEvent", "SynergyProtocol", "Attribute",
             "Describe", "GetTime", "RaiseYourHand", "Ping", "GetTimeReturn"}
  BY <1>1 DEF Messages
<1> QED
  BY <1>2 DEF Row, Messages, Spec, GET, POST, PUT, Empty, Content, CON, NON, ACK

\* Null is no octet.
LEMMA NullIs == Null \notin Octet /\ \A x \in Nat : x <= 255 => x # Null
<1>1. Null \notin Octet
  BY CodecAssumption, Zenon
<1> QED
  BY <1>1, OctetIs, Zenon

\* What the table has.
LEMMA TableIs ==
  ASSUME NEW n \in Names
  PROVE  /\ Messages[n].type \in 0..3 /\ Messages[n].code \in Octet
         /\ Messages[n].uri # Null => Messages[n].uri \in Octet /\ Messages[n].code # Empty
         /\ Messages[n].uri = Null => n \in {"Ping", "GetTimeReturn"}
         /\ n = "Ping" => Messages[n].code = Empty /\ Messages[n].type = CON
         /\ n = "GetTimeReturn" => Messages[n].uri = Null /\ Messages[n].code # Empty
<1>1. \A x \in Nat : x <= 255 => x \in Octet /\ x # Null
  BY NullIs, OctetIs, Zenon
<1> QED
  BY <1>1, Rows DEF Row, Empty, CON

\* No message with a uri has the code of one without.
LEMMA RowOfNoUri ==
  ASSUME NEW a \in Names, Messages[a].uri # Null, NEW n \in {"Ping", "GetTimeReturn"}
  PROVE  Messages[a].code # Messages[n].code
<1>1. Messages[a].code \in {1, 2, 3}
  BY Rows DEF Row
<1>2. n \in Names
  BY DEF Names, Messages
<1>3. Messages[n].code \in {0, 69}
  BY <1>2, Rows DEF Row
<1> QED BY <1>1, <1>3

\* No two messages have the code and the uri in common.
LEMMA TableDistinct ==
  ASSUME NEW a \in Names, NEW b \in Names, Messages[a].uri # Null,
         Messages[a].uri = Messages[b].uri, Messages[a].code = Messages[b].code
  PROVE  a = b
<1>1. \A x \in Nat : x <= 255 => x # Null
  BY NullIs, Zenon
<1>2. Messages[b].uri # Null
  OBVIOUS
<1> QED
  BY <1>1, <1>2, Rows DEF Row

\* The first Uri-Path is the least of them.
LEMMA FirstPathIs ==
  ASSUME NEW os, NEW i \in Paths(os)
  PROVE  FirstPath(os) \in Paths(os) /\ \A j \in Paths(os) : FirstPath(os) <= j
<1>1. Paths(os) \subseteq Nat
  BY DEF Paths
<1>2. \E k \in Paths(os) : \A j \in Paths(os) : k <= j
  BY <1>1, Least, Zenon
<1>3. FirstPath(os) = CHOOSE k \in Paths(os) : \A j \in Paths(os) : k <= j
  BY Zenon DEF FirstPath, Min
<1> QED
  BY <1>2, <1>3, Zenon

\* A Uri-Path that is given before the other options is the first, sorted.
LEMMA SortedFirstPath ==
  ASSUME NEW o \in Option, NEW os \in Seq(Option), os # <<>>, os[1] = o, o.number = UriPath
  PROVE  FirstPath(Sorted(os)) # 0 /\ Sorted(os)[FirstPath(Sorted(os))] = o
<1>1. PICK n, taken : n = Len(os) /\ taken = Sorted(os) /\ n \in Nat /\ n >= 1
  BY LenProperties, EmptySeq
<1>2. taken \in Seq(Option) /\ Len(taken) = n
  BY <1>1, SortedIs, Zenon DEF SortedBy
<1>3. PICK p \in Bijection(1..n, 1..n) :
        /\ \A i \in 1..n : taken[i] = os[p[i]]
        /\ \A i, j \in 1..n : i < j /\ taken[i].number = taken[j].number => p[i] < p[j]
  <2>1. Rearranged(taken, os)
    BY <1>1, SortedRearranges, Zenon
  <2> QED
    BY <1>1, <2>1 DEF Rearranged
<1>4. p \in [1..n -> 1..n] /\ \A j \in 1..n : \E i \in 1..n : p[i] = j
  BY <1>3 DEF Bijection, Injection, Surjection
<1>5. PICK i \in 1..n : p[i] = 1
  <2>1. 1 \in 1..n
    BY <1>1
  <2> QED
    BY <1>4, <2>1
<1>6. taken[i] = o
  BY <1>3, <1>5, Zenon
<1>7. i \in Paths(taken)
  BY <1>2, <1>6 DEF Paths
<1>8. PICK f : f = FirstPath(taken) /\ f \in Paths(taken) /\ f <= i
  BY <1>7, FirstPathIs, Zenon
<1>9. f \in 1..n /\ taken[f].number = UriPath
  BY <1>2, <1>8 DEF Paths
<1>10. f = i
  <2>1. ASSUME f < i PROVE FALSE
    <3>1. p[f] < 1
      BY <1>3, <1>5, <1>6, <1>9, <2>1, Zenon
    <3>2. p[f] \in 1..n
      BY <1>4, <1>9
    <3> QED
      BY <3>1, <3>2
  <2> QED
    BY <1>8, <1>9, <2>1
<1>11. i # 0
  OBVIOUS
<1> QED
  BY <1>1, <1>6, <1>8, <1>10, <1>11, Zenon

\* What send() builds of name n.
IsBuilt(m, n, os) ==
  /\ m.code = Messages[n].code
  /\ m.options = (IF Messages[n].uri = Null THEN <<>>
                  ELSE <<[number |-> UriPath, value |-> <<Messages[n].uri>>]>>) \o os

\* A Uri-Path of the table is an option.
LEMMA PathIs ==
  ASSUME NEW x \in Octet, NEW o, o = [number |-> UriPath, value |-> <<x>>]
  PROVE  o \in Option /\ o.number = UriPath /\ o.value = <<x>>
<1>1. UriPath \in Nat /\ <<x>> \in Seq(Octet)
  BY DEF UriPath
<1> QED
  BY <1>1 DEF Option

\* What send() builds has options.
LEMMA BuiltOptions ==
  ASSUME NEW n \in Names, NEW os \in Seq(Option), NEW m, IsBuilt(m, n, os)
  PROVE  m.options \in Seq(Option)
<1>1. CASE Messages[n].uri = Null
  <2>1. m.options = <<>> \o os
    BY <1>1, Zenon DEF IsBuilt
  <2> QED
    BY <2>1, ConcatEmptySeq
<1>2. CASE Messages[n].uri # Null
  <2>1. PICK o : o = [number |-> UriPath, value |-> <<Messages[n].uri>>]
    OBVIOUS
  <2>2. o \in Option
    BY <1>2, <2>1, TableIs, PathIs, Zenon
  <2>3. m.options = <<o>> \o os
    BY <1>2, <2>1, Zenon DEF IsBuilt
  <2> QED
    BY <2>2, <2>3, Prepended, Zenon
<1> QED
  BY <1>1, <1>2

\* classify finds the name again, if there is a uri or it is a confirmable Ping.
LEMMA Recognised ==
  ASSUME NEW n \in Names, NEW os \in Seq(Option), NEW m, IsBuilt(m, n, os),
         NEW taken, taken.code = m.code, taken.type = m.type, taken.options = Sorted(m.options)
  PROVE  classify(taken) = IF n = "GetTimeReturn" \/ (n = "Ping" /\ taken.type # CON)
                           THEN Null ELSE n
<1>1. taken.code = Messages[n].code
  BY Zenon DEF IsBuilt
<1>2. CASE Messages[n].uri # Null
  <2>1. taken.code # Empty /\ Messages[n].uri \in Octet /\ n \notin {"GetTimeReturn", "Ping"}
    BY <1>1, <1>2, TableIs
  <2>2. PICK o : o = [number |-> UriPath, value |-> <<Messages[n].uri>>]
    OBVIOUS
  <2>3. o \in Option /\ o.number = UriPath /\ o.value = <<Messages[n].uri>>
    BY <2>1, <2>2, PathIs, Zenon
  <2>4. PICK given : given = m.options /\ given = <<o>> \o os
    BY <1>2, <2>2, Zenon DEF IsBuilt
  <2>5. given \in Seq(Option) /\ given # <<>> /\ given[1] = o
    <3>1. given \in Seq(Option) /\ Prepends(given, o, os)
      BY <2>3, <2>4, Prepended, Zenon
    <3> QED
      BY <3>1, Zenon DEF Prepends
  <2>6. PICK f : /\ f = FirstPath(taken.options) /\ f # 0
                 /\ taken.options[f].value = <<Messages[n].uri>>
    <3>1. FirstPath(Sorted(given)) # 0 /\ Sorted(given)[FirstPath(Sorted(given))] = o
      <4>1. o \in Option /\ o.number = UriPath
        BY <2>3
      <4> QED
        BY <2>5, <4>1, SortedFirstPath, Zenon
    <3> QED
      BY <2>3, <2>4, <3>1
  <2>7. ASSUME NEW a \in Names
        PROVE  a \in Found(taken) <=> Messages[a].uri = Messages[n].uri
                                    /\ Messages[a].code = Messages[n].code
    <3>1. <<Messages[a].uri>> = <<Messages[n].uri>> <=> Messages[a].uri = Messages[n].uri
      OBVIOUS
    <3> QED
      BY <1>1, <2>6, <3>1, Zenon DEF Found, Matches
  <2>8. \A a : a \in Found(taken) <=> a = n
    <3>1. \A a : a \in Found(taken) => a \in Names
      BY Zenon DEF Found
    <3> QED
      BY <1>2, <2>7, <3>1, TableDistinct, Zenon
  <2>9. Found(taken) = {n}
    BY <2>8
  <2>10. (CHOOSE a \in {n} : TRUE) = n
    OBVIOUS
  <2> QED
    BY <2>1, <2>9, <2>10, ClassifyIs
<1>3. CASE n = "Ping" /\ taken.type = CON
  BY <1>1, <1>3, TableIs, ClassifyIs
<1>4. CASE n = "GetTimeReturn" \/ (n = "Ping" /\ taken.type # CON)
  <2>1. /\ taken.code = Messages[n].code /\ n \in {"Ping", "GetTimeReturn"}
        /\ ~(taken.code = Empty /\ taken.type = CON)
    BY <1>1, <1>4, TableIs
  <2>2. ASSUME NEW a \in Found(taken) PROVE FALSE
    <3>1. PICK f : f = FirstPath(taken.options)
      OBVIOUS
    <3>2. /\ a \in Names /\ f # 0 /\ <<Messages[a].uri>> = taken.options[f].value
          /\ Messages[a].code = taken.code
      BY <3>1, Zenon DEF Found, Matches
    <3>3. f \in Paths(taken.options)
      <4>1. Paths(taken.options) # {}
        BY <3>1, <3>2, Zenon DEF FirstPath
      <4> QED
        BY <3>1, <4>1, FirstPathIs, Zenon
    <3>4. taken.options \in Seq(Option)
      BY BuiltOptions, SortedIs, Zenon DEF SortedBy
    <3>5. taken.options[f].value \in Seq(Octet)
      <4>1. f \in 1..Len(taken.options)
        BY <3>3, Zenon DEF Paths
      <4>2. taken.options[f] \in Option
        BY <3>4, <4>1, ElementOfSeq
      <4> QED
        BY <4>2 DEF Option
    <3>6. Messages[a].uri \in Octet
      <4>1. PICK v \in Seq(Octet) : v = <<Messages[a].uri>>
        BY <3>2, <3>5
      <4>2. Len(v) = 1 /\ v[1] = Messages[a].uri
        BY <4>1
      <4>3. 1 \in 1..Len(v)
        BY <4>2
      <4> QED
        BY <4>2, <4>3, ElementOfSeq
    <3>7. Messages[a].uri # Null
      BY <3>6, NullIs, Zenon
    <3> QED
      BY <2>1, <3>2, <3>7, RowOfNoUri, Zenon
  <2>3. Found(taken) = {}
    BY <2>2
  <2> QED
    BY <1>4, <2>1, <2>3, ClassifyIs, Zenon
<1> QED
  BY <1>2, <1>3, <1>4, TableIs

-----------------------------------------------------------------------------
(* Codec: what holds of every behaviour.                                    *)

\* send() has built m of name n, and b is its bytes if there are any.
WasSent(n, m, b) ==
  /\ n \in Names /\ Sendable(m) /\ \E os \in Seq(Option) : IsBuilt(m, n, os)
  /\ b # Null => encode(m).ok /\ b = encode(m).bytes

\* d and c are what decode and classify make of the bytes b.
WasDecoded(b, d, c) ==
  /\ b # Null /\ d = decode(b)
  /\ c = IF d.ok THEN classify(d.msg) ELSE Null

\* The bytes are those of the message that was sent, if one was, and what was decoded
\* is decoded of them.
CodecInv ==
  /\ buffer # Null => buffer \in Seq(Octet)
  /\ name # Null => WasSent(name, msg, buffer)
  /\ decoded # Null => WasDecoded(buffer, decoded, class)

\* It holds at first.
LEMMA CodecInitInv == CodecInit => CodecInv
<1>1. Noise \subseteq Seq(Octet)
  BY CodecAssumption, Zenon
<1> QED
  BY <1>1 DEF CodecInit, CodecInv

\* What send() builds can be sent.
LEMMA BuildSendable ==
  ASSUME NEW n \in Names, NEW type \in Types, NEW id \in Ids, NEW token \in Tokens,
         NEW os \in Options, NEW payload \in Payloads,
         NEW m, m = Build(n, type, id, token, os, payload)
  PROVE  Sendable(m) /\ IsBuilt(m, n, os) /\ os \in Seq(Option)
<1>1. id \in Nat /\ token \in Seq(Octet) /\ os \in Seq(Option) /\ payload \in Seq(Octet)
  BY CodecAssumption
<1>2. /\ m.code = Messages[n].code /\ m.messageId = id
      /\ m.type = IF type = Null THEN Messages[n].type ELSE type
      /\ m.token = token /\ m.payload = payload
      /\ m.options = (IF Messages[n].uri = Null THEN <<>>
                      ELSE <<[number |-> UriPath, value |-> <<Messages[n].uri>>]>>) \o os
  BY DEF Build
<1>3. IsBuilt(m, n, os)
  BY <1>2, Zenon DEF IsBuilt
<1>4. m.options \in Seq(Option)
  BY <1>1, <1>3, BuiltOptions, Zenon
<1>5. m.type \in 0..3 /\ m.code \in Octet
  <2>1. Messages[n].type \in 0..3 /\ Messages[n].code \in Octet
    BY TableIs, Zenon
  <2>2. type # Null => type \in 0..3
    BY CodecAssumption
  <2> QED
    BY <1>2, <2>1, <2>2, Zenon
<1> QED
  BY <1>1, <1>2, <1>3, <1>4, <1>5, Zenon DEF Sendable

\* send() keeps it.
LEMMA SendNamedInv ==
  ASSUME CodecInv, NEW n \in Names, NEW type \in Types, NEW id \in Ids, NEW token \in Tokens,
         NEW os \in Options, NEW payload \in Payloads,
         SendNamed(n, type, id, token, os, payload)
  PROVE  CodecInv'
<1>1. PICK m : m = Build(n, type, id, token, os, payload)
  OBVIOUS
<1>2. /\ buffer = Null /\ name' = n /\ msg' = m /\ decoded' = decoded
      /\ buffer' = IF encode(m).ok THEN encode(m).bytes ELSE Null
  BY <1>1, Zenon DEF SendNamed
<1>3. Sendable(m) /\ IsBuilt(m, n, os) /\ os \in Seq(Option)
  BY <1>1, BuildSendable, Zenon
<1>4. WasSent(n, m, buffer')
  BY <1>2, <1>3, Zenon DEF WasSent
<1>5. ASSUME buffer' # Null PROVE buffer' \in Seq(Octet)
  <2>1. encode(m).ok /\ buffer' = encode(m).bytes
    BY <1>2, <1>5, Zenon
  <2>2. IsReceived(encode(m).bytes, m)
    BY <1>3, <2>1, SentReceived, Zenon
  <2> QED
    BY <2>1, <2>2, Zenon DEF IsReceived
<1>6. decoded' = Null
  BY <1>2, Zenon DEF CodecInv, WasDecoded
<1> QED
  BY <1>2, <1>4, <1>5, <1>6, Zenon DEF CodecInv

\* An arrival keeps it.
LEMMA ArriveInv ==
  ASSUME CodecInv, Arrive
  PROVE  CodecInv'
<1>1. /\ buffer # Null /\ decoded' = decode(buffer)
      /\ class' = IF decoded'.ok THEN classify(decoded'.msg) ELSE Null
      /\ name' = name /\ msg' = msg /\ buffer' = buffer
  BY Zenon DEF Arrive
<1>2. WasDecoded(buffer', decoded', class')
  BY <1>1, Zenon DEF WasDecoded
<1> QED
  BY <1>1, <1>2, Zenon DEF CodecInv

\* Every step keeps it.
LEMMA CodecNextInv == CodecInv /\ [CodecNext]_codecVars => CodecInv'
<1> SUFFICES ASSUME CodecInv, [CodecNext]_codecVars
             PROVE  CodecInv'
  OBVIOUS
<1>1. ASSUME NEW n \in Names, NEW type \in Types, NEW id \in Ids, NEW t \in Tokens,
             NEW os \in Options, NEW p \in Payloads, SendNamed(n, type, id, t, os, p)
      PROVE  CodecInv'
  BY <1>1, SendNamedInv, Zenon
<1>2. CASE Arrive
  BY <1>2, ArriveInv, Zenon
<1>3. CASE UNCHANGED codecVars
  BY <1>3 DEF codecVars, CodecInv
<1> QED
  BY <1>1, <1>2, <1>3, Zenon DEF CodecNext

\* It holds throughout.
LEMMA CodecAlwaysInv == CodecSpec => []CodecInv
BY CodecInitInv, CodecNextInv, PTL DEF CodecSpec

\* What was sent is what arrives.
LEMMA CodecInvRoundTrip == CodecInv => RoundTrip
<1> SUFFICES ASSUME CodecInv, decoded # Null, name # Null
             PROVE  /\ decoded.ok /\ ~decoded.ranOff
                    /\ LET taken == decoded.msg IN
                       /\ taken.type = msg.type /\ taken.code = msg.code
                       /\ taken.messageId = msg.messageId % 65536
                       /\ taken.token = msg.token /\ taken.payload = msg.payload
                       /\ Ascending(taken.options) /\ Rearranged(taken.options, msg.options)
                    /\ class = IF name = "GetTimeReturn" \/ (name = "Ping" /\ msg.type # CON)
                               THEN Null ELSE name
  BY DEF RoundTrip, Arrived
<1>1. WasSent(name, msg, buffer) /\ WasDecoded(buffer, decoded, class)
  BY Zenon DEF CodecInv
<1>2. /\ name \in Names /\ Sendable(msg) /\ buffer # Null /\ decoded = decode(buffer)
      /\ encode(msg).ok /\ buffer = encode(msg).bytes
      /\ class = IF decoded.ok THEN classify(decoded.msg) ELSE Null
  BY <1>1, Zenon DEF WasSent, WasDecoded
<1>3. PICK os \in Seq(Option) : IsBuilt(msg, name, os)
  BY <1>1, Zenon DEF WasSent
<1>4. IsReceived(buffer, msg)
  BY <1>2, SentReceived, Zenon
<1>5. /\ decoded.ok /\ ~decoded.ranOff
      /\ decoded.msg = [type |-> msg.type, code |-> msg.code, messageId |-> Low(msg.messageId),
                        token |-> msg.token, options |-> Sorted(msg.options),
                        payload |-> msg.payload]
  BY <1>2, <1>4, Zenon DEF IsReceived
<1>6. PICK taken : taken = decoded.msg
  OBVIOUS
<1>7. /\ taken.type = msg.type /\ taken.code = msg.code /\ taken.messageId = Low(msg.messageId)
      /\ taken.token = msg.token /\ taken.payload = msg.payload
      /\ taken.options = Sorted(msg.options)
  BY <1>5, <1>6
<1>8. Ascending(taken.options) /\ Rearranged(taken.options, msg.options)
  <2>1. msg.options \in Seq(Option)
    BY <1>2, Zenon DEF Sendable
  <2> QED
    BY <1>7, <2>1, SortedAscends, SortedRearranges, Zenon
<1>9. classify(taken) = IF name = "GetTimeReturn" \/ (name = "Ping" /\ msg.type # CON)
                        THEN Null ELSE name
  <2>1. classify(taken) = IF name = "GetTimeReturn" \/ (name = "Ping" /\ taken.type # CON)
                          THEN Null ELSE name
    BY <1>2, <1>3, <1>7, Recognised, Zenon
  <2> QED BY <1>7, <2>1
<1>10. taken.messageId = msg.messageId % 65536
  BY <1>7 DEF Low
<1> QED
  BY <1>2, <1>5, <1>6, <1>7, <1>8, <1>9, <1>10

\* What is accepted is exact.
LEMMA CodecInvExact ==
  ASSUME CodecInv, decoded # Null, decoded.ok
  PROVE  IsExact(buffer, decoded.msg, decoded.ranOff)
<1>1. buffer \in Seq(Octet) /\ decoded = decode(buffer)
  BY Zenon DEF CodecInv, WasDecoded
<1> QED
  BY <1>1, DecodedExact, Zenon

\* What is read to its end is what arrived.
LEMMA CodecInvDecodeExact == CodecInv => DecodeExact
BY CodecInvExact, Zenon DEF DecodeExact, Arrived, Reencodes, IsExact

\* How far a message of which a length is missing differs from the bytes.
LEMMA CodecInvCutShort == CodecInv => CutShort
BY CodecInvExact, Zenon DEF CutShort, Arrived, IsExact

\* Whatever send() is given, a message that can be encoded arrives as it was sent:
\* with its header, token and payload, its options in ascending order and otherwise as
\* they were given, and recognised by its name.
THEOREM CodecRoundTrip == CodecSpec => []RoundTrip
BY CodecAlwaysInv, CodecInvRoundTrip, PTL

\* Whatever bytes arrive, a message that decode accepts is those bytes, but for a bare
\* marker, unless the length of an option is cut off at the end.
THEOREM CodecDecodeExact == CodecSpec => []DecodeExact
BY CodecAlwaysInv, CodecInvDecodeExact, PTL

\* What becomes of the buffers whose last length is cut off, which decode accepts against
\* its documentation (coap.js:124): in place of the truncated option they get an empty
\* one, the bytes before it are read as they came, and nothing is invented.
THEOREM CodecCutShort == CodecSpec => []CutShort
BY CodecAlwaysInv, CodecInvCutShort, PTL

=============================================================================
