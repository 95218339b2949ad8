--------------------------- MODULE ReadersProofs ---------------------------
(***************************************************************************)
(* A directory that is listed holds its own entries, each once and in the  *)
(* order of their names, and loses one only with a failure to show for it. *)
(* The targets of the links in it lead to the same files.                  *)
(***************************************************************************)
EXTENDS Readers, ListingInv, SequenceTheorems, NatInduction

-----------------------------------------------------------------------------
(* Names.                                                                  *)

LEMMA ByteAt ==
    ASSUME NEW name \in Seq(Byte), NEW i \in 1 .. Len(name)
    PROVE  name[i] \in Byte /\ name[i] \in Nat /\ 0 < name[i] /\ name[i] <= 255
<1>1. name[i] \in Byte
  BY ElementOfSeq
<1>2. \A byte \in Byte : byte \in Nat /\ 0 < byte /\ byte <= 255
  BY DEF Byte
<1>3. QED
  BY <1>1, <1>2

LEMMA BytesAreNats ==
    ASSUME NEW name \in Seq(Byte)
    PROVE  name \in Seq(Nat)
<1>1. Len(name) \in Nat /\ name = [i \in 1 .. Len(name) |-> name[i]]
  BY LenProperties
<1>2. \A i \in 1 .. Len(name) : name[i] \in Nat
  BY ByteAt
<1>3. QED
  BY <1>1, <1>2, IsASeq

LEMMA LossyFacts ==
    ASSUME NEW name \in Seq(Byte)
    PROVE  Lossy(name) \in Seq(Byte) /\ Len(Lossy(name)) = Len(name)
<1>1. Len(name) \in Nat /\ DOMAIN name = 1 .. Len(name)
  BY LenProperties
<1>2. \A i \in 1 .. Len(name) : Lossy(name)[i] \in Byte
  <2>1. SUFFICES ASSUME NEW i \in 1 .. Len(name) PROVE Lossy(name)[i] \in Byte
    OBVIOUS
  <2>2. name[i] \in Byte /\ Replacement \in Byte
    BY ByteAt DEF Byte, Replacement
  <2>3. Lossy(name)[i] = IF name[i] = Bad THEN Replacement ELSE name[i]
    BY <1>1 DEF Lossy
  <2>4. QED
    BY <2>2, <2>3
<1>3. Lossy(name) = [i \in 1 .. Len(name) |-> Lossy(name)[i]]
  BY <1>1 DEF Lossy
<1>4. Lossy(name) \in [1 .. Len(name) -> Byte]
  BY <1>2, <1>3
<1>5. QED
  BY <1>1, <1>4, IsASeq, LenProperties

LEMMA NameFacts ==
    ASSUME NEW e \in Entries
    PROVE  /\ e.name \in Seq(Byte) /\ e \notin Dots
           /\ Lossy(e.name) \in Seq(Byte)
           /\ ListedName(e) \in Seq(Byte)
           /\ Len(ListedName(e)) = Len(e.name)
<1>1. e.name \in Seq(Byte) /\ e \notin Dots
  BY NamesAssumption
<1>2. QED
  BY <1>1, LossyFacts DEF ListedName

\* Two names agree in their first n bytes.
Agree(a, b, n) == \A i \in 1 .. n : a[i] = b[i]

LEMMA BeforeIs ==
    ASSUME NEW a \in Seq(Byte), NEW b \in Seq(Byte)
    PROVE  Before(a, b) <=>
             \E n \in 0 .. Len(a) :
                 n < Len(b) /\ Agree(a, b, n) /\ (n < Len(a) => a[n + 1] < b[n + 1])
<1>1. Len(a) \in Nat /\ Len(b) \in Nat
  BY LenProperties
<1>2. ASSUME NEW n \in 0 .. Len(a), n < Len(b)
      PROVE  SubSeq(a, 1, n) = SubSeq(b, 1, n) <=> Agree(a, b, n)
  <2>1. n \in Nat /\ n <= Len(a) /\ n <= Len(b)
    BY <1>1, <1>2
  <2>2. ASSUME NEW s \in Seq(Byte), n <= Len(s)
        PROVE  SubSeq(s, 1, n) = [i \in 1 .. n |-> s[i]]
    <3>1. QED
      BY <2>1, <2>2
  <2>3. SubSeq(a, 1, n) = [i \in 1 .. n |-> a[i]] /\ SubSeq(b, 1, n) = [i \in 1 .. n |-> b[i]]
    BY <2>1, <2>2
  <2>4. ASSUME [i \in 1 .. n |-> a[i]] = [i \in 1 .. n |-> b[i]], NEW i \in 1 .. n
        PROVE  a[i] = b[i]
    <3>1. [k \in 1 .. n |-> a[k]][i] = [k \in 1 .. n |-> b[k]][i]
      BY <2>4
    <3>2. QED
      BY <3>1
  <2>5. QED
    BY <2>3, <2>4 DEF Agree
<1>3. QED
  BY <1>2 DEF Before

\* Names of which neither is before the other are one name.
LEMMA BeforeTotal ==
    ASSUME NEW a \in Seq(Byte), NEW b \in Seq(Byte), ~Before(a, b), ~Before(b, a)
    PROVE  a = b
<1> DEFINE p == Len(a)
           q == Len(b)
           m == IF p <= q THEN p ELSE q
           S == {n \in 0 .. m : Agree(a, b, n)}
<1>1. p \in Nat /\ q \in Nat
  BY LenProperties
<1>2. \A n \in 0 .. p : ~(n < q /\ Agree(a, b, n) /\ (n < p => a[n + 1] < b[n + 1]))
  BY BeforeIs
<1>3. \A n \in 0 .. q : ~(n < p /\ Agree(b, a, n) /\ (n < q => b[n + 1] < a[n + 1]))
  BY BeforeIs
<1>4. \A n : Agree(a, b, n) => Agree(b, a, n)
  BY DEF Agree
<1>5. /\ \A i \in 1 .. p : a[i] \in Nat
      /\ \A i \in 1 .. q : b[i] \in Nat
  BY ByteAt
<1> HIDE DEF p, q
<1>6. m \in Nat /\ m <= p /\ m <= q /\ (m = p \/ m = q)
  BY <1>1
<1> HIDE DEF m
<1>7. 0 \in S
  BY <1>6 DEF Agree
<1>8. ASSUME NEW n \in 0 .. (m - 1), n \in S PROVE n + 1 \in S
  <2>1. n \in 0 .. p /\ n \in 0 .. q /\ n < p /\ n < q /\ n + 1 \in 1 .. p /\ n + 1 \in 1 .. q
    BY <1>1, <1>6
  <2>2. ~(a[n + 1] < b[n + 1]) /\ ~(b[n + 1] < a[n + 1])
    BY <1>2, <1>3, <1>4, <1>8, <2>1
  <2>3. a[n + 1] \in Nat /\ b[n + 1] \in Nat
    BY <1>5, <2>1
  <2>4. a[n + 1] = b[n + 1]
    BY <2>2, <2>3
  <2>5. \A i \in 1 .. (n + 1) : i \in 1 .. n \/ i = n + 1
    OBVIOUS
  <2>6. Agree(a, b, n + 1)
    BY <1>8, <2>4, <2>5 DEF Agree
  <2>7. n + 1 \in 0 .. m
    BY <1>6
  <2>8. QED
    BY <2>6, <2>7
<1>9. Agree(a, b, m)
  <2> HIDE DEF S
  <2>1. \A n \in 0 .. m : n \in S
    BY <1>6, <1>7, <1>8, InductionUpTo
  <2>2. QED
    BY <1>6, <2>1 DEF S
<1>10. p = q
  <2>1. CASE m = p
    <3>1. p \in 0 .. p /\ ~(p < p)
      BY <1>1
    <3>2. ~(p < q)
      BY <1>2, <1>9, <2>1, <3>1
    <3>3. QED
      BY <1>1, <1>6, <2>1, <3>2
  <2>2. CASE m = q
    <3>1. q \in 0 .. q /\ ~(q < q)
      BY <1>1
    <3>2. ~(q < p)
      BY <1>3, <1>4, <1>9, <2>2, <3>1
    <3>3. QED
      BY <1>1, <1>6, <2>2, <3>2
  <2>3. QED
    BY <1>6, <2>1, <2>2
<1>11. m = p
  BY <1>6, <1>10
<1>12. Len(a) = Len(b) /\ \A i \in 1 .. Len(a) : a[i] = b[i]
  BY <1>9, <1>10, <1>11 DEF p, q, Agree
<1>13. QED
  BY <1>12, SeqEqual

-----------------------------------------------------------------------------
(* Numbers made of bytes.                                                  *)

\* Byte i of a prefix.
Padded(name, i) == IF i \in DOMAIN name THEN name[i] ELSE 0

LEMMA PaddedIs ==
    ASSUME NEW name \in Seq(Byte), NEW i
    PROVE  /\ Padded(name, i) \in Nat /\ Padded(name, i) <= 255
           /\ i \in 1 .. Len(name) => Padded(name, i) = name[i] /\ 0 < name[i]
           /\ i \notin 1 .. Len(name) => Padded(name, i) = 0
<1>1. DOMAIN name = 1 .. Len(name)
  BY LenProperties
<1>2. CASE i \in 1 .. Len(name)
  <2>1. Padded(name, i) = name[i]
    BY <1>1, <1>2 DEF Padded
  <2>2. QED
    BY <1>2, <2>1, ByteAt
<1>3. CASE i \notin 1 .. Len(name)
  <2>1. Padded(name, i) = 0
    BY <1>1, <1>3 DEF Padded
  <2>2. QED
    BY <1>3, <2>1
<1>4. QED
  BY <1>2, <1>3

\* The numbers that the first bytes of a prefix make.
NumbersAre(name, number) ==
    /\ number[0] = 0
    /\ \A n \in 1 .. PrefixLen : number[n] = 256 * number[n - 1] + Padded(name, n)
    /\ \A n \in 0 .. PrefixLen : number[n] \in Nat

LEMMA PrefixIs ==
    ASSUME NEW name \in Seq(Byte)
    PROVE  /\ Prefix(name) \in Nat
           /\ \E number : NumbersAre(name, number) /\ Prefix(name) = number[PrefixLen]
<1> DEFINE N == PrefixLen
           bytes == [i \in 1 .. PrefixLen |-> Padded(name, i)]
           g == [x \in (1 .. N) \X Nat |-> 256 * x[2] + bytes[x[1]]]
           Is(t) == t = [n \in 0 .. Len(bytes) |-> IF n = 0 THEN 0 ELSE 256 * t[n - 1] + bytes[n]]
           number == CHOOSE t : Is(t)
<1>1. N \in Nat
  BY ListingAssumption
<1>2. \A i \in 1 .. N : Padded(name, i) \in Nat
  BY PaddedIs
<1>3. bytes \in Seq(Nat) /\ Len(bytes) = N /\ \A i \in 1 .. N : bytes[i] = Padded(name, i) /\ bytes[i] \in Nat
  <2>1. bytes \in [1 .. N -> Nat]
    BY <1>2
  <2>2. bytes \in Seq(Nat)
    BY <1>1, <2>1
  <2>3. Len(bytes) = N
    BY <1>1, <2>1, <2>2, LenProperties
  <2>4. QED
    BY <1>2, <2>2, <2>3
<1> HIDE DEF bytes
<1>4. IsStep(N, Nat, g)
  <2>1. \A i \in 1 .. N : bytes[i] \in Nat
    BY <1>3
  <2>2. \A x \in (1 .. N) \X Nat : 256 * x[2] + bytes[x[1]] \in Nat
    <3>1. SUFFICES ASSUME NEW x \in (1 .. N) \X Nat PROVE 256 * x[2] + bytes[x[1]] \in Nat
      OBVIOUS
    <3>2. x[1] \in 1 .. N /\ x[2] \in Nat
      OBVIOUS
    <3>3. bytes[x[1]] \in Nat
      BY <2>1, <3>2
    <3>4. QED
      BY <3>2, <3>3
  <2>3. QED
    BY <2>2 DEF IsStep
<1>5. PICK t \in [0 .. N -> Nat] : \A n \in 0 .. N : t[n] = ValueAt(0, g, t, n)
  <2> HIDE DEF g, N
  <2>1. HasValues(N, Nat, 0, g)
    BY <1>1, <1>4, RecursionExists
  <2>2. QED
    BY <2>1 DEF HasValues
<1>6. ASSUME NEW n \in 0 .. N
      PROVE  t[n] = IF n = 0 THEN 0 ELSE 256 * t[n - 1] + bytes[n]
  <2>1. CASE n = 0
    BY <1>5, <2>1 DEF ValueAt
  <2>2. CASE n # 0
    <3>1. n - 1 \in 0 .. N /\ n \in 1 .. N
      BY <1>1, <2>2
    <3>2. <<n, t[n - 1]>> \in (1 .. N) \X Nat
      BY <1>5, <3>1
    <3>3. g[<<n, t[n - 1]>>] = 256 * t[n - 1] + bytes[n]
      BY <3>2
    <3>4. t[n] = g[<<n, t[n - 1]>>]
      <4> HIDE DEF g
      <4>1. QED
        BY <1>5, <2>2 DEF ValueAt
    <3>5. QED
      BY <2>2, <3>3, <3>4
  <2>3. QED
    BY <2>1, <2>2
<1>7. Is(t)
  <2>1. t = [n \in 0 .. N |-> t[n]]
    BY <1>5
  <2>2. QED
    BY <1>3, <1>6, <2>1
<1>8. Is(number)
  BY <1>7, SMTT(30)
<1>9. BigEndian(bytes) = number[Len(bytes)]
  BY DEF BigEndian
<1>10. Prefix(name) = BigEndian(bytes)
  BY DEF Prefix, bytes, Padded
<1>11. \A n \in 0 .. N : number[n] = IF n = 0 THEN 0 ELSE 256 * number[n - 1] + bytes[n]
  <2> HIDE DEF number, N
  <2>1. QED
    BY <1>3, <1>8
<1> HIDE DEF number
<1>12. \A n \in 0 .. N : number[n] \in Nat
  <2> DEFINE S == {n \in 0 .. N : number[n] \in Nat}
  <2>1. 0 \in S
    BY <1>1, <1>11
  <2>2. ASSUME NEW n \in 0 .. (N - 1), n \in S PROVE n + 1 \in S
    <3>1. n + 1 \in 0 .. N /\ n + 1 # 0 /\ (n + 1) - 1 = n /\ n + 1 \in 1 .. N
      BY <1>1
    <3>2. number[n + 1] = 256 * number[n] + bytes[n + 1]
      BY <1>11, <3>1
    <3>3. bytes[n + 1] \in Nat
      BY <1>3, <3>1
    <3>4. number[n] \in Nat
      BY <2>2
    <3>5. number[n + 1] \in Nat
      BY <3>2, <3>3, <3>4
    <3>6. QED
      BY <3>1, <3>5
  <2>3. \A n \in 0 .. N : n \in S
    <3> HIDE DEF S, N
    <3>1. QED
      BY <1>1, <2>1, <2>2, InductionUpTo
  <2>4. QED
    BY <2>3
<1>13. NumbersAre(name, number)
  <2>1. ASSUME NEW n \in 1 .. N
        PROVE  number[n] = 256 * number[n - 1] + Padded(name, n)
    <3>1. n \in 0 .. N /\ n # 0
      BY <1>1
    <3>2. QED
      BY <1>3, <1>11, <3>1
  <2>2. number[0] = 0
    BY <1>1, <1>11
  <2>3. QED
    BY <1>12, <2>1, <2>2 DEF NumbersAre
<1>14. Prefix(name) = number[PrefixLen] /\ PrefixLen \in 0 .. PrefixLen
  BY <1>1, <1>3, <1>9, <1>10
<1>15. QED
  BY <1>12, <1>13, <1>14

\* Numbers made of bytes that are the same up to m, and then smaller.
Smaller(x, y, m, k) == (k <= m => x[k] = y[k]) /\ (k > m => x[k] + 1 <= y[k])

\* Prefixes are in the order of the names, but for names that begin alike.
LEMMA PrefixKeepsOrder ==
    ASSUME NEW a \in Seq(Byte), NEW b \in Seq(Byte), Before(a, b)
    PROVE  Prefix(a) <= Prefix(b)
<1>1. Len(a) \in Nat /\ Len(b) \in Nat /\ DOMAIN a = 1 .. Len(a) /\ DOMAIN b = 1 .. Len(b)
      /\ PrefixLen \in Nat
  BY LenProperties, ListingAssumption
<1>2. PICK m \in 0 .. Len(a) : m < Len(b) /\ Agree(a, b, m) /\ (m < Len(a) => a[m + 1] < b[m + 1])
  BY BeforeIs
<1>3. PICK x : NumbersAre(a, x) /\ Prefix(a) = x[PrefixLen]
  BY PrefixIs
<1>4. PICK y : NumbersAre(b, y) /\ Prefix(b) = y[PrefixLen]
  BY PrefixIs
<1>5. \A i \in 1 .. m : Padded(a, i) = Padded(b, i)
  <2>1. \A i \in 1 .. m : i \in DOMAIN a /\ i \in DOMAIN b
    BY <1>1, <1>2
  <2>2. QED
    BY <1>2, <2>1 DEF Agree, Padded
<1>6. /\ \A i : Padded(a, i) \in Nat /\ Padded(a, i) <= 255
      /\ \A i : Padded(b, i) \in Nat /\ Padded(b, i) <= 255
  BY PaddedIs
<1>7. Padded(a, m + 1) + 1 <= Padded(b, m + 1)
  <2>1. m + 1 \in 1 .. Len(b)
    BY <1>1, <1>2
  <2>2. Padded(b, m + 1) = b[m + 1] /\ 0 < b[m + 1] /\ b[m + 1] \in Nat
    BY <2>1, PaddedIs, ByteAt
  <2>3. CASE m < Len(a)
    <3>1. m + 1 \in 1 .. Len(a)
      BY <1>1, <2>3
    <3>2. Padded(a, m + 1) = a[m + 1] /\ a[m + 1] \in Nat
      BY <3>1, PaddedIs, ByteAt
    <3>3. a[m + 1] < b[m + 1]
      BY <1>2, <2>3
    <3>4. QED
      BY <2>2, <3>2, <3>3
  <2>4. CASE ~(m < Len(a))
    <3>1. m + 1 \notin 1 .. Len(a)
      BY <1>1, <2>4
    <3>2. Padded(a, m + 1) = 0
      BY <3>1, PaddedIs
    <3>3. QED
      BY <2>2, <3>2
  <2>5. QED
    BY <2>3, <2>4
<1> DEFINE S == {k \in 0 .. PrefixLen : Smaller(x, y, m, k)}
<1>8. 0 \in S
  <2>1. x[0] = 0 /\ y[0] = 0
    BY <1>3, <1>4 DEF NumbersAre
  <2>2. QED
    BY <1>1, <1>2, <2>1 DEF Smaller
<1>9. ASSUME NEW k \in 0 .. (PrefixLen - 1), k \in S PROVE k + 1 \in S
  <2> DEFINE p == Padded(a, k + 1)
             q == Padded(b, k + 1)
             u == x[k]
             v == y[k]
             w == x[k + 1]
             z == y[k + 1]
  <2>1. k + 1 \in 1 .. PrefixLen /\ k + 1 \in 0 .. PrefixLen /\ (k + 1) - 1 = k /\ k \in 0 .. PrefixLen
    BY <1>1
  <2>2. w = 256 * u + p /\ z = 256 * v + q /\ u \in Nat /\ v \in Nat
    BY <1>3, <1>4, <2>1 DEF NumbersAre
  <2>3. p \in Nat /\ q \in Nat /\ p <= 255 /\ q <= 255
    BY <1>6
  <2>0. (k <= m => u = v) /\ (k > m => u + 1 <= v)
    BY <1>9 DEF Smaller
  <2>4. (k < m => u = v /\ p = q) /\ (k = m => u = v /\ p + 1 <= q) /\ (k > m => u + 1 <= v)
    <3>1. k < m => k + 1 \in 1 .. m
      BY <1>1, <1>2
    <3>2. k < m => p = q
      BY <1>5, <3>1
    <3>3. k = m => p + 1 <= q
      BY <1>7
    <3>4. (k < m => k <= m) /\ (k = m => k <= m)
      BY <1>2
    <3>5. QED
      BY <2>0, <3>2, <3>3, <3>4
  <2> HIDE DEF p, q, u, v, w, z
  <2>5. (k + 1 <= m => w = z) /\ (k + 1 > m => w + 1 <= z)
    <3>1. CASE k < m
      BY <1>1, <1>2, <2>1, <2>2, <2>3, <2>4, <3>1
    <3>2. CASE k = m
      <4>1. w + 1 <= z /\ k + 1 > m
        BY <1>2, <2>2, <2>3, <2>4, <3>2
      <4>2. QED
        BY <1>2, <4>1, <3>2
    <3>3. CASE k > m
      <4>1. w + 1 <= z
        BY <2>2, <2>3, <2>4, <3>3
      <4>2. QED
        BY <1>2, <3>3, <4>1
    <3>4. QED
      BY <1>2, <3>1, <3>2, <3>3
  <2>6. QED
    BY <2>1, <2>5 DEF w, z, Smaller
<1>10. PrefixLen \in S
  <2> HIDE DEF S
  <2>1. \A k \in 0 .. PrefixLen : k \in S
    BY <1>1, <1>8, <1>9, InductionUpTo
  <2>2. QED
    BY <1>1, <2>1
<1>11. x[PrefixLen] \in Nat /\ y[PrefixLen] \in Nat
  BY <1>1, <1>3, <1>4 DEF NumbersAre
<1>12. (PrefixLen <= m => x[PrefixLen] = y[PrefixLen]) /\ (PrefixLen > m => x[PrefixLen] + 1 <= y[PrefixLen])
  BY <1>10 DEF Smaller
<1>13. x[PrefixLen] <= y[PrefixLen]
  <2> DEFINE u == x[PrefixLen]
             v == y[PrefixLen]
  <2>1. u \in Nat /\ v \in Nat /\ (PrefixLen <= m => u = v) /\ (PrefixLen > m => u + 1 <= v)
    BY <1>11, <1>12
  <2> HIDE DEF u, v
  <2>2. u <= v
    BY <1>1, <1>2, <2>1
  <2>3. QED
    BY <2>2 DEF u, v
<1>14. QED
  BY <1>3, <1>4, <1>13

-----------------------------------------------------------------------------
(* The bytes of names.                                                     *)

BytesOfOne(e) == {e} \X (0 .. Len(e.name))

LEMMA BytesOfOneIs ==
    ASSUME NEW e \in Entries
    PROVE  /\ IsFiniteSet(BytesOfOne(e)) /\ Cardinality(BytesOfOne(e)) = Len(e.name) + 1
           /\ Len(e.name) \in Nat
<1>1. Len(e.name) \in Nat
  BY NameFacts, LenProperties
<1>2. IsFiniteSet(0 .. Len(e.name)) /\ Cardinality(0 .. Len(e.name)) = Len(e.name) + 1
  BY <1>1, FS_Interval, SMTT(30)
<1>3. IsFiniteSet({e}) /\ Cardinality({e}) = 1
  BY FS_Singleton
<1>4. /\ IsFiniteSet({e} \X (0 .. Len(e.name)))
      /\ Cardinality({e} \X (0 .. Len(e.name))) = Cardinality({e}) * Cardinality(0 .. Len(e.name))
  BY <1>2, <1>3, FS_Product
<1>5. 1 * (Len(e.name) + 1) = Len(e.name) + 1
  BY <1>1
<1>6. QED
  BY <1>1, <1>2, <1>3, <1>4, <1>5 DEF BytesOfOne

LEMMA BytesOfFinite ==
    ASSUME NEW some \in SUBSET Entries
    PROVE  /\ IsFiniteSet(some) /\ IsFiniteSet(BytesOf(some))
           /\ Cardinality(BytesOf(some)) \in Nat
<1> DEFINE T == {BytesOfOne(e) : e \in some}
           f == [e \in some |-> BytesOfOne(e)]
<1>1. IsFiniteSet(some)
  BY NamesAssumption, FS_Subset
<1>2. f \in Surjection(some, T)
  BY DEF Surjection
<1>3. IsFiniteSet(T)
  <2> HIDE DEF f, T
  <2>1. QED
    BY <1>1, <1>2, FS_Surjection
<1>4. \A t \in T : IsFiniteSet(t)
  BY BytesOfOneIs
<1>5. IsFiniteSet(UNION T)
  <2> HIDE DEF T
  <2>1. QED
    BY <1>3, <1>4, FS_UNION
<1>6. BytesOf(some) = UNION T
  BY DEF BytesOf, BytesOfOne
<1>7. QED
  BY <1>1, <1>5, <1>6, FS_CardinalityType

LEMMA BytesOfMore ==
    ASSUME NEW some \in SUBSET Entries, NEW e \in Entries, e \notin some
    PROVE  /\ Cardinality(BytesOf(some \cup {e})) = Cardinality(BytesOf(some)) + Len(e.name) + 1
           /\ Cardinality(BytesOf(some)) \in Nat /\ Len(e.name) \in Nat
<1> DEFINE A == BytesOf(some)
           B == BytesOfOne(e)
<1>1. IsFiniteSet(A) /\ Cardinality(A) \in Nat
  BY BytesOfFinite
<1>2. IsFiniteSet(B) /\ Cardinality(B) = Len(e.name) + 1 /\ Len(e.name) \in Nat
  BY BytesOfOneIs
<1>3. BytesOf(some \cup {e}) = A \cup B
  BY DEF BytesOf, BytesOfOne
<1>4. A \cap B = {}
  BY DEF BytesOf, BytesOfOne
<1> HIDE DEF A, B
<1>5. Cardinality(A \cup B) = Cardinality(A) + Cardinality(B) - Cardinality(A \cap B)
  BY <1>1, <1>2, FS_Union
<1>6. Cardinality(A \cap B) = 0
  BY <1>4, FS_EmptySet
<1>7. Cardinality(A \cup B) = Cardinality(A) + Len(e.name) + 1
  BY <1>1, <1>2, <1>5, <1>6
<1>8. QED
  BY <1>1, <1>2, <1>3, <1>7 DEF A

LEMMA BytesOfPart ==
    ASSUME NEW all \in SUBSET Entries, NEW some \in SUBSET all
    PROVE  Cardinality(BytesOf(some)) <= Cardinality(BytesOf(all))
<1>1. BytesOf(some) \subseteq BytesOf(all)
  BY DEF BytesOf
<1>2. IsFiniteSet(BytesOf(all))
  BY BytesOfFinite
<1>3. QED
  BY <1>1, <1>2, FS_Subset

-----------------------------------------------------------------------------
(* Adding to the listing.                                                  *)

\* What is in a sequence stays there when more comes after it, and what comes is
\* there too.
LEMMA SubSeqOfMore ==
    ASSUME NEW V, NEW s \in Seq(V), NEW t \in Seq(V), NEW from \in Nat, NEW len \in Nat,
           from + len <= Len(s)
    PROVE  SubSeq(s \o t, from + 1, from + len) = SubSeq(s, from + 1, from + len)
<1>1. Len(s) \in Nat /\ Len(t) \in Nat /\ s \o t \in Seq(V) /\ Len(s \o t) = Len(s) + Len(t)
  BY LenProperties
<1>2. \A i \in 1 .. Len(s) : (s \o t)[i] = s[i]
  BY <1>1
<1>3. ASSUME NEW u \in Seq(V), from + len <= Len(u)
      PROVE  SubSeq(u, from + 1, from + len) = [i \in 1 .. len |-> u[from + i]]
  <2>1. SubSeq(u, from + 1, from + len) = [i \in 1 .. ((from + len) - (from + 1) + 1) |-> u[(from + 1) + i - 1]]
    BY LenProperties
  <2>2. (from + len) - (from + 1) + 1 = len /\ \A i \in 1 .. len : (from + 1) + i - 1 = from + i
    OBVIOUS
  <2>3. QED
    BY <2>1, <2>2
<1>4. from + len <= Len(s \o t)
  BY <1>1
<1>5. SubSeq(s, from + 1, from + len) = [i \in 1 .. len |-> s[from + i]]
  BY <1>3
<1>6. SubSeq(s \o t, from + 1, from + len) = [i \in 1 .. len |-> (s \o t)[from + i]]
  BY <1>1, <1>3, <1>4
<1>7. \A i \in 1 .. len : (s \o t)[from + i] = s[from + i]
  BY <1>1, <1>2
<1>8. QED
  BY <1>5, <1>6, <1>7

LEMMA SubSeqOfNew ==
    ASSUME NEW V, NEW s \in Seq(V), NEW t \in Seq(V), NEW x \in V
    PROVE  SubSeq(s \o Append(t, x), Len(s) + 1, Len(s) + Len(t)) = t
<1> DEFINE p == Len(s)
           q == Len(t)
           all == s \o Append(t, x)
<1>1. p \in Nat /\ q \in Nat /\ Append(t, x) \in Seq(V) /\ Len(Append(t, x)) = q + 1
  BY LenProperties
<1>2. all \in Seq(V) /\ Len(all) = p + (q + 1)
  BY <1>1
<1>3. \A i \in 1 .. q : all[p + i] = t[i]
  <2>1. \A i \in 1 .. q : Append(t, x)[i] = t[i]
    BY <1>1
  <2>2. \A i \in 1 .. (q + 1) : all[p + i] = Append(t, x)[i]
    BY <1>1
  <2>3. QED
    BY <1>1, <2>1, <2>2
<1> HIDE DEF p, q, all
<1>4. p + 1 \in Nat /\ p + q \in Nat /\ p + q <= Len(all) /\ (p + q) - (p + 1) + 1 = q
      /\ \A i \in 1 .. q : (p + 1) + i - 1 = p + i
  BY <1>1, <1>2
<1>5. SubSeq(all, p + 1, p + q) = [i \in 1 .. ((p + q) - (p + 1) + 1) |-> all[(p + 1) + i - 1]]
  BY <1>1, <1>2, <1>4
<1>6. SubSeq(all, p + 1, p + q) = [i \in 1 .. q |-> t[i]]
  BY <1>3, <1>4, <1>5
<1>7. t = [i \in 1 .. q |-> t[i]]
  BY LenProperties DEF q
<1>8. QED
  BY <1>6, <1>7 DEF p, q, all

\* A reader stays what it is, and so do the names and kinds that it lists.
LEMMA SameNames ==
    ASSUME reader' = reader
    PROVE  \A e : ListedName(e)' = ListedName(e) /\ ListedKind(e)' = ListedKind(e)
BY DEF ListedName, ListedKind, KindOf

LEMMA NewListedType ==
    ASSUME ListTypes, NEW e \in Entries
    PROVE  NewListed(e) \in ListedType
<1>1. listing.names \in Seq(Nat) /\ listing.held \in Seq(Entries)
  BY DEF ListTypes, ListingType
<1>2. Len(listing.names) \in Nat /\ Len(listing.held) \in Nat
  BY <1>1, LenProperties
<1>3. ListedName(e) \in Seq(Byte)
  BY NameFacts
<1>4. Len(ListedName(e)) \in Nat /\ Prefix(ListedName(e)) \in Nat
  BY <1>3, LenProperties, PrefixIs
<1>5. ListedKind(e) \in {"File", "Directory", "Symlink", "Special", "NonUtf8"}
  BY DEF ListedKind, KindOf
<1>6. Slot \in Nat
  BY <1>2 DEF Slot
<1>7. QED
  BY <1>2, <1>4, <1>5, <1>6 DEF NewListed, ListedType

\* An entry of the directory that has been pushed.
Pushed(e) ==
    /\ listing' \in ListingType /\ EntriesInv'
    /\ Of(listing.entries)' = Of(listing.entries) \cup {e}
    /\ listing'.failures = listing.failures

\* What Push does with each part of the listing.
LEMMA PushParts ==
    ASSUME ListTypes, NEW e \in content, Push(e)
    PROVE  /\ listing' \in ListingType
           /\ listing'.entries = Append(listing.entries, NewListed(e))
           /\ listing'.names = listing.names \o Append(ListedName(e), 0)
           /\ listing'.held = IF reader = "linux" THEN listing.held ELSE Append(listing.held, e)
           /\ listing'.failures = listing.failures
<1>1. listing \in ListingType /\ e \in Entries
  BY DEF ListTypes
<1>2. /\ listing.entries \in Seq(ListedType) /\ listing.names \in Seq(Nat)
      /\ listing.held \in Seq(Entries)
  BY <1>1 DEF ListingType
<1>3. Append(listing.entries, NewListed(e)) \in Seq(ListedType)
  <2>1. NewListed(e) \in ListedType
    BY <1>1, NewListedType
  <2>2. QED
    BY <1>2, <2>1
<1>4. listing.names \o Append(ListedName(e), 0) \in Seq(Nat)
  <2>1. ListedName(e) \in Seq(Byte)
    BY <1>1, NameFacts
  <2>2. ListedName(e) \in Seq(Nat)
    BY <2>1, BytesAreNats
  <2>3. QED
    BY <1>2, <2>2
<1>5. (IF reader = "linux" THEN listing.held ELSE Append(listing.held, e)) \in Seq(Entries)
  BY <1>1, <1>2
<1>6. listing' = [listing EXCEPT
          !.entries = Append(listing.entries, NewListed(e)),
          !.names = listing.names \o Append(ListedName(e), 0),
          !.held = IF reader = "linux" THEN listing.held ELSE Append(listing.held, e)]
  BY DEF Push
<1> DEFINE A == Append(listing.entries, NewListed(e))
           B == listing.names \o Append(ListedName(e), 0)
           C == IF reader = "linux" THEN listing.held ELSE Append(listing.held, e)
<1>7. A \in Seq(ListedType) /\ B \in Seq(Nat) /\ C \in Seq(Entries)
      /\ listing' = [listing EXCEPT !.entries = A, !.names = B, !.held = C]
  BY <1>3, <1>4, <1>5, <1>6
<1> HIDE DEF A, B, C
<1>8. /\ listing' \in ListingType /\ listing'.entries = A /\ listing'.names = B /\ listing'.held = C
      /\ listing'.failures = listing.failures
  BY <1>1, <1>7 DEF ListingType
<1>9. QED
  BY <1>8 DEF A, B, C

\* An entry that is listed stays listed when names and held go on.
LEMMA StaysListed ==
    ASSUME NEW entry \in ListedType, NEW names \in Seq(Nat), NEW held \in Seq(Entries),
           NEW more \in Seq(Nat), NEW holds \in Seq(Entries), NEW extra \in Seq(Nat),
           IsListed(entry, names, held),
           more = names \o extra,
           \A i \in DOMAIN held : i \in DOMAIN holds /\ holds[i] = held[i]
    PROVE  IsListed(entry, more, holds)
<1>1. entry.start \in Nat /\ entry.len \in Nat
  BY DEF ListedType
<1>2. entry.start + entry.len <= Len(names) /\ Len(more) = Len(names) + Len(extra)
      /\ Len(names) \in Nat /\ Len(extra) \in Nat
  BY LenProperties DEF IsListed
<1>3. SubSeq(more, entry.start + 1, entry.start + entry.len)
        = SubSeq(names, entry.start + 1, entry.start + entry.len)
  <2> DEFINE from == entry.start
             size == entry.len
  <2>1. from \in Nat /\ size \in Nat /\ from + size <= Len(names)
    BY <1>1, <1>2
  <2> HIDE DEF from, size
  <2>2. SubSeq(names \o extra, from + 1, from + size) = SubSeq(names, from + 1, from + size)
    BY <2>1, SubSeqOfMore
  <2>3. QED
    BY <2>2 DEF from, size
<1>4. entry.start + entry.len <= Len(more)
  BY <1>1, <1>2
<1>5. reader # "linux" => entry.slot + 1 \in DOMAIN holds /\ holds[entry.slot + 1] = entry.of
  BY DEF IsListed
<1>6. QED
  BY <1>3, <1>4, <1>5 DEF IsListed

LEMMA PushStep ==
    ASSUME ListTypes, EntriesInv, NEW e \in content, e \notin Of(listing.entries), Push(e),
           reader' = reader, content' = content
    PROVE  Pushed(e)
<1> DEFINE l == listing
           m == listing'
           N == Len(l.entries)
           new == NewListed(e)
           name == ListedName(e)
<1>1. /\ m \in ListingType
      /\ m.entries = Append(l.entries, new)
      /\ m.names = l.names \o Append(name, 0)
      /\ m.held = IF reader = "linux" THEN l.held ELSE Append(l.held, e)
      /\ m.failures = l.failures
  BY PushParts
<1>2. /\ l.entries \in Seq(ListedType) /\ l.names \in Seq(Nat) /\ l.held \in Seq(Entries)
      /\ m.entries \in Seq(ListedType) /\ m.names \in Seq(Nat) /\ m.held \in Seq(Entries)
      /\ e \in Entries
  BY <1>1 DEF ListTypes, ListingType
<1>3. /\ name \in Seq(Byte) /\ name \in Seq(Nat) /\ Len(name) = Len(e.name)
      /\ Append(name, 0) \in Seq(Nat) /\ Len(Append(name, 0)) = Len(name) + 1
      /\ Len(name) \in Nat
  <2>1. name \in Seq(Byte) /\ Len(name) = Len(e.name) /\ Len(name) \in Nat
    BY <1>2, NameFacts, LenProperties
  <2>2. name \in Seq(Nat)
    BY <2>1, BytesAreNats
  <2> HIDE DEF name
  <2>3. QED
    BY <2>1, <2>2
<1>4. /\ N \in Nat /\ DOMAIN l.entries = 1 .. N /\ DOMAIN m.entries = 1 .. (N + 1)
      /\ \A i \in 1 .. N : m.entries[i] = l.entries[i]
      /\ m.entries[N + 1] = new
      /\ \A i \in 1 .. N : l.entries[i] \in ListedType
  <2>1. new \in ListedType
    BY <1>2, NewListedType
  <2> HIDE DEF new
  <2>2. QED
    BY <1>1, <1>2, <2>1, LenProperties
<1>5. /\ new.of = e /\ new.len = Len(name) /\ new.start = Len(l.names)
      /\ new.prefix = Prefix(name) /\ new.kind = ListedKind(e) /\ new.slot = Slot
  BY DEF NewListed
<1>6. /\ \A i \in DOMAIN l.held : i \in DOMAIN m.held /\ m.held[i] = l.held[i]
      /\ reader # "linux" => Slot + 1 \in DOMAIN m.held /\ m.held[Slot + 1] = e
  <2>1. CASE reader = "linux"
    BY <1>1, <2>1
  <2>2. CASE reader # "linux"
    <3>1. m.held = Append(l.held, e) /\ Slot = Len(l.held) /\ Len(l.held) \in Nat
      BY <1>1, <1>2, <2>2, LenProperties DEF Slot
    <3>2. QED
      BY <1>2, <3>1
  <2>3. QED
    BY <2>1, <2>2
<1> HIDE DEF new, name, N, m
<1>7. ASSUME NEW i \in 1 .. N PROVE IsListed(m.entries[i], m.names, m.held)
  <2> DEFINE entry == l.entries[i]
             names == l.names
             holds == l.held
             moreNames == m.names
             moreHeld == m.held
             extra == Append(name, 0)
  <2>1. /\ entry \in ListedType /\ IsListed(entry, names, holds)
        /\ m.entries[i] = entry
    BY <1>4 DEF EntriesInv
  <2>2. /\ names \in Seq(Nat) /\ moreNames \in Seq(Nat) /\ extra \in Seq(Nat)
        /\ holds \in Seq(Entries) /\ moreHeld \in Seq(Entries)
        /\ moreNames = names \o extra
        /\ \A k \in DOMAIN holds : k \in DOMAIN moreHeld /\ moreHeld[k] = holds[k]
    BY <1>1, <1>2, <1>3, <1>6
  <2> HIDE DEF entry, names, holds, moreNames, moreHeld, extra
  <2>3. IsListed(entry, moreNames, moreHeld)
    BY <2>1, <2>2, StaysListed
  <2>4. QED
    BY <2>1, <2>3 DEF moreNames, moreHeld
<1>8. IsListed(m.entries[N + 1], m.names, m.held)
  <2> DEFINE names == l.names
             p == Len(names)
  <2>1. names \in Seq(Nat) /\ p \in Nat /\ m.names = names \o Append(name, 0)
    BY <1>1, <1>2, LenProperties
  <2> HIDE DEF names
  <2>2. SubSeq(m.names, p + 1, p + Len(name)) = name
    BY <1>3, <2>1, SubSeqOfNew
  <2>3. p + Len(name) <= Len(m.names)
    BY <1>3, <2>1
  <2>4. new.start = p
    BY <1>5 DEF names
  <2> HIDE DEF p
  <2>5. QED
    BY <1>4, <1>5, <1>6, <2>2, <2>3, <2>4 DEF IsListed, name
<1>9. \A i \in DOMAIN m.entries : IsListed(m.entries[i], m.names, m.held)
  <2>1. \A i \in DOMAIN m.entries : i \in 1 .. N \/ i = N + 1
    BY <1>4
  <2>2. QED
    BY <1>7, <1>8, <2>1
<1>10. (\A i \in DOMAIN listing.entries : IsListed(listing.entries[i], listing.names, listing.held))'
  BY <1>9 DEF m, IsListed, ListedName, ListedKind, KindOf
<1>11. \A i \in 1 .. N : l.entries[i].of # e
  BY <1>4 DEF Of
<1>12. \A i, j \in DOMAIN m.entries : m.entries[i].of = m.entries[j].of => i = j
  <2>1. \A i, j \in 1 .. N : l.entries[i].of = l.entries[j].of => i = j
    BY <1>4 DEF EntriesInv
  <2>2. \A i \in DOMAIN m.entries : i \in 1 .. N \/ i = N + 1
    BY <1>4
  <2>3. QED
    BY <1>4, <1>5, <1>11, <2>1, <2>2
<1>13. Of(m.entries) = Of(l.entries) \cup {e}
  <2>1. \A i \in 1 .. (N + 1) : i \in 1 .. N \/ i = N + 1
    BY <1>4
  <2>2. N + 1 \in 1 .. (N + 1) /\ \A i \in 1 .. N : i \in 1 .. (N + 1)
    BY <1>4
  <2>3. QED
    BY <1>4, <1>5, <2>1, <2>2, SMTT(30) DEF Of
<1>14. Of(l.entries) \in SUBSET Entries
  BY <1>4 DEF Of, ListedType
<1>15. Len(m.names) = Cardinality(BytesOf(Of(m.entries)))
  <2> DEFINE names == l.names
             some == Of(l.entries)
  <2>1. Len(names) = Cardinality(BytesOf(some)) /\ names \in Seq(Nat) /\ m.names = names \o Append(name, 0)
    BY <1>1, <1>2 DEF EntriesInv
  <2>2. some \in SUBSET Entries /\ e \in Entries /\ e \notin some
    BY <1>2, <1>14
  <2> HIDE DEF names, some
  <2>3. /\ Cardinality(BytesOf(some \cup {e})) = Cardinality(BytesOf(some)) + Len(e.name) + 1
        /\ Cardinality(BytesOf(some)) \in Nat /\ Len(e.name) \in Nat
    BY <2>2, BytesOfMore
  <2>4. Len(m.names) = Len(names) + (Len(name) + 1)
    <3> DEFINE t == Append(name, 0)
    <3>1. t \in Seq(Nat) /\ Len(t) = Len(name) + 1
      BY <1>3
    <3> HIDE DEF t
    <3>2. Len(names \o t) = Len(names) + Len(t)
      BY <2>1, <3>1
    <3>3. QED
      BY <2>1, <3>1, <3>2 DEF t
  <2>5. Len(m.names) = Cardinality(BytesOf(some \cup {e}))
    BY <1>3, <2>1, <2>3, <2>4
  <2>6. QED
    BY <1>13, <2>5 DEF some
<1>16. EntriesInv'
  BY <1>10, <1>12, <1>15 DEF EntriesInv, m, Of
<1>17. QED
  BY <1>1, <1>13, <1>16 DEF Pushed, m, Of

\* A listing that stays as it is, or whose failures alone change.
SameEntries ==
    /\ listing' \in ListingType /\ EntriesInv'
    /\ listing'.entries = listing.entries
    /\ listing'.names = listing.names

LEMMA EntriesStay ==
    ASSUME ListTypes, EntriesInv, listing' \in ListingType,
           listing'.entries = listing.entries, listing'.names = listing.names,
           listing'.held = listing.held, reader' = reader, content' = content
    PROVE  SameEntries
<1>1. (\A i \in DOMAIN listing.entries : IsListed(listing.entries[i], listing.names, listing.held))'
  BY DEF EntriesInv, IsListed, ListedName, ListedKind, KindOf
<1>2. (\A i, j \in DOMAIN listing.entries : listing.entries[i].of = listing.entries[j].of => i = j)'
  BY DEF EntriesInv
<1>3. (Len(listing.names) = Cardinality(BytesOf(Of(listing.entries))))'
  BY DEF EntriesInv, Of
<1>4. EntriesInv'
  BY <1>1, <1>2, <1>3 DEF EntriesInv
<1>5. QED
  BY <1>4 DEF SameEntries

LEMMA NothingPushed ==
    ASSUME ListTypes, EntriesInv, listing' = listing, reader' = reader, content' = content
    PROVE  SameEntries
<1>1. listing' \in ListingType
  BY DEF ListTypes
<1>2. QED
  BY <1>1, EntriesStay

\* A failure is added to those that there are.
LEMMA FailStep ==
    ASSUME ListTypes, EntriesInv, NEW name \in Seq(Nat), NEW what \in {"listing", "kind", "larger"}, Fail(name, what),
           reader' = reader, content' = content
    PROVE  /\ SameEntries
           /\ \A called, why : HasFailed(called, why)' <=>
                  HasFailed(called, why) \/ (called = name /\ why = what)
<1> DEFINE F == listing.failures
           failed == [name |-> name, what |-> what]
           more == Append(F, failed)
           FT == [name : Seq(Nat), what : {"listing", "kind", "larger"}]
<1>1. listing \in ListingType
  BY DEF ListTypes
<1>2. F \in Seq(FT) /\ failed \in FT
  BY <1>1 DEF ListingType
<1> HIDE DEF failed, FT, F
<1>3. more \in Seq(FT)
  BY <1>2
<1>4. listing' = [listing EXCEPT !.failures = more]
  BY DEF Fail, failed, F
<1>5. /\ DOMAIN F = 1 .. Len(F) /\ Len(F) \in Nat /\ DOMAIN more = 1 .. (Len(F) + 1)
      /\ \A i \in 1 .. Len(F) : more[i] = F[i]
      /\ more[Len(F) + 1] = failed
  BY <1>2, LenProperties
<1> HIDE DEF more
<1>6. /\ listing' \in ListingType
      /\ listing'.entries = listing.entries /\ listing'.names = listing.names
      /\ listing'.held = listing.held /\ listing'.failures = more
  BY <1>1, <1>3, <1>4 DEF ListingType, FT
<1>7. SameEntries
  BY <1>6, EntriesStay
<1>8. ASSUME NEW called, NEW why
      PROVE  HasFailed(called, why)' <=> HasFailed(called, why) \/ (called = name /\ why = what)
  <2> DEFINE this == [name |-> called, what |-> why]
  <2>1. this = failed <=> called = name /\ why = what
    <3>1. this = failed => this.name = failed.name /\ this.what = failed.what
      OBVIOUS
    <3>2. QED
      BY <3>1 DEF failed
  <2>2. HasFailed(called, why)' <=> \E i \in DOMAIN more : more[i] = this
    BY <1>6 DEF HasFailed
  <2>3. HasFailed(called, why) <=> \E i \in DOMAIN F : F[i] = this
    BY DEF HasFailed, F
  <2> HIDE DEF this
  <2>4. \A i \in 1 .. (Len(F) + 1) : i \in 1 .. Len(F) \/ i = Len(F) + 1
    BY <1>5
  <2>5. Len(F) + 1 \in 1 .. (Len(F) + 1) /\ \A i \in 1 .. Len(F) : i \in 1 .. (Len(F) + 1)
    BY <1>5
  <2>6. QED
    BY <1>5, <2>1, <2>2, <2>3, <2>4, <2>5
<1>9. QED
  BY <1>7, <1>8

LEMMA FailuresStay ==
    ASSUME listing'.failures = listing.failures
    PROVE  \A called, why : HasFailed(called, why)' <=> HasFailed(called, why)
BY DEF HasFailed

\* A name of this directory that does not fit: its names are too many.
LEMMA LargerStep ==
    ASSUME ListTypes, EntriesInv, NEW e \in content, e \notin Of(listing.entries), TooLarge(e)
    PROVE  AllNames > MaxNames
<1> DEFINE some == Of(listing.entries)
<1>1. content \in SUBSET Entries /\ e \in Entries
  BY DEF ListTypes
<1>2. some \in SUBSET content
  BY DEF EntriesInv, IsListed, Of
<1>3. Len(listing.names) = Cardinality(BytesOf(some))
  BY DEF EntriesInv
<1>4. Len(listing.names) + Len(ListedName(e)) + 1 > MaxNames
  BY DEF TooLarge
<1>5. some \cup {e} \in SUBSET content /\ some \in SUBSET Entries /\ e \notin some
  BY <1>1, <1>2
<1>6. Cardinality(BytesOf(some \cup {e})) <= Cardinality(BytesOf(content))
  <2> HIDE DEF some
  <2>1. QED
    BY <1>1, <1>5, BytesOfPart
<1>7. /\ Cardinality(BytesOf(some \cup {e})) = Cardinality(BytesOf(some)) + Len(e.name) + 1
      /\ Cardinality(BytesOf(some)) \in Nat /\ Len(e.name) \in Nat
  <2> HIDE DEF some
  <2>1. QED
    BY <1>1, <1>5, BytesOfMore
<1>8. Cardinality(BytesOf(content)) \in Nat /\ MaxNames \in Nat
  BY <1>1, BytesOfFinite, ListingAssumption
<1>9. Len(ListedName(e)) = Len(e.name)
  BY <1>1, NameFacts
<1> HIDE DEF some
<1>10. QED
  BY <1>3, <1>4, <1>6, <1>7, <1>8, <1>9 DEF AllNames

-----------------------------------------------------------------------------
(* The steps.                                                              *)

LEMMA EmptyListing ==
    LET l == FromSpare(NoBuffers)
    IN  /\ l \in ListingType
        /\ DOMAIN l.entries = {} /\ DOMAIN l.failures = {}
        /\ Of(l.entries) = {}
        /\ Len(l.names) = Cardinality(BytesOf({}))
<1> DEFINE l == FromSpare(NoBuffers)
<1>1. l = [entries |-> <<>>, names |-> <<>>, held |-> <<>>, failures |-> <<>>]
  BY DEF FromSpare, NoBuffers
<1>2. l \in ListingType
  BY <1>1 DEF ListingType
<1>3. DOMAIN l.entries = {} /\ DOMAIN l.failures = {} /\ Len(l.names) = 0
  BY <1>1
<1>4. Of(l.entries) = {}
  BY <1>3 DEF Of
<1>5. BytesOf({}) = {}
  BY DEF BytesOf
<1>6. Cardinality({}) = 0
  BY FS_EmptySet
<1>7. QED
  BY <1>2, <1>3, <1>4, <1>5, <1>6

\* A listing that has just been begun, or given up.
LEMMA EmptyStep ==
    ASSUME listing' = FromSpare(NoBuffers)
    PROVE  /\ listing' \in ListingType /\ EntriesInv'
           /\ Of(listing.entries)' = {}
           /\ \A called, why : ~HasFailed(called, why)'
<1> DEFINE l == FromSpare(NoBuffers)
<1>1. /\ l \in ListingType /\ DOMAIN l.entries = {} /\ DOMAIN l.failures = {}
      /\ Of(l.entries) = {} /\ Len(l.names) = Cardinality(BytesOf({}))
  BY EmptyListing
<1> HIDE DEF l
<1>2. listing' = l
  BY DEF l
<1>3. Of(listing.entries)' = {}
  BY <1>1, <1>2 DEF Of
<1>4. EntriesInv'
  BY <1>1, <1>2, <1>3 DEF EntriesInv
<1>5. \A called, why : ~HasFailed(called, why)'
  BY <1>1, <1>2 DEF HasFailed
<1>6. QED
  BY <1>1, <1>2, <1>3, <1>4, <1>5

LEMMA InitKeeps ==
    ASSUME ListInit
    PROVE  ListInv
<1> USE DEF ListInit
<1> DEFINE l == FromSpare(NoBuffers)
<1>1. /\ l \in ListingType /\ DOMAIN l.entries = {} /\ DOMAIN l.failures = {}
      /\ Of(l.entries) = {} /\ Len(l.names) = Cardinality(BytesOf({}))
  BY EmptyListing
<1> HIDE DEF l
<1>2. listing = l
  BY DEF l
<1>3. ListTypes
  BY <1>1, <1>2 DEF ListTypes
<1>4. EntriesInv
  BY <1>1, <1>2 DEF EntriesInv
<1>5. PlacesInv
  BY <1>1, <1>2 DEF PlacesInv, Accounted
<1>6. LargerInv
  BY <1>1, <1>2 DEF LargerInv, IsLarger, HasFailed
<1>7. QED
  BY <1>3, <1>4, <1>5, <1>6 DEF ListInv, RestartInv, EndInv, SortedInv

LEMMA BeginKeeps ==
    ASSUME ListInv, Begin
    PROVE  ListInv'
<1> USE DEF Begin
<1>1. ListTypes
  BY DEF ListInv
<1>2. listing' = FromSpare(NoBuffers) /\ spare' = NoBuffers
  BY <1>1 DEF ListTypes
<1>3. /\ listing' \in ListingType /\ EntriesInv' /\ Of(listing.entries)' = {}
      /\ \A called, why : ~HasFailed(called, why)'
  BY <1>2, EmptyStep
<1>4. /\ content' \subseteq Entries /\ left' \subseteq content' \cup Dots
      /\ content' \subseteq left'
      /\ reader' = "windows" => left' = content' \cup Dots
  BY DEF Contents
<1>5. ListTypes'
  BY <1>1, <1>2, <1>3, <1>4 DEF ListTypes
<1>6. PlacesInv'
  <2>1. Accounted({})'
    BY <1>3, <1>4 DEF Accounted
  <2>2. QED
    BY <2>1 DEF PlacesInv
<1>7. RestartInv'
  BY <1>4 DEF RestartInv
<1>8. LargerInv'
  BY <1>3 DEF LargerInv, IsLarger
<1>9. QED
  BY <1>3, <1>5, <1>6, <1>7, <1>8 DEF ListInv, EndInv, SortedInv

\* The listing is given up: Refused and Visited.
LEMMA DroppedKeeps ==
    ASSUME ListInv, Dropped, reader' = reader, spare' = NoBuffers,
           UNCHANGED windowsVars
    PROVE  ListInv'
<1> USE DEF Dropped
<1>1. ListTypes
  BY DEF ListInv
<1>2. /\ listing' \in ListingType /\ EntriesInv' /\ Of(listing.entries)' = {}
      /\ \A called, why : ~HasFailed(called, why)'
  BY EmptyStep
<1>3. ListTypes'
  BY <1>1, <1>2 DEF ListTypes, windowsVars
<1>4. PlacesInv'
  <2>1. Accounted({})'
    BY <1>2 DEF Accounted
  <2>2. QED
    BY <2>1 DEF PlacesInv
<1>5. LargerInv'
  BY <1>2 DEF LargerInv, IsLarger
<1>6. QED
  BY <1>2, <1>3, <1>4, <1>5 DEF ListInv, RestartInv, EndInv, SortedInv

LEMMA RefusedKeeps ==
    ASSUME ListInv, Refused
    PROVE  ListInv'
<1>1. spare' = NoBuffers
  BY DEF Refused, ListInv, ListTypes
<1>2. QED
  BY <1>1, DroppedKeeps DEF Refused

LEMMA VisitedKeeps ==
    ASSUME ListInv, Visited
    PROVE  ListInv'
BY DroppedKeeps DEF Visited, IntoSpare

\* All but the listing's failures and where it is at stays: the entries are
\* where they were.
LEMMA EntriesEndKeeps ==
    ASSUME ListInv, EntriesEnd
    PROVE  ListInv'
<1> USE DEF EntriesEnd, ByEntry
<1>1. ListTypes /\ EntriesInv
  BY DEF ListInv
<1>2. SameEntries
  BY <1>1, NothingPushed
<1>3. \A called, why : HasFailed(called, why)' <=> HasFailed(called, why)
  BY FailuresStay
<1>4. ListTypes'
  BY <1>1 DEF ListTypes, windowsVars
<1>5. PlacesInv'
  <2>1. Accounted({})
    BY DEF ListInv, PlacesInv
  <2>2. Accounted({})'
    BY <1>2, <1>3, <2>1 DEF Accounted, IsLarger, SameEntries, windowsVars
  <2>3. QED
    BY <2>2 DEF PlacesInv
<1>6. LargerInv'
  BY <1>3 DEF ListInv, LargerInv, IsLarger, AllNames
<1>7. EndInv'
  BY <1>3 DEF EndInv
<1>8. RestartInv'
  BY DEF ListInv, RestartInv, windowsVars
<1>9. QED
  BY <1>2, <1>4, <1>5, <1>6, <1>7, <1>8 DEF ListInv, SortedInv, SameEntries

LEMMA EntryKeeps ==
    ASSUME ListInv, Entry
    PROVE  ListInv'
<1>1. /\ ListTypes /\ EntriesInv /\ Accounted({}) /\ RestartInv
      /\ LargerInv
  BY DEF ListInv, PlacesInv, Entry, ByEntry
<1>2. /\ pc = "list" /\ reader # "windows"
      /\ UNCHANGED <<reader, content, spare, buffer, written, at, restart, honest, listed>>
  BY DEF Entry, ByEntry, windowsVars
<1>3. content \subseteq Entries /\ left \subseteq content \cup Dots
      /\ \A e \in content : e \notin Dots
  BY <1>1, NameFacts DEF ListTypes
<1>4. left \cap Of(listing.entries) = {}
  BY <1>1 DEF Accounted
<1>5. PICK e \in left :
        /\ left' = left \ {e}
        /\ \/ e \in Dots /\ UNCHANGED <<pc, listing>>
           \/ e \notin Dots /\ ~TooLarge(e) /\ Push(e) /\ UNCHANGED pc
           \/ e \notin Dots /\ TooLarge(e) /\ Fail(<<>>, "larger") /\ pc' = "sort"
  BY DEF Entry
<1>6. RestartInv'
  BY <1>1, <1>2, <1>5 DEF RestartInv
<1>7. CASE e \in Dots /\ UNCHANGED <<pc, listing>>
  <2>1. SameEntries
    BY <1>1, <1>2, <1>7, NothingPushed
  <2>2. \A called, why : HasFailed(called, why)' <=> HasFailed(called, why)
    BY <1>7, FailuresStay
  <2>3. ListTypes'
    BY <1>1, <1>2, <1>5, <1>7 DEF ListTypes
  <2>4. Accounted({})'
    BY <1>1, <1>2, <1>3, <1>5, <1>7, <2>1, <2>2 DEF Accounted, IsLarger, SameEntries
  <2>5. PlacesInv'
    BY <1>2, <1>7, <2>4 DEF PlacesInv
  <2>6. LargerInv'
    BY <1>1, <1>2, <2>2 DEF LargerInv, IsLarger, AllNames
  <2>7. QED
    BY <1>2, <1>6, <1>7, <2>1, <2>3, <2>5, <2>6 DEF ListInv, EndInv, SortedInv, SameEntries
<1>8. CASE e \notin Dots /\ ~TooLarge(e) /\ Push(e) /\ UNCHANGED pc
  <2>1. e \in content /\ e \notin Of(listing.entries)
    BY <1>3, <1>4, <1>8
  <2>2. Pushed(e)
    BY <1>1, <1>2, <1>8, <2>1, PushStep
  <2>3. \A called, why : HasFailed(called, why)' <=> HasFailed(called, why)
    BY <2>2, FailuresStay DEF Pushed
  <2>4. ListTypes'
    BY <1>1, <1>2, <1>5, <1>8, <2>2 DEF ListTypes, Pushed
  <2>5. Accounted({})'
    BY <1>1, <1>2, <1>5, <2>1, <2>2, <2>3 DEF Accounted, IsLarger, Pushed
  <2>6. PlacesInv'
    BY <1>2, <1>8, <2>5 DEF PlacesInv
  <2>7. LargerInv'
    BY <1>1, <1>2, <2>3 DEF LargerInv, IsLarger, AllNames
  <2>8. QED
    BY <1>2, <1>6, <1>8, <2>2, <2>4, <2>6, <2>7 DEF ListInv, EndInv, SortedInv, Pushed
<1>9. CASE e \notin Dots /\ TooLarge(e) /\ Fail(<<>>, "larger") /\ pc' = "sort"
  <2>1. e \in content /\ e \notin Of(listing.entries)
    BY <1>3, <1>4, <1>9
  <2>2. <<>> \in Seq(Nat) /\ "larger" \in {"listing", "kind", "larger"}
    OBVIOUS
  <2>3. /\ SameEntries
        /\ \A called, why : HasFailed(called, why)' <=>
               HasFailed(called, why) \/ (called = <<>> /\ why = "larger")
    BY <1>1, <1>2, <1>9, <2>2, FailStep
  <2>4. ListTypes'
    BY <1>1, <1>2, <1>5, <1>9, <2>3 DEF ListTypes, SameEntries
  <2>5. IsLarger'
    BY <2>3 DEF IsLarger
  <2>6. Accounted({})'
    BY <1>1, <1>2, <1>5, <2>3, <2>5 DEF Accounted, SameEntries
  <2>7. PlacesInv'
    BY <1>9, <2>6 DEF PlacesInv
  <2>8. LargerInv'
    BY <1>1, <1>2, <1>9, <2>1, LargerStep DEF LargerInv, AllNames
  <2>9. QED
    BY <1>6, <1>9, <2>3, <2>4, <2>5, <2>7, <2>8 DEF ListInv, EndInv, SortedInv, SameEntries
<1>10. QED
  BY <1>5, <1>7, <1>8, <1>9

\* A failure that is not that of a large listing: what is accounted for is so
\* still.
LEMMA FailsKeeps ==
    ASSUME ListInv, pc = "list", NEW name \in Seq(Nat), NEW what \in {"listing", "kind"},
           Fail(name, what), left' \subseteq left,
           \A e \in left : e \in left' \/ (name = Lossy(e.name) /\ what = "kind"),
           pc' \in {"list", "sort"}, pc' = "sort" => name = <<>> /\ what = "listing",
           pc' = "list" => reader # "windows",
           UNCHANGED <<reader, content, spare, windowsVars, listed>>
    PROVE  ListInv'
<1>1. ListTypes /\ EntriesInv /\ Accounted({}) /\ RestartInv /\ LargerInv
  BY DEF ListInv, PlacesInv
<1>2. UNCHANGED <<reader, content, spare, buffer, written, at, restart, honest, listed>>
  BY DEF windowsVars
<1>3. /\ SameEntries
      /\ \A called, why : HasFailed(called, why)' <=>
             HasFailed(called, why) \/ (called = name /\ why = what)
  <2>1. what \in {"listing", "kind", "larger"}
    OBVIOUS
  <2>2. QED
    BY <1>1, <1>2, <2>1, FailStep
<1>4. IsLarger' <=> IsLarger
  BY <1>3 DEF IsLarger
<1>5. ListTypes'
  BY <1>1, <1>2, <1>3 DEF ListTypes, SameEntries
<1>6. Accounted({})'
  <2>1. (left \cap {} = {} /\ (left \cup {}) \cap Of(listing.entries) = {})'
    BY <1>1, <1>3 DEF Accounted, SameEntries
  <2>2. ASSUME honest', ~IsLarger', NEW e \in content'
        PROVE  (\/ e \in Of(listing.entries)
                \/ HasFailed(Lossy(e.name), "kind")
                \/ e \in left \cup {})'
    <3>1. \/ e \in Of(listing.entries)
          \/ HasFailed(Lossy(e.name), "kind")
          \/ e \in left \cup {}
      BY <1>1, <1>2, <1>4, <2>2 DEF Accounted
    <3>2. HasFailed(Lossy(e.name), "kind")' <=>
              HasFailed(Lossy(e.name), "kind") \/ (Lossy(e.name) = name /\ "kind" = what)
      BY <1>3
    <3>3. Of(listing.entries)' = Of(listing.entries)
      BY <1>3 DEF SameEntries
    <3>4. QED
      BY <3>1, <3>2, <3>3
  <2>3. QED
    BY <2>1, <2>2 DEF Accounted
<1>7. PlacesInv'
  BY <1>6 DEF PlacesInv
<1>8. RestartInv'
  BY <1>1, <1>2 DEF RestartInv
<1>9. LargerInv'
  BY <1>1, <1>2, <1>4 DEF LargerInv, AllNames
<1>10. EndInv'
  BY <1>3 DEF EndInv
<1>11. QED
  BY <1>3, <1>5, <1>7, <1>8, <1>9, <1>10 DEF ListInv, SortedInv, SameEntries

LEMMA EntryFailsKeeps ==
    ASSUME ListInv, EntryFails
    PROVE  ListInv'
<1>1. <<>> \in Seq(Nat) /\ "listing" \in {"listing", "kind"}
  OBVIOUS
<1>2. /\ pc = "list" /\ Fail(<<>>, "listing") /\ left' \subseteq left
      /\ \A e \in left : e \in left'
      /\ pc' \in {"list", "sort"} /\ (pc' = "list" => reader # "windows")
      /\ UNCHANGED <<reader, content, spare, windowsVars, listed>>
  BY DEF EntryFails, ByEntry
<1>3. QED
  BY <1>1, <1>2, FailsKeeps

LEMMA CallFailsKeeps ==
    ASSUME ListInv, CallFails
    PROVE  ListInv'
<1>1. <<>> \in Seq(Nat) /\ "listing" \in {"listing", "kind"}
  OBVIOUS
<1>2. /\ pc = "list" /\ Fail(<<>>, "listing") /\ left' \subseteq left
      /\ \A e \in left : e \in left'
      /\ pc' \in {"list", "sort"} /\ pc' # "list"
      /\ UNCHANGED <<reader, content, spare, windowsVars, listed>>
  BY DEF CallFails
<1>3. QED
  BY <1>1, <1>2, FailsKeeps

LEMMA KindFailsKeeps ==
    ASSUME ListInv, KindFails
    PROVE  ListInv'
<1>1. PICK e \in left : left' = left \ {e} /\ Fail(Lossy(e.name), "kind")
  BY DEF KindFails
<1>2. Lossy(e.name) \in Seq(Nat) /\ "kind" \in {"listing", "kind"}
  <2>1. e \in Entries \cup Dots
    BY DEF ListInv, ListTypes
  <2>2. e.name \in Seq(Byte)
    <3>1. CASE e \in Entries
      BY <3>1, NameFacts
    <3>2. CASE e \in Dots
      <4>1. e.name = <<Dot>> \/ e.name = <<Dot, Dot>>
        BY <3>2 DEF Dots
      <4>2. Dot \in Byte
        BY DEF Dot, Byte
      <4>3. <<Dot>> \in Seq(Byte) /\ <<Dot, Dot>> \in Seq(Byte)
        BY <4>2
      <4>4. QED
        BY <4>1, <4>3
    <3>3. QED
      BY <2>1, <3>1, <3>2
  <2>3. Lossy(e.name) \in Seq(Byte)
    BY <2>2, LossyFacts
  <2>4. QED
    BY <2>3, BytesAreNats
<1>3. /\ pc = "list" /\ left' \subseteq left
      /\ \A f \in left : f \in left' \/ f = e
      /\ pc' = "list" /\ reader # "windows"
      /\ UNCHANGED <<reader, content, spare, windowsVars, listed>>
  BY <1>1 DEF KindFails, ByEntry
<1>4. \A f \in left : f \in left' \/ (Lossy(e.name) = Lossy(f.name) /\ "kind" = "kind")
  BY <1>3
<1>5. QED
  BY <1>1, <1>2, <1>3, <1>4, FailsKeeps

LEMMA NoMoreFilesKeeps ==
    ASSUME ListInv, NoMoreFiles
    PROVE  ListInv'
<1>1. /\ ListTypes /\ EntriesInv /\ Accounted({}) /\ RestartInv /\ LargerInv
      /\ UNCHANGED <<reader, content, left, listing, spare, buffer, written, at, restart, honest>>
      /\ pc' = "sort" /\ pc = "list" /\ reader = "windows" /\ Given = {}
  BY DEF ListInv, PlacesInv, NoMoreFiles, windowsVars
<1>2. SameEntries
  BY <1>1, NothingPushed
<1>3. \A called, why : HasFailed(called, why)' <=> HasFailed(called, why)
  BY <1>1, FailuresStay
<1>4. left = {}
  BY <1>1 DEF Given, RestartInv
<1>5. ListTypes'
  BY <1>1 DEF ListTypes
<1>6. Accounted({})'
  BY <1>1, <1>2, <1>3 DEF Accounted, IsLarger, SameEntries
<1>7. PlacesInv'
  BY <1>1, <1>6 DEF PlacesInv
<1>8. LargerInv'
  BY <1>1, <1>3 DEF LargerInv, IsLarger, AllNames
<1>9. EndInv'
  BY <1>1, <1>4 DEF EndInv
<1>10. RestartInv'
  BY <1>1 DEF RestartInv
<1>11. QED
  BY <1>1, <1>2, <1>5, <1>7, <1>8, <1>9, <1>10 DEF ListInv, SortedInv, SameEntries

-----------------------------------------------------------------------------
(* The buffer.                                                             *)

\* A batch holds entries of those that are to be given, each once.
BatchIs(batch) ==
    /\ batch \in Seq(Entries \cup Dots)
    /\ Len(batch) \in Nat /\ 0 < Len(batch)
    /\ DOMAIN batch = 1 .. Len(batch)
    /\ \A i \in 1 .. Len(batch) : batch[i] \in Given
    /\ \A i, k \in 1 .. Len(batch) : batch[i] = batch[k] => i = k

LEMMA GivenFinite ==
    ASSUME ListTypes
    PROVE  IsFiniteSet(Given) /\ Given \subseteq Entries \cup Dots
<1> DEFINE e == [name |-> <<Dot>>, type |-> "directory"]
           f == [name |-> <<Dot, Dot>>, type |-> "directory"]
<1>1. Given \subseteq Entries \cup Dots
  BY DEF Given, ListTypes
<1>2. IsFiniteSet({e}) /\ IsFiniteSet({f})
  BY FS_Singleton
<1>3. Dots = {e} \cup {f}
  BY DEF Dots
<1> HIDE DEF e, f
<1>4. IsFiniteSet({e} \cup {f})
  BY <1>2, FS_Union
<1>5. IsFiniteSet(Entries \cup Dots)
  BY <1>3, <1>4, FS_Union, NamesAssumption
<1>6. QED
  BY <1>1, <1>5, FS_Subset

LEMMA BatchFacts ==
    ASSUME ListTypes, NEW batch \in Batches
    PROVE  BatchIs(batch)
<1>1. IsFiniteSet(Given) /\ Given \subseteq Entries \cup Dots
  BY GivenFinite
<1>2. PICK some : some \subseteq Given /\ some # {} /\ batch \in SetToSeqs(some)
  BY DEF Batches
<1>3. IsFiniteSet(some)
  BY <1>1, <1>2, FS_Subset
<1> DEFINE n == Cardinality(some)
<1>4. n \in Nat /\ n # 0
  BY <1>2, <1>3, FS_CardinalityType, FS_EmptySet
<1>5. batch \in [1 .. n -> some] /\ \A i, k \in 1 .. n : i # k => batch[i] # batch[k]
  BY <1>2 DEF SetToSeqs
<1> HIDE DEF n
<1>6. batch \in [1 .. n -> Entries \cup Dots]
  BY <1>1, <1>2, <1>5
<1>7. batch \in Seq(Entries \cup Dots) /\ Len(batch) = n
  <2>1. batch \in Seq(Entries \cup Dots)
    BY <1>4, <1>6
  <2>2. DOMAIN batch = 1 .. n /\ DOMAIN batch = 1 .. Len(batch) /\ Len(batch) \in Nat
    BY <1>6, <2>1, LenProperties
  <2>3. QED
    BY <1>4, <2>1, <2>2
<1>8. QED
  BY <1>2, <1>4, <1>5, <1>7 DEF BatchIs

\* A chain has two cells for each record.
LEMMA ChainFacts ==
    ASSUME ListTypes, NEW batch, BatchIs(batch), NEW end \in {0, 2}
    PROVE  /\ Chain(batch, end) \in Seq(CellType)
           /\ Len(Chain(batch, end)) = 2 * Len(batch)
           /\ \A i \in 1 .. Len(batch) :
                  /\ Chain(batch, end)[2 * i - 1].entry = batch[i]
                  /\ Chain(batch, end)[2 * i - 1].next = IF i = Len(batch) THEN end ELSE 2
<1> DEFINE n == Len(batch)
           cell(c) == [entry |-> batch[(c + 1) \div 2],
                       next |-> IF c % 2 = 0 THEN 0 ELSE IF c + 1 = 2 * n THEN end ELSE 2]
           chain == [c \in 1 .. 2 * n |-> cell(c)]
<1>1. n \in Nat /\ \A i \in 1 .. n : batch[i] \in Entries \cup Dots
  BY GivenFinite DEF BatchIs
<1>2. Chain(batch, end) = chain
  BY DEF Chain
<1> HIDE DEF n
<1>3. \A c \in 1 .. 2 * n : (c + 1) \div 2 \in 1 .. n
  BY <1>1
<1>4. \A c \in 1 .. 2 * n : cell(c) \in CellType
  BY <1>1, <1>3 DEF CellType
<1>5. chain \in [1 .. 2 * n -> CellType]
  <2> HIDE DEF cell
  <2>1. QED
    BY <1>4
<1>6. 2 * n \in Nat
  BY <1>1
<1>7. chain \in Seq(CellType) /\ Len(chain) = 2 * n
  <2> HIDE DEF chain
  <2>1. chain \in Seq(CellType)
    BY <1>5, <1>6
  <2>2. DOMAIN chain = 1 .. 2 * n /\ DOMAIN chain = 1 .. Len(chain) /\ Len(chain) \in Nat
    BY <1>5, <2>1, LenProperties
  <2>3. QED
    BY <1>6, <2>1, <2>2
<1>8. ASSUME NEW i \in 1 .. n
      PROVE  /\ chain[2 * i - 1].entry = batch[i]
             /\ chain[2 * i - 1].next = IF i = n THEN end ELSE 2
  <2>1. /\ 2 * i - 1 \in 1 .. 2 * n
        /\ ((2 * i - 1) + 1) \div 2 = i
        /\ (2 * i - 1) % 2 = 1
        /\ ((2 * i - 1) + 1 = 2 * n) <=> (i = n)
    BY <1>1
  <2>2. chain[2 * i - 1] = cell(2 * i - 1)
    <3> HIDE DEF cell
    <3>1. QED
      BY <2>1
  <2> HIDE DEF chain
  <2>3. QED
    BY <2>1, <2>2
<1> HIDE DEF chain
<1>9. QED
  BY <1>2, <1>7, <1>8 DEF n

\* What the buffer holds once a chain has been written to its start.
LEMMA OverwrittenFacts ==
    ASSUME ListTypes, NEW chain \in Seq(CellType)
    PROVE  /\ Overwritten(chain) \in Seq(CellType)
           /\ Len(chain) <= Len(Overwritten(chain))
           /\ \A i \in 1 .. Len(chain) : Overwritten(chain)[i] = chain[i]
<1> DEFINE rest == SubSeq(buffer, Len(chain) + 1, Len(buffer))
<1>1. buffer \in Seq(CellType) /\ Len(buffer) \in Nat /\ Len(chain) \in Nat
  BY LenProperties DEF ListTypes
<1>2. rest \in Seq(CellType)
  <2> DEFINE from == Len(chain) + 1
             to == Len(buffer)
  <2>1. from \in Nat /\ from # 0 /\ to \in Nat
    BY <1>1
  <2>2. \A i \in from .. to : buffer[i] \in CellType
    <3>1. \A i \in from .. to : i \in 1 .. Len(buffer)
      BY <1>1
    <3>2. QED
      BY <1>1, <3>1, ElementOfSeq
  <2> HIDE DEF from, to
  <2>3. SubSeq(buffer, from, to) \in Seq(CellType)
    BY <1>1, <2>1, <2>2, SubSeqProperties
  <2>4. QED
    BY <2>3 DEF from, to
<1> HIDE DEF rest
<1>3. Overwritten(chain) = chain \o rest
  BY DEF Overwritten, rest
<1>4. Len(rest) \in Nat /\ Len(chain \o rest) = Len(chain) + Len(rest) /\ chain \o rest \in Seq(CellType)
  BY <1>1, <1>2, LenProperties
<1>5. \A i \in 1 .. Len(chain) : (chain \o rest)[i] = chain[i]
  BY <1>1, <1>2
<1>6. QED
  BY <1>1, <1>3, <1>4, <1>5

LEMMA CallKeeps ==
    ASSUME ListInv, Call
    PROVE  ListInv'
<1>1. /\ ListTypes /\ EntriesInv /\ Accounted({}) /\ RestartInv /\ LargerInv
  BY DEF ListInv, PlacesInv, Call
<1>2. /\ pc = "list" /\ reader = "windows" /\ restart' = FALSE /\ pc' = "records" /\ at' = 0
      /\ UNCHANGED <<reader, content, listing, spare, listed>>
  BY DEF Call
<1>3. Given = left
  BY <1>1, <1>2 DEF Given, RestartInv
<1>4. PICK batch \in Batches :
          /\ left' = Given \ ToSet(batch)
          /\ \/ /\ buffer' = Overwritten(Chain(batch, 0))
                /\ \E length \in 0 .. BufferLen + 1 :
                      /\ written' = length
                      /\ honest' = (honest /\ length = 2 * Len(batch))
             \/ /\ buffer' = Overwritten(Chain(batch, 2))
                /\ written' = 2 * Len(batch) /\ honest' = FALSE
  BY DEF Call
<1>5. BatchIs(batch)
  BY <1>1, BatchFacts
<1> DEFINE n == Len(batch)
<1>6. n \in Nat /\ 0 < n /\ DOMAIN batch = 1 .. n /\ (\A i \in 1 .. n : batch[i] \in left)
      /\ \A i, k \in 1 .. n : batch[i] = batch[k] => i = k
  BY <1>3, <1>5 DEF BatchIs
<1>7. PICK end \in {0, 2} :
          /\ buffer' = Overwritten(Chain(batch, end))
          /\ written' \in Nat /\ honest' \in BOOLEAN
          /\ end = 2 => written' = 2 * n
          /\ honest' => honest /\ end = 0 /\ written' = 2 * n
  <2>1. BufferLen + 1 \in Nat /\ 2 * n \in Nat
    BY <1>6, ListingAssumption
  <2>2. CASE /\ buffer' = Overwritten(Chain(batch, 0))
             /\ \E length \in 0 .. BufferLen + 1 :
                   /\ written' = length
                   /\ honest' = (honest /\ length = 2 * Len(batch))
    <3>1. written' \in Nat /\ honest' \in BOOLEAN /\ (honest' => honest /\ written' = 2 * n)
      <4>1. PICK length \in 0 .. BufferLen + 1 :
                written' = length /\ honest' = (honest /\ length = 2 * n)
        BY <2>2
      <4>2. written' \in Nat
        BY <2>1, <4>1
      <4>3. honest' \in BOOLEAN /\ (honest' => honest /\ written' = 2 * n)
        BY <4>1, Zenon
      <4>4. QED
        BY <4>2, <4>3
    <3>2. QED
      BY <2>2, <3>1
  <2>3. CASE /\ buffer' = Overwritten(Chain(batch, 2))
             /\ written' = 2 * Len(batch) /\ honest' = FALSE
    BY <2>1, <2>3
  <2>4. QED
    BY <1>4, <2>2, <2>3
<1> DEFINE chain == Chain(batch, end)
<1>8. /\ chain \in Seq(CellType) /\ Len(chain) = 2 * n
      /\ \A i \in 1 .. n : /\ chain[2 * i - 1].entry = batch[i]
                           /\ chain[2 * i - 1].next = IF i = n THEN end ELSE 2
  BY <1>1, <1>5, ChainFacts
<1> HIDE DEF chain
<1>9. /\ buffer' \in Seq(CellType) /\ 2 * n <= Len(buffer')
      /\ \A i \in 1 .. 2 * n : buffer'[i] = chain[i]
  BY <1>1, <1>7, <1>8, OverwrittenFacts DEF chain
<1>10. ToSet(batch) = {batch[i] : i \in 1 .. n}
  BY <1>6 DEF ToSet
<1> HIDE DEF n
<1>11. \A i \in 1 .. n : /\ buffer'[2 * i - 1].entry = batch[i]
                         /\ buffer'[2 * i - 1].next = IF i = n THEN end ELSE 2
  <2>1. \A i \in 1 .. n : 2 * i - 1 \in 1 .. 2 * n
    BY <1>6
  <2>2. QED
    BY <1>8, <1>9, <2>1
<1>12. left \subseteq content \cup Dots /\ left' \subseteq left
  BY <1>1, <1>3, <1>4 DEF ListTypes
<1>13. (0 + 1) .. n = 1 .. n /\ 0 \in 0 .. n /\ 2 * 0 = 0
  BY <1>6
<1>14. ChainIs(n, end, 0)'
  <2>1. /\ \A i \in 1 .. n :
               /\ buffer'[2 * i - 1].entry \in content' \cup Dots
               /\ buffer'[2 * i - 1].next = IF i = n THEN end ELSE 2
        /\ \A i, k \in 1 .. n :
               buffer'[2 * i - 1].entry = buffer'[2 * k - 1].entry => i = k
    <3>1. \A i \in 1 .. n : batch[i] \in content' \cup Dots
      BY <1>2, <1>6, <1>12
    <3>2. \A i, k \in 1 .. n : batch[i] = batch[k] => i = k
      BY <1>6
    <3>3. QED
      BY <1>11, <3>1, <3>2
  <2>2. QED
    BY <1>2, <1>6, <1>7, <1>9, <1>13, <2>1 DEF ChainIs
<1>15. Ahead(n, 0)' = ToSet(batch)
  BY <1>10, <1>11, <1>13 DEF Ahead
<1>16. SameEntries
  BY <1>1, <1>2, NothingPushed
<1>17. \A called, why : HasFailed(called, why)' <=> HasFailed(called, why)
  BY <1>2, FailuresStay
<1>18. Accounted(Ahead(n, 0))'
  <2>1. ToSet(batch) \subseteq left
    BY <1>6, <1>10
  <2>2. left' \cap ToSet(batch) = {} /\ left' \cup ToSet(batch) = left
    BY <1>3, <1>4, <2>1
  <2>3. Of(listing.entries)' = Of(listing.entries)
    BY <1>16 DEF SameEntries
  <2>4. honest' => honest
    BY <1>7
  <2>5. QED
    BY <1>1, <1>2, <1>15, <1>17, <2>2, <2>3, <2>4 DEF Accounted, IsLarger
<1>19. PlacesInv'
  <2>1. InBuffer'
    BY <1>6, <1>14, <1>18 DEF InBuffer
  <2>2. QED
    BY <1>2, <2>1 DEF PlacesInv
<1>20. ListTypes'
  BY <1>1, <1>2, <1>7, <1>9, <1>12 DEF ListTypes
<1>21. LargerInv'
  BY <1>1, <1>2, <1>17 DEF LargerInv, IsLarger, AllNames
<1>22. QED
  BY <1>2, <1>16, <1>19, <1>20, <1>21 DEF ListInv, RestartInv, EndInv, SortedInv, SameEntries

\* How much of the buffer records reads.
LEMMA DataFacts ==
    ASSUME ListTypes
    PROVE  /\ Len(buffer) \in Nat
           /\ Len(Data) = IF written <= Len(buffer) THEN written ELSE Len(buffer)
           /\ \A i \in 1 .. Len(Data) : Data[i] = buffer[i]
<1> DEFINE m == IF written <= Len(buffer) THEN written ELSE Len(buffer)
<1>1. buffer \in Seq(CellType) /\ Len(buffer) \in Nat /\ written \in Nat
  BY LenProperties DEF ListTypes
<1>2. m \in Nat /\ m <= Len(buffer)
  BY <1>1
<1>3. Data = SubSeq(buffer, 1, m)
  BY DEF Data
<1> HIDE DEF m
<1>4. Len(SubSeq(buffer, 1, m)) = m /\ \A i \in 1 .. m : SubSeq(buffer, 1, m)[i] = buffer[i]
  BY <1>1, <1>2
<1>5. QED
  BY <1>1, <1>3, <1>4 DEF m

\* The record that is read is that of one of the chain's, and it is the last one
\* exactly if it says so.
RecordIs(n, end, j, record) ==
    /\ j < n /\ j + 1 \in 0 .. n
    /\ record = buffer[2 * (j + 1) - 1]
    /\ record.entry \in Ahead(n, j)
    /\ record.next = 0 <=> end = 0 /\ j + 1 = n
    /\ record.next # 0 => record.next = 2
    /\ Ahead(n, j) = Ahead(n, j + 1) \cup {record.entry}
    /\ record.entry \notin Ahead(n, j + 1)

LEMMA RecordFacts ==
    ASSUME ListTypes, NEW n \in Nat, NEW end \in {0, 2}, NEW j \in Nat, ChainIs(n, end, j), RecordFits
    PROVE  RecordIs(n, end, j, Data[at + 1])
<1> DEFINE b == Len(buffer)
           d == Len(Data)
           entry(i) == buffer[2 * i - 1].entry
<1>1. b \in Nat /\ d = (IF written <= b THEN written ELSE b) /\ written \in Nat
      /\ \A i \in 1 .. d : Data[i] = buffer[i]
  BY DataFacts DEF ListTypes
<1>2. /\ 2 * n <= b /\ at = 2 * j /\ j \in 0 .. n /\ (end = 0 => j < n) /\ (end = 2 => written = 2 * n)
      /\ at + 2 <= d
  BY DEF ChainIs, RecordFits
<1>3. \A i \in (j + 1) .. n : buffer[2 * i - 1].next = IF i = n THEN end ELSE 2
  BY DEF ChainIs
<1>4. \A i, k \in (j + 1) .. n : entry(i) = entry(k) => i = k
  BY DEF ChainIs
<1> HIDE DEF b, d, entry
<1>5. j < n
  <2>1. CASE end = 0
    BY <1>2, <2>1
  <2>2. CASE end = 2
    BY <1>1, <1>2, <2>2
  <2>3. QED
    BY <2>1, <2>2
<1>6. /\ j + 1 \in (j + 1) .. n /\ j + 1 \in 0 .. n
      /\ at + 1 \in 1 .. d /\ at + 1 = 2 * (j + 1) - 1
  BY <1>1, <1>2, <1>5
<1>7. Data[at + 1] = buffer[2 * (j + 1) - 1]
  BY <1>1, <1>6
<1>8. buffer[2 * (j + 1) - 1].next = IF j + 1 = n THEN end ELSE 2
  BY <1>3, <1>6
<1>9. \A i : i \in (j + 1) .. n <=> i = j + 1 \/ i \in ((j + 1) + 1) .. n
  BY <1>5
<1>10. \A i \in ((j + 1) + 1) .. n : i # j + 1
  OBVIOUS
<1>11. Ahead(n, j) = {entry(i) : i \in (j + 1) .. n} /\ Ahead(n, j + 1) = {entry(i) : i \in ((j + 1) + 1) .. n}
  BY DEF Ahead, entry
<1>12. Ahead(n, j) = Ahead(n, j + 1) \cup {entry(j + 1)}
  BY <1>9, <1>11
<1>13. entry(j + 1) \notin Ahead(n, j + 1)
  BY <1>4, <1>6, <1>9, <1>10, <1>11
<1>14. Data[at + 1].entry = entry(j + 1)
  BY <1>7 DEF entry
<1>15. QED
  BY <1>5, <1>6, <1>7, <1>8, <1>12, <1>13, <1>14 DEF RecordIs

\* The next records of a chain are one of it.
LEMMA ChainGoesOn ==
    ASSUME NEW n \in Nat, NEW end \in {0, 2}, NEW j \in Nat, ChainIs(n, end, j),
           j + 1 \in 0 .. n, ~(end = 0 /\ j + 1 = n), at' = at + 2,
           UNCHANGED <<buffer, content, written, honest>>
    PROVE  ChainIs(n, end, j + 1)'
<1>1. /\ 2 * n <= Len(buffer) /\ at = 2 * j /\ (end = 2 => written = 2 * n)
      /\ honest => end = 0 /\ written = 2 * n
  BY DEF ChainIs
<1>2. at' = 2 * (j + 1) /\ (end = 0 => j + 1 < n)
  BY <1>1
<1>3. \A i \in ((j + 1) + 1) .. n : i \in (j + 1) .. n
  OBVIOUS
<1>4. \A i \in ((j + 1) + 1) .. n :
          /\ buffer[2 * i - 1].entry \in content \cup Dots
          /\ buffer[2 * i - 1].next = IF i = n THEN end ELSE 2
  BY <1>3 DEF ChainIs
<1>5. \A i, k \in ((j + 1) + 1) .. n :
          buffer[2 * i - 1].entry = buffer[2 * k - 1].entry => i = k
  BY <1>3 DEF ChainIs
<1>6. QED
  BY <1>1, <1>2, <1>4, <1>5 DEF ChainIs

\* The record's entry has been listed, or is one of the dots.
Taken(e) ==
    /\ listing' \in ListingType /\ EntriesInv'
    /\ Of(listing.entries)' = Of(listing.entries) \cup ({e} \ Dots)
    /\ \A called, why : HasFailed(called, why)' <=> HasFailed(called, why)

LEMMA ReadRecordKeeps ==
    ASSUME ListInv, ReadRecord
    PROVE  ListInv'
<1> DEFINE record == Data[at + 1]
           e == record.entry
<1>1. /\ ListTypes /\ EntriesInv /\ InBuffer /\ RestartInv /\ LargerInv
  BY DEF ListInv, PlacesInv, ReadRecord
<1>2. /\ pc = "records" /\ RecordFits
      /\ UNCHANGED <<reader, content, left, spare, buffer, restart, honest, listed>>
  BY DEF ReadRecord
<1>3. PICK n \in Nat, end \in {0, 2}, j \in Nat : ChainIs(n, end, j) /\ Accounted(Ahead(n, j))
  BY <1>1 DEF InBuffer
<1>4. RecordIs(n, end, j, record)
  BY <1>1, <1>2, <1>3, RecordFacts
<1>5. \/ /\ e \in Dots \/ ~TooLarge(e)
         /\ IF e \in Dots THEN UNCHANGED listing ELSE Push(e)
         /\ IF record.next = 0 THEN CallDone("list")
            ELSE at' = at + record.next /\ UNCHANGED <<pc, written>>
      \/ e \notin Dots /\ TooLarge(e) /\ Fail(<<>>, "larger") /\ CallDone("sort")
  BY DEF ReadRecord
<1>6. Ahead(n, j) \subseteq content \cup Dots
  BY <1>3 DEF Ahead, ChainIs
<1> HIDE DEF record
<1>7. e \in Ahead(n, j) /\ e \in content \cup Dots /\ e \notin Of(listing.entries)
  BY <1>3, <1>4, <1>6 DEF RecordIs, Accounted
<1>8. content \subseteq Entries /\ \A f \in content : f \notin Dots
  BY <1>1, NameFacts DEF ListTypes
<1>9. RestartInv'
  BY <1>1, <1>2 DEF RestartInv
<1> HIDE DEF e
<1>10. CASE /\ e \in Dots \/ ~TooLarge(e)
            /\ IF e \in Dots THEN UNCHANGED listing ELSE Push(e)
            /\ IF record.next = 0 THEN CallDone("list")
               ELSE at' = at + record.next /\ UNCHANGED <<pc, written>>
  <2>1. Taken(e)
    <3>1. CASE e \in Dots
      <4>1. SameEntries
        BY <1>1, <1>2, <1>10, <3>1, NothingPushed
      <4>2. \A called, why : HasFailed(called, why)' <=> HasFailed(called, why)
        BY <1>10, <3>1, FailuresStay
      <4>3. QED
        BY <3>1, <4>1, <4>2 DEF Taken, SameEntries
    <3>2. CASE e \notin Dots
      <4>1. Push(e) /\ e \in content
        BY <1>7, <1>10, <3>2
      <4>2. Pushed(e)
        BY <1>1, <1>2, <1>7, <4>1, PushStep
      <4>3. \A called, why : HasFailed(called, why)' <=> HasFailed(called, why)
        BY <4>2, FailuresStay DEF Pushed
      <4>4. QED
        BY <3>2, <4>2, <4>3 DEF Taken, Pushed
    <3>3. QED
      BY <3>1, <3>2
  <2>2. Accounted(Ahead(n, j + 1))'
    <3>1. PICK now, later : now = Ahead(n, j) /\ later = Ahead(n, j + 1)
      OBVIOUS
    <3>2. now = later \cup {e} /\ e \notin later
      BY <1>4, <3>1 DEF RecordIs, e
    <3>3. Accounted(now)
      BY <1>3, <3>1
    <3>4. Accounted(later)'
      BY <1>2, <1>8, <2>1, <3>2, <3>3 DEF Accounted, Taken, IsLarger
    <3>5. Ahead(n, j + 1)' = later
      BY <1>2, <3>1 DEF Ahead
    <3>6. QED
      BY <3>4, <3>5 DEF Accounted
  <2>3. LargerInv'
    BY <1>1, <1>2, <2>1 DEF LargerInv, IsLarger, AllNames, Taken
  <2>4. CASE record.next = 0
    <3>1. pc' = "list" /\ at' = 0 /\ written' = 0
      BY <1>10, <2>4 DEF CallDone
    <3>2. Ahead(n, j + 1) = {}
      <4>1. j + 1 = n
        BY <1>4, <2>4 DEF RecordIs
      <4>2. ((j + 1) + 1) .. n = {}
        BY <4>1
      <4>3. QED
        BY <4>2 DEF Ahead
    <3>3. Ahead(n, j + 1)' = {}
      BY <1>2, <3>2 DEF Ahead
    <3>4. Accounted({})'
      BY <2>2, <3>3 DEF Accounted
    <3>5. PlacesInv'
      BY <3>1, <3>4 DEF PlacesInv
    <3>6. ListTypes'
      BY <1>1, <1>2, <2>1, <3>1 DEF ListTypes, Taken
    <3>7. QED
      BY <1>9, <2>1, <2>3, <3>1, <3>5, <3>6 DEF ListInv, EndInv, SortedInv, Taken
  <2>5. CASE record.next # 0
    <3>1. at' = at + 2 /\ pc' = "records" /\ written' = written
      BY <1>2, <1>4, <1>10, <2>5 DEF RecordIs
    <3>2. j + 1 \in 0 .. n /\ ~(end = 0 /\ j + 1 = n) /\ j + 1 \in Nat
      BY <1>4, <2>5 DEF RecordIs
    <3>3. ChainIs(n, end, j + 1)'
      BY <1>2, <1>3, <3>1, <3>2, ChainGoesOn
    <3>4. InBuffer'
      BY <2>2, <3>2, <3>3 DEF InBuffer
    <3>5. PlacesInv'
      BY <3>1, <3>4 DEF PlacesInv
    <3>6. ListTypes'
      BY <1>1, <1>2, <2>1, <3>1 DEF ListTypes, Taken
    <3>7. QED
      BY <1>9, <2>1, <2>3, <3>1, <3>5, <3>6 DEF ListInv, EndInv, SortedInv, Taken
  <2>6. QED
    BY <2>4, <2>5
<1>11. CASE e \notin Dots /\ TooLarge(e) /\ Fail(<<>>, "larger") /\ CallDone("sort")
  <2>1. <<>> \in Seq(Nat) /\ "larger" \in {"listing", "kind", "larger"}
    OBVIOUS
  <2>2. /\ SameEntries
        /\ \A called, why : HasFailed(called, why)' <=>
               HasFailed(called, why) \/ (called = <<>> /\ why = "larger")
    BY <1>1, <1>2, <1>11, <2>1, FailStep
  <2>3. pc' = "sort" /\ at' = 0 /\ written' = 0
    BY <1>11 DEF CallDone
  <2>4. IsLarger'
    BY <2>2 DEF IsLarger
  <2>5. ListTypes'
    BY <1>1, <1>2, <2>2, <2>3 DEF ListTypes, SameEntries
  <2>6. Accounted({})'
    BY <1>2, <1>3, <2>2, <2>4 DEF Accounted, SameEntries
  <2>7. PlacesInv'
    BY <2>3, <2>6 DEF PlacesInv
  <2>8. e \in content
    BY <1>7, <1>11
  <2>9. LargerInv'
    BY <1>1, <1>2, <1>7, <1>11, <2>8, LargerStep DEF LargerInv, AllNames
  <2>10. QED
    BY <1>9, <2>2, <2>3, <2>4, <2>5, <2>7, <2>9 DEF ListInv, EndInv, SortedInv, SameEntries
<1>12. QED
  BY <1>5, <1>10, <1>11 DEF e

LEMMA RecordsEndKeeps ==
    ASSUME ListInv, RecordsEnd
    PROVE  ListInv'
<1>1. /\ ListTypes /\ EntriesInv /\ InBuffer /\ RestartInv /\ LargerInv
      /\ UNCHANGED <<reader, content, left, listing, spare, buffer, restart, honest>>
      /\ pc = "records" /\ pc' = "list" /\ at' = 0 /\ written' = 0 /\ ~RecordFits
  BY DEF ListInv, PlacesInv, RecordsEnd, CallDone
<1>2. PICK n \in Nat, end \in {0, 2}, j \in Nat : ChainIs(n, end, j) /\ Accounted(Ahead(n, j))
  BY <1>1 DEF InBuffer
<1>3. ~honest
  <2>1. SUFFICES ASSUME honest PROVE FALSE
    OBVIOUS
  <2>2. /\ Len(buffer) \in Nat
        /\ Len(Data) = IF written <= Len(buffer) THEN written ELSE Len(buffer)
    BY <1>1, DataFacts
  <2>3. written = 2 * n /\ 2 * n <= Len(buffer) /\ at = 2 * j /\ j < n /\ j \in 0 .. n
    BY <1>2, <2>1 DEF ChainIs
  <2>4. at + 2 <= Len(Data)
    BY <2>2, <2>3
  <2>5. QED
    BY <1>1, <2>4 DEF RecordFits
<1>4. SameEntries
  BY <1>1, NothingPushed
<1>5. \A called, why : HasFailed(called, why)' <=> HasFailed(called, why)
  BY <1>1, FailuresStay
<1>6. ListTypes'
  BY <1>1 DEF ListTypes
<1>7. Accounted({})'
  BY <1>1, <1>2, <1>3, <1>4 DEF Accounted, SameEntries
<1>8. PlacesInv'
  BY <1>1, <1>7 DEF PlacesInv
<1>9. LargerInv'
  BY <1>1, <1>5 DEF LargerInv, IsLarger, AllNames
<1>10. RestartInv'
  BY <1>1 DEF RestartInv
<1>11. QED
  BY <1>1, <1>4, <1>6, <1>8, <1>9, <1>10 DEF ListInv, EndInv, SortedInv, SameEntries

-----------------------------------------------------------------------------
(* The order.                                                              *)

\* Entries in another order: the same ones, each once.
LEMMA PermutedFacts ==
    ASSUME NEW entries \in Seq(ListedType), NEW sorted \in Permuted(entries)
    PROVE  \E order \in [1 .. Len(entries) -> 1 .. Len(entries)] :
             /\ \A i, k \in 1 .. Len(entries) : i # k => order[i] # order[k]
             /\ \A k \in 1 .. Len(entries) : \E i \in 1 .. Len(entries) : order[i] = k
             /\ sorted = [i \in 1 .. Len(entries) |-> entries[order[i]]]
             /\ sorted \in Seq(ListedType) /\ DOMAIN sorted = 1 .. Len(entries)
<1> DEFINE n == Len(entries)
           P == 1 .. n
<1>1. n \in Nat /\ DOMAIN entries = P
  BY LenProperties
<1>2. \A i \in P : entries[i] \in ListedType
  BY ElementOfSeq
<1> HIDE DEF n
<1>3. IsFiniteSet(P) /\ Cardinality(P) = n
  BY <1>1, FS_Interval
<1>4. PICK order \in SetToSeqs(P) : sorted = [i \in P |-> entries[order[i]]]
  BY <1>1 DEF Permuted
<1>5. order \in [P -> P] /\ \A i, k \in P : i # k => order[i] # order[k]
  BY <1>3, <1>4 DEF SetToSeqs
<1> HIDE DEF P
<1>6. order \in Injection(P, P)
  BY <1>5 DEF Injection, IsInjective
<1>7. order \in Surjection(P, P)
  BY <1>3, <1>6, FS_Injection
<1>8. \A k \in P : \E i \in P : order[i] = k
  BY <1>7 DEF Surjection
<1>9. sorted \in [P -> ListedType]
  BY <1>2, <1>4, <1>5
<1>10. sorted \in Seq(ListedType) /\ DOMAIN sorted = P
  BY <1>1, <1>9 DEF P
<1>11. QED
  BY <1>4, <1>5, <1>8, <1>10 DEF P, n

\* Before is asked of names that are there: the order does not depend on that of
\* the entries.
LEMMA SortKeeps ==
    ASSUME ListInv, Sort
    PROVE  ListInv'
<1> DEFINE entries == listing.entries
           N == Len(entries)
<1>1. /\ ListTypes /\ EntriesInv /\ Accounted({}) /\ RestartInv /\ LargerInv
      /\ IsLarger \/ left = {} \/ HasFailed(<<>>, "listing")
  BY DEF ListInv, PlacesInv, Sort, EndInv
<1>2. PICK sorted \in Permuted(entries) :
          Sorted(sorted) /\ listing' = [listing EXCEPT !.entries = sorted]
  BY DEF Sort
<1>3. /\ pc = "sort" /\ pc' = "listed"
      /\ UNCHANGED <<reader, content, left, spare, buffer, written, at, restart, honest, listed>>
  BY DEF Sort, windowsVars
<1>4. listing \in ListingType /\ entries \in Seq(ListedType)
  BY <1>1 DEF ListTypes, ListingType
<1>5. PICK order \in [1 .. N -> 1 .. N] :
             /\ \A i, k \in 1 .. N : i # k => order[i] # order[k]
             /\ \A k \in 1 .. N : \E i \in 1 .. N : order[i] = k
             /\ sorted = [i \in 1 .. N |-> entries[order[i]]]
             /\ sorted \in Seq(ListedType) /\ DOMAIN sorted = 1 .. N
  BY <1>4, PermutedFacts
<1>6. /\ listing' \in ListingType /\ listing'.entries = sorted /\ listing'.names = listing.names
      /\ listing'.held = listing.held /\ listing'.failures = listing.failures
  BY <1>2, <1>4, <1>5 DEF ListingType
<1>7. DOMAIN entries = 1 .. N
  BY <1>4, LenProperties
<1>8. /\ \A i \in 1 .. N : order[i] \in 1 .. N /\ sorted[i] = entries[order[i]]
      /\ \A i, k \in 1 .. N : order[i] = order[k] => i = k
      /\ \A k \in 1 .. N : \E i \in 1 .. N : order[i] = k
  BY <1>5
<1> HIDE DEF N
<1>9. Of(sorted) = Of(entries)
  <2>1. Of(sorted) = {sorted[i].of : i \in 1 .. N} /\ Of(entries) = {entries[i].of : i \in 1 .. N}
    BY <1>5, <1>7 DEF Of
  <2>2. ASSUME NEW i \in 1 .. N PROVE \E k \in 1 .. N : entries[k].of = sorted[i].of
    BY <1>8
  <2>3. ASSUME NEW k \in 1 .. N PROVE \E i \in 1 .. N : sorted[i].of = entries[k].of
    BY <1>8, SMTT(30)
  <2>4. Of(sorted) \subseteq Of(entries)
    <3>1. SUFFICES ASSUME NEW x \in Of(sorted) PROVE x \in Of(entries)
      OBVIOUS
    <3>2. PICK i \in 1 .. N : x = sorted[i].of
      BY <2>1
    <3>3. PICK k \in 1 .. N : entries[k].of = sorted[i].of
      BY <2>2
    <3>4. QED
      BY <2>1, <3>2, <3>3, Zenon
  <2>5. Of(entries) \subseteq Of(sorted)
    <3>1. SUFFICES ASSUME NEW x \in Of(entries) PROVE x \in Of(sorted)
      OBVIOUS
    <3>2. PICK k \in 1 .. N : x = entries[k].of
      BY <2>1
    <3>3. PICK i \in 1 .. N : sorted[i].of = entries[k].of
      BY <2>3
    <3>4. QED
      BY <2>1, <3>2, <3>3, Zenon
  <2>6. QED
    BY <2>4, <2>5
<1>10. EntriesInv'
  <2>1. \A i \in 1 .. N : IsListed(sorted[i], listing.names, listing.held)
    BY <1>1, <1>7, <1>8 DEF EntriesInv
  <2>2. (\A i \in DOMAIN listing.entries : IsListed(listing.entries[i], listing.names, listing.held))'
    <3>1. \A i \in 1 .. N : IsListed(listing'.entries[i], listing'.names, listing'.held)
      BY <1>6, <2>1, Zenon
    <3>2. DOMAIN listing'.entries = 1 .. N
      BY <1>5, <1>6, Zenon
    <3>3. reader' = reader /\ content' = content
      BY <1>3
    <3> HIDE <1>1, <1>2, <1>3, <1>4, <1>5, <1>6
    <3>4. QED
      BY <3>1, <3>2, <3>3 DEF IsListed, ListedName, ListedKind, KindOf
  <2>3. \A i, k \in 1 .. N : sorted[i].of = sorted[k].of => i = k
    <3>1. \A i, k \in 1 .. N : entries[i].of = entries[k].of => i = k
      BY <1>1, <1>7 DEF EntriesInv
    <3>2. SUFFICES ASSUME NEW i \in 1 .. N, NEW k \in 1 .. N, sorted[i].of = sorted[k].of PROVE i = k
      OBVIOUS
    <3>3. order[i] \in 1 .. N /\ order[k] \in 1 .. N /\ entries[order[i]].of = entries[order[k]].of
      BY <1>8, <3>2
    <3>4. order[i] = order[k]
      BY <3>1, <3>3
    <3>5. QED
      BY <1>8, <3>4
  <2>4. Of(sorted) = Of(entries)
    BY <1>9
  <2>5. Len(listing'.names) = Cardinality(BytesOf(Of(listing'.entries)))
    BY <1>1, <1>6, <2>4 DEF EntriesInv
  <2>6. QED
    <3>1. DOMAIN listing'.entries = 1 .. N
      BY <1>5, <1>6, Zenon
    <3>2. \A i, k \in DOMAIN listing'.entries :
              listing'.entries[i].of = listing'.entries[k].of => i = k
      BY <1>6, <2>3, <3>1
    <3>3. (\A i, k \in DOMAIN listing.entries :
               listing.entries[i].of = listing.entries[k].of => i = k)'
      BY <3>2
    <3>4. (Len(listing.names) = Cardinality(BytesOf(Of(listing.entries))))'
      BY <2>5
    <3>5. QED
      BY <2>2, <3>3, <3>4 DEF EntriesInv
<1>11. Of(listing.entries)' = Of(listing.entries)
  BY <1>6, <1>9 DEF Of
<1>12. \A called, why : HasFailed(called, why)' <=> HasFailed(called, why)
  BY <1>6, FailuresStay
<1>13. ListTypes'
  BY <1>1, <1>3, <1>6 DEF ListTypes
<1>14. PlacesInv'
  <2>1. Accounted({})'
    BY <1>1, <1>3, <1>11, <1>12 DEF Accounted, IsLarger
  <2>2. QED
    BY <1>3, <2>1 DEF PlacesInv
<1>15. RestartInv'
  BY <1>1, <1>3 DEF RestartInv
<1>16. LargerInv'
  BY <1>1, <1>3, <1>12 DEF LargerInv, IsLarger, AllNames
<1>17. EndInv'
  BY <1>1, <1>3, <1>12 DEF EndInv, IsLarger
<1>18. SortedInv'
  <2>1. Sorted(sorted)
    BY <1>2
  <2>2. Sorted(listing.entries)'
    BY <1>6, <2>1 DEF Sorted, InOrder, NameOf
  <2>3. QED
    BY <2>2 DEF SortedInv
<1>19. QED
  BY <1>10, <1>13, <1>14, <1>15, <1>16, <1>17, <1>18 DEF ListInv

\* A link is read, or nothing happens: the listing stays.
LEMMA NothingListed ==
    ASSUME ListInv, UNCHANGED listVars
    PROVE  ListInv'
<1> USE DEF listVars
<1>1. ListTypes /\ EntriesInv /\ RestartInv /\ LargerInv
  BY DEF ListInv
<1>2. SameEntries
  BY <1>1, NothingPushed
<1>3. \A called, why : HasFailed(called, why)' <=> HasFailed(called, why)
  BY FailuresStay
<1>4. ListTypes'
  BY <1>1 DEF ListTypes
<1>5. PlacesInv'
  <2>1. CASE pc = "records"
    <3>1. InBuffer
      BY <2>1 DEF ListInv, PlacesInv
    <3>2. PICK n \in Nat, end \in {0, 2}, j \in Nat : ChainIs(n, end, j) /\ Accounted(Ahead(n, j))
      BY <3>1 DEF InBuffer
    <3>3. ChainIs(n, end, j)'
      BY <3>2 DEF ChainIs
    <3>4. PICK ahead : ahead = Ahead(n, j)
      OBVIOUS
    <3>5. Ahead(n, j)' = ahead
      BY <3>4 DEF Ahead
    <3>6. Accounted(ahead)'
      BY <1>2, <1>3, <3>2, <3>4 DEF Accounted, IsLarger, SameEntries
    <3>7. Accounted(Ahead(n, j))'
      BY <3>5, <3>6 DEF Accounted
    <3>8. InBuffer'
      BY <3>3, <3>7 DEF InBuffer
    <3>9. QED
      BY <2>1, <3>8 DEF PlacesInv
  <2>2. CASE pc # "records"
    <3>1. Accounted({})
      BY <2>2 DEF ListInv, PlacesInv
    <3>2. Accounted({})'
      BY <1>2, <1>3, <3>1 DEF Accounted, IsLarger, SameEntries
    <3>3. QED
      BY <2>2, <3>2 DEF PlacesInv
  <2>3. QED
    BY <2>1, <2>2
<1>6. RestartInv'
  BY <1>1 DEF RestartInv
<1>7. LargerInv'
  BY <1>1, <1>3 DEF LargerInv, IsLarger, AllNames
<1>8. EndInv'
  BY <1>3 DEF ListInv, EndInv, IsLarger
<1>9. SortedInv'
  BY DEF ListInv, SortedInv, Sorted, InOrder, NameOf
<1>10. QED
  BY <1>2, <1>4, <1>5, <1>6, <1>7, <1>8, <1>9 DEF ListInv, SameEntries

\* However listings and the reading of links follow each other, each entry is
\* where ListInv says.
THEOREM ListingKept == Spec => []ListInv
<1>1. Init => ListInv
  BY InitKeeps DEF Init
<1>2. ListInv /\ [Next]_vars => ListInv'
  <2> SUFFICES ASSUME ListInv, [Next]_vars PROVE ListInv'
    OBVIOUS
  <2>1. CASE List /\ UNCHANGED linkVars
    BY <2>1, BeginKeeps, EntryKeeps, EntryFailsKeeps, KindFailsKeeps, EntriesEndKeeps, RefusedKeeps,
       CallKeeps, ReadRecordKeeps, RecordsEndKeeps, NoMoreFilesKeeps, CallFailsKeeps, SortKeeps
       DEF List
  <2>2. CASE ReadLink
    BY <2>2, NothingListed DEF ReadLink
  <2>3. CASE Symlink
    BY <2>3, NothingListed DEF Symlink
  <2>4. CASE AppendUnit
    BY <2>4, NothingListed DEF AppendUnit
  <2>5. CASE AppendEnd
    BY <2>5, NothingListed DEF AppendEnd
  <2>6. CASE NextScan
    BY <2>6, VisitedKeeps DEF NextScan
  <2>7. CASE UNCHANGED vars
    BY <2>7, NothingListed DEF vars
  <2>8. QED
    BY <2>1, <2>2, <2>3, <2>4, <2>5, <2>6, <2>7 DEF Next
<1>3. QED
  BY <1>1, <1>2, PTL DEF Spec

\* What is listed is the directory's own, each entry once: EntriesAreOwn.
THEOREM ListingIsOwn == Spec => []EntriesAreOwn
<1>1. ListInv => EntriesAreOwn
  <2> SUFFICES ASSUME ListInv, pc = "listed" PROVE EntriesAreOwn
    BY DEF EntriesAreOwn
  <2>1. EntriesInv
    BY DEF ListInv
  <2>2. QED
    BY <2>1 DEF EntriesAreOwn, EntriesInv, IsListed, Places, NameOf
<1>2. QED
  BY <1>1, ListingKept, PTL

\* No entry is left out without a failure: ListedOrFailed.
THEOREM NoneLeftOut == Spec => []ListedOrFailed
<1>1. ListInv => ListedOrFailed
  <2> SUFFICES ASSUME ListInv, pc = "listed" PROVE ListedOrFailed
    BY DEF ListedOrFailed
  <2>1. Accounted({}) /\ LargerInv /\ (~IsLarger => left = {} \/ HasFailed(<<>>, "listing"))
    BY DEF ListInv, PlacesInv, EndInv
  <2>2. ASSUME honest, ~IsLarger, NEW e \in content
        PROVE  \/ \E i \in Places : listing.entries[i].of = e
               \/ HasFailed(Lossy(e.name), "kind")
               \/ e \in left /\ HasFailed(<<>>, "listing")
    BY <2>1, <2>2 DEF Accounted, Of, Places
  <2>3. QED
    BY <2>1, <2>2 DEF ListedOrFailed, LargerInv, IsLarger
<1>2. QED
  BY <1>1, ListingKept, PTL

-----------------------------------------------------------------------------
(* The search.                                                             *)

\* The entries of a listing that has been sorted, for the search: their names
\* are bytes, their prefixes are those of their names, and they are in order.
Searchable ==
    /\ listing.entries \in Seq(ListedType)
    /\ \A i \in Places : /\ NameOf(listing.entries[i]) \in Seq(Byte)
                         /\ listing.entries[i].prefix = Prefix(NameOf(listing.entries[i]))
    /\ Sorted(listing.entries)

LEMMA ListedIsSearchable ==
    ASSUME ListInv, pc = "listed"
    PROVE  Searchable
<1>1. ListTypes /\ EntriesInv /\ Sorted(listing.entries)
  BY DEF ListInv, SortedInv
<1>2. listing.entries \in Seq(ListedType)
  BY <1>1 DEF ListTypes, ListingType
<1>3. ASSUME NEW i \in Places
      PROVE  /\ NameOf(listing.entries[i]) \in Seq(Byte)
             /\ listing.entries[i].prefix = Prefix(NameOf(listing.entries[i]))
  <2> DEFINE entry == listing.entries[i]
  <2>1. IsListed(entry, listing.names, listing.held)
    BY <1>1 DEF EntriesInv, Places
  <2>2. /\ NameOf(entry) = ListedName(entry.of) /\ entry.prefix = Prefix(ListedName(entry.of))
        /\ entry.of \in content
    BY <2>1 DEF IsListed, NameOf
  <2>3. entry.of \in Entries
    BY <1>1, <2>2 DEF ListTypes
  <2>4. QED
    BY <2>2, <2>3, NameFacts
<1>4. QED
  BY <1>1, <1>2, <1>3 DEF Searchable

\* What Found compares.
IsBelow(name, i) ==
    \/ listing.entries[i].prefix > Prefix(name)
    \/ listing.entries[i].prefix = Prefix(name) /\ Before(name, NameOf(listing.entries[i]))

Holds(name, i) ==
    listing.entries[i].prefix = Prefix(name) /\ NameOf(listing.entries[i]) = name

\* A search that has looked at place i goes on where the name is, if it is.
LEMMA SearchGoesOn ==
    ASSUME Searchable, NEW name \in Seq(Byte), NEW i \in Places, ~Holds(name, i),
           NEW j \in Places, NameOf(listing.entries[j]) = name
    PROVE  /\ Holds(name, j)
           /\ IsBelow(name, i) => j < i
           /\ ~IsBelow(name, i) => i < j
<1> DEFINE A == NameOf(listing.entries[i])
           x == listing.entries[i].prefix
           y == listing.entries[j].prefix
           z == Prefix(name)
<1>1. /\ Places = 1 .. Len(listing.entries) /\ Len(listing.entries) \in Nat
  BY LenProperties DEF Searchable, Places
<1>2. A \in Seq(Byte) /\ x = Prefix(A) /\ y = z /\ x \in Nat /\ z \in Nat
  BY PrefixIs DEF Searchable
<1>3. Holds(name, j)
  BY <1>2 DEF Holds
<1>4. i # j
  BY <1>3
<1>5. i < j => x < z \/ (x = z /\ ~Before(name, A))
  BY <1>2 DEF Searchable, Sorted, InOrder, Places
<1>6. j < i => z < x \/ (z = x /\ ~Before(A, name))
  BY <1>2 DEF Searchable, Sorted, InOrder, Places
<1>7. IsBelow(name, i) <=> x > z \/ (x = z /\ Before(name, A))
  BY DEF IsBelow
<1>8. x = z => A # name
  BY DEF Holds
<1>9. ~Before(name, A) /\ ~Before(A, name) => A = name
  BY <1>2, BeforeTotal
<1> HIDE DEF A, x, y, z
<1>10. i \in Nat /\ j \in Nat
  BY <1>1
<1>11. IsBelow(name, i) => j < i
  BY <1>2, <1>4, <1>5, <1>7, <1>10
<1>12. ~IsBelow(name, i) => i < j
  BY <1>2, <1>4, <1>6, <1>7, <1>8, <1>9, <1>10
<1>13. QED
  BY <1>3, <1>11, <1>12

\* A sorted listing is in the order of its names.
LEMMA SortedNames ==
    ASSUME Searchable, NEW i \in Places, NEW j \in Places, i < j
    PROVE  ~Before(NameOf(listing.entries[j]), NameOf(listing.entries[i]))
<1> DEFINE A == NameOf(listing.entries[i])
           B == NameOf(listing.entries[j])
<1>1. A \in Seq(Byte) /\ B \in Seq(Byte)
      /\ listing.entries[i].prefix = Prefix(A) /\ listing.entries[j].prefix = Prefix(B)
  BY DEF Searchable
<1>2. Prefix(A) < Prefix(B) \/ (Prefix(A) = Prefix(B) /\ ~Before(B, A))
  BY <1>1 DEF Searchable, Sorted, InOrder, Places
<1>3. Prefix(A) \in Nat /\ Prefix(B) \in Nat
  BY <1>1, PrefixIs
<1> HIDE DEF A, B
<1>4. Before(B, A) => Prefix(B) <= Prefix(A)
  BY <1>1, PrefixKeepsOrder
<1>5. ~Before(B, A)
  BY <1>2, <1>3, <1>4
<1>6. QED
  BY <1>5 DEF A, B

\* One step of the search, and the ranges that it may look at.
SearchStep(name, f, range) ==
    IF range[1] > range[2] THEN {0}
    ELSE UNION {IF Holds(name, i) THEN {i}
                ELSE IF IsBelow(name, i) THEN f[<<range[1], i - 1>>]
                ELSE f[<<i + 1, range[2]>>]
                : i \in range[1] .. range[2]}

Searched == (1 .. Len(listing.entries) + 1) \X (0 .. Len(listing.entries))

\* The places in a range that hold the name.
Heres(name, range) == {i \in range[1] .. range[2] : Holds(name, i)}

Answers(name, range) == IF Heres(name, range) = {} THEN {0} ELSE Heres(name, range)

LEMMA SearchedFacts ==
    ASSUME Searchable, NEW range \in Searched, range[1] <= range[2]
    PROVE  \A i \in range[1] .. range[2] :
             /\ i \in Places
             /\ <<range[1], i - 1>> \in Searched /\ <<i + 1, range[2]>> \in Searched
<1> DEFINE n == Len(listing.entries)
           lo == range[1]
           hi == range[2]
<1>1. n \in Nat /\ Places = 1 .. n
  BY LenProperties DEF Searchable, Places
<1>2. lo \in 1 .. n + 1 /\ hi \in 0 .. n /\ lo <= hi
  BY DEF Searched
<1>3. Searched = (1 .. n + 1) \X (0 .. n)
  BY DEF Searched
<1> HIDE DEF n, lo, hi
<1>4. ASSUME NEW i \in lo .. hi
      PROVE  i \in 1 .. n /\ i - 1 \in 0 .. n /\ i + 1 \in 1 .. n + 1
  BY <1>1, <1>2
<1>5. \A i \in lo .. hi : i \in Places /\ <<lo, i - 1>> \in Searched /\ <<i + 1, hi>> \in Searched
  BY <1>1, <1>2, <1>3, <1>4
<1>6. QED
  BY <1>5 DEF lo, hi

\* A search that goes on after place i finds what a search of all would.
LEMMA AnswersGoOn ==
    ASSUME Searchable, NEW name \in Seq(Byte), NEW range \in Searched, range[1] <= range[2],
           NEW i \in range[1] .. range[2], ~Holds(name, i)
    PROVE  Heres(name, range) =
             IF IsBelow(name, i) THEN Heres(name, <<range[1], i - 1>>)
             ELSE Heres(name, <<i + 1, range[2]>>)
<1> DEFINE lo == range[1]
           hi == range[2]
<1>1. \A k \in lo .. hi : k \in Places
  BY SearchedFacts
<1>2. lo \in Nat /\ hi \in Nat /\ Places = 1 .. Len(listing.entries) /\ Len(listing.entries) \in Nat
  BY LenProperties DEF Searched, Searchable, Places
<1>3. ASSUME NEW k \in lo .. hi, Holds(name, k)
      PROVE  (IsBelow(name, i) => k < i) /\ (~IsBelow(name, i) => i < k)
  <2>1. i \in Places /\ k \in Places
    BY <1>1
  <2>2. NameOf(listing.entries[k]) = name
    BY <1>3 DEF Holds
  <2>3. QED
    BY <2>1, <2>2, SearchGoesOn
<1>4. i \in Nat /\ lo <= i /\ i <= hi
  BY <1>1, <1>2
<1>5. Heres(name, range) = {k \in lo .. hi : Holds(name, k)}
  BY DEF Heres
<1>6. Heres(name, <<lo, i - 1>>) = {k \in lo .. (i - 1) : Holds(name, k)}
  BY DEF Heres
<1>7. Heres(name, <<i + 1, hi>>) = {k \in (i + 1) .. hi : Holds(name, k)}
  BY DEF Heres
<1> HIDE DEF lo, hi
<1>8. CASE IsBelow(name, i)
  <2>1. \A k : k \in lo .. hi /\ Holds(name, k) <=> k \in lo .. (i - 1) /\ Holds(name, k)
    <3>1. \A k \in lo .. hi : Holds(name, k) => k < i
      BY <1>3, <1>8
    <3>2. \A k \in lo .. hi : k < i => k \in lo .. (i - 1)
      BY <1>2, <1>4
    <3>3. \A k \in lo .. (i - 1) : k \in lo .. hi
      BY <1>2, <1>4
    <3>4. QED
      BY <3>1, <3>2, <3>3
  <2>2. Heres(name, range) = Heres(name, <<lo, i - 1>>)
    BY <1>5, <1>6, <2>1
  <2>3. QED
    BY <1>8, <2>2 DEF lo
<1>9. CASE ~IsBelow(name, i)
  <2>1. \A k : k \in lo .. hi /\ Holds(name, k) <=> k \in (i + 1) .. hi /\ Holds(name, k)
    <3>1. \A k \in lo .. hi : Holds(name, k) => i < k
      BY <1>3, <1>9
    <3>2. \A k \in lo .. hi : i < k => k \in (i + 1) .. hi
      BY <1>2, <1>4
    <3>3. \A k \in (i + 1) .. hi : k \in lo .. hi
      BY <1>2, <1>4
    <3>4. QED
      BY <3>1, <3>2, <3>3
  <2>2. Heres(name, range) = Heres(name, <<i + 1, hi>>)
    BY <1>5, <1>7, <2>1
  <2>3. QED
    BY <1>9, <2>2 DEF hi
<1>10. QED
  BY <1>8, <1>9

\* The answers are a solution of the search's equation.
LEMMA AnswersSolve ==
    ASSUME Searchable, NEW name \in Seq(Byte), NEW w, w = [range \in Searched |-> Answers(name, range)]
    PROVE  \A range \in Searched : w[range] = SearchStep(name, w, range)
<1> SUFFICES ASSUME NEW range \in Searched PROVE w[range] = SearchStep(name, w, range)
  OBVIOUS
<1> DEFINE lo == range[1]
           hi == range[2]
           found(i) == IF Holds(name, i) THEN {i}
                       ELSE IF IsBelow(name, i) THEN w[<<lo, i - 1>>] ELSE w[<<i + 1, hi>>]
           heres == Heres(name, range)
<1>1. lo \in Nat /\ hi \in Nat /\ w[range] = Answers(name, range)
  BY LenProperties DEF Searched, Searchable
<1>2. CASE lo > hi
  <2>1. heres = {}
    BY <1>1, <1>2 DEF Heres
  <2>2. QED
    BY <1>1, <1>2, <2>1 DEF Answers, SearchStep
<1>3. CASE lo <= hi
  <2>1. SearchStep(name, w, range) = UNION {found(i) : i \in lo .. hi}
    <3>1. ~(lo > hi)
      BY <1>1, <1>3
    <3>2. QED
      BY <3>1, Zenon DEF SearchStep
  <2>2. ASSUME NEW i \in lo .. hi, ~Holds(name, i)
        PROVE  found(i) = Answers(name, range)
    <3>1. <<lo, i - 1>> \in Searched /\ <<i + 1, hi>> \in Searched
      BY <1>3, SearchedFacts
    <3>2. w[<<lo, i - 1>>] = Answers(name, <<lo, i - 1>>) /\ w[<<i + 1, hi>>] = Answers(name, <<i + 1, hi>>)
      BY <3>1
    <3>3. heres = IF IsBelow(name, i) THEN Heres(name, <<lo, i - 1>>) ELSE Heres(name, <<i + 1, hi>>)
      BY <1>3, <2>2, AnswersGoOn
    <3>4. QED
      BY <2>2, <3>2, <3>3 DEF Answers
  <2>3. \A i \in lo .. hi : Holds(name, i) => found(i) = {i}
    OBVIOUS
  <2>4. heres = {i \in lo .. hi : Holds(name, i)}
    BY DEF Heres
  <2>5. lo \in lo .. hi
    BY <1>1, <1>3
  <2>6. Answers(name, range) = IF heres = {} THEN {0} ELSE heres
    BY DEF Answers
  <2> HIDE DEF found, heres, lo, hi
  <2>7. CASE heres = {}
    <3>1. \A i \in lo .. hi : found(i) = {0}
      BY <2>2, <2>4, <2>6, <2>7
    <3>2. UNION {found(i) : i \in lo .. hi} = {0}
      BY <2>5, <3>1
    <3>3. QED
      BY <1>1, <2>1, <2>6, <2>7, <3>2
  <2>8. CASE heres # {}
    <3>1. \A i \in lo .. hi : found(i) \subseteq heres
      BY <2>2, <2>3, <2>4, <2>6, <2>8
    <3>2. \A i \in heres : i \in lo .. hi /\ i \in found(i)
      BY <2>3, <2>4
    <3>3. UNION {found(i) : i \in lo .. hi} = heres
      BY <3>1, <3>2
    <3>4. QED
      BY <1>1, <2>1, <2>6, <2>8, <3>3
  <2>9. QED
    BY <2>7, <2>8
<1>4. QED
  BY <1>1, <1>2, <1>3

\* The search looks at places until it finds the name, or has none left.
LEMMA FoundIs ==
    ASSUME Searchable, NEW name \in Seq(Byte)
    PROVE  \E f : /\ Found(name) = f[<<1, Len(listing.entries)>>]
                  /\ \A range \in Searched : f[range] = SearchStep(name, f, range)
<1> DEFINE Is(f) == f = [range \in Searched |-> SearchStep(name, f, range)]
           f == CHOOSE f : Is(f)
           w == [range \in Searched |-> Answers(name, range)]
<1>1. Is(w)
  <2>1. \A range \in Searched : w[range] = SearchStep(name, w, range)
    BY AnswersSolve
  <2>2. w = [range \in Searched |-> w[range]]
    OBVIOUS
  <2> HIDE DEF w
  <2>3. QED
    BY <2>1, <2>2
<1>2. Is(f)
  BY <1>1
<1>3. Found(name) = f[<<1, Len(listing.entries)>>]
  BY DEF Found, SearchStep, Searched, Holds, IsBelow
<1> HIDE DEF f
<1>4. \A range \in Searched : f[range] = SearchStep(name, f, range)
  BY <1>2
<1>5. QED
  BY <1>3, <1>4

\* What is found in a range is a place that holds the name, or 0 if none does.
IsAnswer(name, range, i) ==
    \/ i = 0 /\ \A k \in range[1] .. range[2] : ~Holds(name, k)
    \/ i \in Places /\ Holds(name, i)

RightIn(name, f, range) == \A i \in f[range] : IsAnswer(name, range, i)

LEMMA SearchIsRight ==
    ASSUME Searchable, NEW name \in Seq(Byte), NEW f,
           \A range \in Searched : f[range] = SearchStep(name, f, range),
           NEW d \in Nat,
           \A range \in Searched : (range[2] + 1) - range[1] <= d => RightIn(name, f, range)
    PROVE  \A range \in Searched : (range[2] + 1) - range[1] <= d + 1 => RightIn(name, f, range)
<1> SUFFICES ASSUME NEW range \in Searched, (range[2] + 1) - range[1] <= d + 1, NEW x \in f[range]
             PROVE  IsAnswer(name, range, x)
  BY DEF RightIn
<1> DEFINE lo == range[1]
           hi == range[2]
<1>1. lo \in Nat /\ hi \in Nat
  BY LenProperties DEF Searched, Searchable
<1>2. x \in SearchStep(name, f, range)
  OBVIOUS
<1>3. CASE lo > hi
  <2>1. x = 0
    BY <1>2, <1>3 DEF SearchStep
  <2>2. lo .. hi = {}
    BY <1>1, <1>3
  <2>3. QED
    BY <2>1, <2>2 DEF IsAnswer
<1>4. CASE lo <= hi
  <2>1. PICK i \in lo .. hi :
            x \in IF Holds(name, i) THEN {i}
                  ELSE IF IsBelow(name, i) THEN f[<<lo, i - 1>>] ELSE f[<<i + 1, hi>>]
    <3>1. ~(lo > hi)
      BY <1>1, <1>4
    <3>2. QED
      <4>1. SearchStep(name, f, range) =
                UNION {IF Holds(name, i) THEN {i}
                       ELSE IF IsBelow(name, i) THEN f[<<lo, i - 1>>] ELSE f[<<i + 1, hi>>]
                       : i \in lo .. hi}
        BY <3>1 DEF SearchStep
      <4>2. QED
        BY <1>2, <4>1, Zenon
  <2>2. \A k \in lo .. hi : k \in Places /\ <<lo, k - 1>> \in Searched /\ <<k + 1, hi>> \in Searched
    BY <1>4, SearchedFacts
  <2>3. i \in Places /\ i \in Nat /\ <<lo, i - 1>> \in Searched /\ <<i + 1, hi>> \in Searched
    BY <1>1, <2>2
  <2>4. ASSUME ~Holds(name, i), NEW k \in lo .. hi, Holds(name, k)
        PROVE  (IsBelow(name, i) => k < i) /\ (~IsBelow(name, i) => i < k)
    <3>1. NameOf(listing.entries[k]) = name /\ k \in Places
      BY <2>2, <2>4 DEF Holds
    <3>2. QED
      BY <2>3, <2>4, <3>1, SearchGoesOn
  <2>5. CASE Holds(name, i)
    BY <2>1, <2>3, <2>5 DEF IsAnswer
  <2>6. CASE ~Holds(name, i) /\ IsBelow(name, i)
    <3> DEFINE part == <<lo, i - 1>>
    <3>1. ((i - 1) + 1) - lo <= d /\ part[1] = lo /\ part[2] = i - 1
      <4> HIDE DEF lo, hi
      <4>1. ((i - 1) + 1) - lo <= d
        <5>1. (hi + 1) - lo <= d + 1
          BY DEF lo, hi
        <5>2. QED
          BY <1>1, <2>3, <5>1
      <4>2. QED
        BY <4>1
    <3>2. RightIn(name, f, part)
      BY <2>3, <3>1
    <3>3. IsAnswer(name, part, x)
      BY <2>1, <2>6, <3>2 DEF RightIn
    <3>4. ASSUME \A k \in lo .. (i - 1) : ~Holds(name, k), NEW k \in lo .. hi, Holds(name, k)
          PROVE  FALSE
      <4>1. k < i
        BY <2>4, <2>6, <3>4
      <4>2. k \in lo .. (i - 1)
        BY <1>1, <2>3, <4>1
      <4>3. QED
        BY <3>4, <4>2
    <3>5. QED
      BY <3>1, <3>3, <3>4 DEF IsAnswer
  <2>7. CASE ~Holds(name, i) /\ ~IsBelow(name, i)
    <3> DEFINE part == <<i + 1, hi>>
    <3>1. (hi + 1) - (i + 1) <= d /\ part[1] = i + 1 /\ part[2] = hi
      <4> HIDE DEF lo, hi
      <4>1. (hi + 1) - (i + 1) <= d
        <5>1. (hi + 1) - lo <= d + 1
          BY DEF lo, hi
        <5>2. QED
          BY <1>1, <2>3, <5>1
      <4>2. QED
        BY <4>1
    <3>2. RightIn(name, f, part)
      BY <2>3, <3>1
    <3>3. IsAnswer(name, part, x)
      BY <2>1, <2>7, <3>2 DEF RightIn
    <3>4. ASSUME \A k \in (i + 1) .. hi : ~Holds(name, k), NEW k \in lo .. hi, Holds(name, k)
          PROVE  FALSE
      <4>1. i < k
        BY <2>4, <2>7, <3>4
      <4>2. k \in (i + 1) .. hi
        BY <1>1, <2>3, <4>1
      <4>3. QED
        BY <3>4, <4>2
    <3>5. QED
      BY <3>1, <3>3, <3>4 DEF IsAnswer
  <2>8. QED
    BY <2>5, <2>6, <2>7
<1>5. QED
  BY <1>1, <1>3, <1>4

LEMMA SearchFinds ==
    ASSUME Searchable, NEW name \in Seq(Byte), NEW i \in Found(name)
    PROVE  IF i = 0 THEN \A j \in Places : NameOf(listing.entries[j]) # name
           ELSE NameOf(listing.entries[i]) = name
<1> DEFINE n == Len(listing.entries)
<1>1. n \in Nat /\ Places = 1 .. n
  BY LenProperties DEF Searchable, Places
<1>2. PICK f : /\ Found(name) = f[<<1, n>>]
               /\ \A range \in Searched : f[range] = SearchStep(name, f, range)
  BY FoundIs
<1> DEFINE Up(d) == \A range \in Searched : (range[2] + 1) - range[1] <= d => RightIn(name, f, range)
           S == {d \in Nat : Up(d)}
<1>3. 0 \in S
  <2>1. SUFFICES ASSUME NEW range \in Searched, (range[2] + 1) - range[1] <= 0, NEW x \in f[range]
                 PROVE  IsAnswer(name, range, x)
    BY DEF RightIn
  <2> DEFINE lo == range[1]
             hi == range[2]
  <2>2. lo \in Nat /\ hi \in Nat /\ (hi + 1) - lo <= 0
    <3>1. lo \in 1 .. n + 1 /\ hi \in 0 .. n
      BY DEF Searched
    <3>2. (hi + 1) - lo <= 0
      BY <2>1
    <3> HIDE DEF lo, hi, n
    <3>3. QED
      BY <1>1, <3>1, <3>2
  <2>3. lo > hi /\ lo .. hi = {}
    <3> HIDE DEF lo, hi
    <3>1. QED
      BY <2>2
  <2>4. x = 0
    BY <1>2, <2>3 DEF SearchStep
  <2>5. QED
    BY <2>3, <2>4 DEF IsAnswer
<1>4. \A d \in Nat : d \in S => d + 1 \in S
  BY <1>2, SearchIsRight
<1>5. \A d \in Nat : d \in S
  <2> HIDE DEF S
  <2>1. QED
    BY <1>3, <1>4, Induction
<1>6. <<1, n>> \in Searched /\ (n + 1) - 1 <= n
  BY <1>1 DEF Searched
<1>7. RightIn(name, f, <<1, n>>)
  BY <1>1, <1>5, <1>6
<1>8. IsAnswer(name, <<1, n>>, i)
  BY <1>2, <1>7 DEF RightIn
<1>9. CASE i = 0
  <2>1. \A k \in Places : ~Holds(name, k)
    BY <1>1, <1>8, <1>9 DEF IsAnswer
  <2>2. \A k \in Places : NameOf(listing.entries[k]) = name => Holds(name, k)
    BY DEF Searchable, Holds
  <2>3. QED
    BY <1>9, <2>1, <2>2
<1>10. CASE i # 0
  BY <1>8, <1>10 DEF IsAnswer, Holds
<1>11. QED
  BY <1>9, <1>10

\* The entries are in the order of their names and the search finds each that is
\* there: SortedAndFound.
THEOREM ListingIsSortedAndFound == Spec => []SortedAndFound
<1>1. ListInv => SortedAndFound
  <2> SUFFICES ASSUME ListInv, pc = "listed" PROVE SortedAndFound
    BY DEF SortedAndFound
  <2>1. Searchable
    BY ListedIsSearchable
  <2>2. \A name \in Wanted : name \in Seq(Byte)
    BY NamesAssumption
  <2>3. QED
    BY <2>1, <2>2, SearchFinds, SortedNames DEF SortedAndFound
<1>2. QED
  BY <1>1, ListingKept, PTL

-----------------------------------------------------------------------------
(* Links.                                                                  *)

\* What a text is made of.
Chars == STRING \cup {Sep, "/", "?"}

\* What is read of a path from its fifth character.
After(path) == SubSeq(path, 5, Len(path))

\* What a path becomes in a text.
Slashes(path) == [i \in DOMAIN path |-> Slashed(path[i])]

\* A path as it is read again.
Read(shown) == [i \in DOMAIN shown |-> IF shown[i] = "/" THEN Sep ELSE shown[i]]

\* SameTarget for any reader.
Same(by, shown, target) ==
    IF by # "windows" THEN shown = target
    ELSE IF IsAbsolute(target) THEN Reads(Read(shown)) = After(target.units)
         ELSE Read(shown) = target.units

LinkType == [start : Nat, len : Nat, given : Targets \cup Reparse]

\* A link has its own target in the text `t`, before the place `end`.
LinkIsRight(by, t, link, end) ==
    /\ link.start + link.len <= end
    /\ Same(by, SubSeq(t, link.start + 1, link.start + link.len), link.given)

LinksAre(by, t, some, end) ==
    /\ t \in Seq(Chars) /\ some \in Seq(LinkType)
    /\ end \in Nat /\ end <= Len(t)
    /\ \A i \in DOMAIN some : LinkIsRight(by, t, some[i], end)

\* The text before a place, and past it.
UpTo(t, end) == SubSeq(t, 1, end)

Past(t, end) == SubSeq(t, end + 1, Len(t))

\* A target that is read is at the end of the text.
TargetIs(by, t, from, target) ==
    /\ target \in Targets \cup Reparse
    /\ Same(by, Past(t, from), target)

\* Of a Windows target some units are at the end of the text and the others
\* are coming.
ComingIs(by, t, from, rest, target) ==
    /\ by = "windows" /\ rest \in Seq(Chars)
    /\ target \in Targets \cup Reparse
    /\ Same(by, Past(t, from) \o Slashes(rest), target)

\* The links have their targets in the text.  What is being read comes after
\* them and the text before it is kept; once it is whole it leads where its own
\* link led, and when it is refused it is gone.
LinksInv ==
    /\ result = "none" => LinksAre(reader, text, links, Len(text))
    /\ result # "none" => LinksAre(reader, text, links, start) /\ before = UpTo(text, start)
    /\ result = "reading" => ComingIs(reader, text, start, coming, given)
    /\ result = "text" => TargetIs(reader, text, start, given)
    /\ AppendsNothing

-----------------------------------------------------------------------------
(* Paths on Windows.                                                       *)

LEMMA CharFacts ==
    /\ \A units \in Seq(STRING) : units \in Seq(Chars)
    /\ Sep \in Chars /\ "/" \in Chars /\ "?" \in Chars
<1>1. ASSUME NEW units \in Seq(STRING) PROVE units \in Seq(Chars)
  <2>1. Len(units) \in Nat /\ units = [i \in 1 .. Len(units) |-> units[i]]
    BY LenProperties
  <2>2. \A i \in 1 .. Len(units) : units[i] \in Chars
    BY ElementOfSeq DEF Chars
  <2>3. QED
    BY <2>1, <2>2, IsASeq
<1>2. QED
  BY <1>1 DEF Chars

HasNoSlash(path) == \A i \in DOMAIN path : path[i] # "/"

LEMMA SlashesRead ==
    ASSUME NEW path \in Seq(Chars), HasNoSlash(path)
    PROVE  Slashes(path) \in Seq(Chars) /\ Read(Slashes(path)) = path
<1>1. Len(path) \in Nat /\ DOMAIN path = 1 .. Len(path) /\ path = [i \in 1 .. Len(path) |-> path[i]]
  BY LenProperties
<1>2. Slashes(path) = [i \in 1 .. Len(path) |-> IF path[i] = Sep THEN "/" ELSE path[i]]
  BY <1>1 DEF Slashes, Slashed
<1>3. \A i \in 1 .. Len(path) : (IF path[i] = Sep THEN "/" ELSE path[i]) \in Chars
  BY CharFacts, ElementOfSeq
<1>4. Slashes(path) \in Seq(Chars)
  BY <1>1, <1>2, <1>3, IsASeq
<1>5. Read(Slashes(path)) =
        [i \in 1 .. Len(path) |->
            IF (IF path[i] = Sep THEN "/" ELSE path[i]) = "/" THEN Sep
            ELSE (IF path[i] = Sep THEN "/" ELSE path[i])]
  BY <1>2 DEF Read
<1>6. \A i \in 1 .. Len(path) :
        (IF (IF path[i] = Sep THEN "/" ELSE path[i]) = "/" THEN Sep
         ELSE (IF path[i] = Sep THEN "/" ELSE path[i])) = path[i]
  BY <1>1 DEF HasNoSlash
<1>7. QED
  BY <1>1, <1>4, <1>5, <1>6

\* The first unit of a path, and the others.
LEMMA SlashesGoOn ==
    ASSUME NEW path \in Seq(Chars)
    PROVE  /\ Slashes(path) \in Seq(Chars)
           /\ path = <<>> => Slashes(path) = <<>>
           /\ path # <<>> =>
                /\ Slashed(Head(path)) \in Chars /\ Tail(path) \in Seq(Chars)
                /\ Slashes(path) = <<Slashed(Head(path))>> \o Slashes(Tail(path))
<1>1. ASSUME NEW s \in Seq(Chars)
      PROVE  /\ Len(s) \in Nat /\ Slashes(s) = [i \in 1 .. Len(s) |-> Slashed(s[i])]
             /\ Slashes(s) \in Seq(Chars) /\ Len(Slashes(s)) = Len(s)
             /\ \A i \in 1 .. Len(s) : Slashes(s)[i] = Slashed(s[i])
  <2>1. Len(s) \in Nat /\ DOMAIN s = 1 .. Len(s)
    BY LenProperties
  <2>2. Slashes(s) = [i \in 1 .. Len(s) |-> Slashed(s[i])]
    BY <2>1 DEF Slashes
  <2>3. \A i \in 1 .. Len(s) : Slashed(s[i]) \in Chars
    BY CharFacts, ElementOfSeq DEF Slashed
  <2>4. Slashes(s) \in Seq(Chars)
    BY <2>1, <2>2, <2>3, IsASeq
  <2>5. Len(Slashes(s)) = Len(s)
    BY <2>1, <2>2, <2>4, LenProperties
  <2>6. QED
    BY <2>1, <2>2, <2>4, <2>5
<1>2. CASE path = <<>>
  <2>1. Len(path) = 0
    BY <1>2, EmptySeq
  <2>2. Slashes(path) \in Seq(Chars) /\ Len(Slashes(path)) = 0
    BY <1>1, <2>1
  <2>3. Slashes(path) = <<>>
    BY <2>2, EmptySeq
  <2>4. QED
    BY <1>2, <2>2, <2>3
<1>3. CASE path # <<>>
  <2> DEFINE c == Slashed(Head(path))
             rest == Tail(path)
  <2>1. /\ Len(path) \in Nat \ {0} /\ Head(path) = path[1]
        /\ rest \in Seq(Chars) /\ Len(rest) = Len(path) - 1
        /\ \A i \in 1 .. Len(rest) : rest[i] = path[i + 1]
    BY <1>3, HeadTailProperties, EmptySeq
  <2>2. c \in Chars
    BY <1>3, CharFacts, HeadTailProperties DEF Slashed
  <2> DEFINE one == <<c>>
  <2>3. one \in Seq(Chars) /\ Len(one) = 1 /\ one[1] = c
    BY <2>2
  <2>4. /\ one \o Slashes(rest) \in Seq(Chars) /\ Len(one \o Slashes(rest)) = Len(path)
        /\ \A i \in 1 .. Len(path) :
              (one \o Slashes(rest))[i] = IF i <= 1 THEN c ELSE Slashes(rest)[i - 1]
    <3>1. Slashes(rest) \in Seq(Chars) /\ Len(Slashes(rest)) = Len(path) - 1
      BY <1>1, <2>1
    <3> HIDE DEF rest, c, one
    <3>2. /\ one \o Slashes(rest) \in Seq(Chars)
          /\ Len(one \o Slashes(rest)) = Len(one) + Len(Slashes(rest))
          /\ \A i \in 1 .. Len(one) + Len(Slashes(rest)) :
                (one \o Slashes(rest))[i] = IF i <= Len(one) THEN one[i] ELSE Slashes(rest)[i - Len(one)]
      BY <2>3, <3>1, ConcatProperties
    <3>3. Len(one) + Len(Slashes(rest)) = Len(path)
      BY <2>1, <2>3, <3>1
    <3>4. QED
      BY <2>3, <3>2, <3>3
  <2>5. ASSUME NEW i \in 1 .. Len(path) PROVE (one \o Slashes(rest))[i] = Slashed(path[i])
    <3>1. CASE i = 1
      BY <2>1, <2>4, <3>1
    <3>2. CASE i # 1
      <4>1. ~(i <= 1) /\ i - 1 \in 1 .. Len(rest) /\ (i - 1) + 1 = i
        BY <2>1, <3>2
      <4>2. Slashes(rest)[i - 1] = Slashed(rest[i - 1])
        BY <1>1, <2>1, <4>1
      <4>3. QED
        BY <2>1, <2>4, <4>1, <4>2
    <3>3. QED
      BY <3>1, <3>2
  <2> HIDE DEF c, rest, one
  <2>6. one \o Slashes(rest) = [i \in 1 .. Len(path) |-> (one \o Slashes(rest))[i]]
    BY <2>4, LenProperties
  <2>7. Slashes(path) = one \o Slashes(rest)
    BY <1>1, <2>5, <2>6
  <2>8. QED
    BY <1>1, <1>3, <2>1, <2>2, <2>7 DEF c, rest, one
<1>4. QED
  BY <1>2, <1>3

LEMMA PrefixIsCells ==
    ASSUME NEW s \in Seq(Chars), NEW path \in Seq(Chars)
    PROVE  IsPrefix(s, path) <=> Len(s) <= Len(path) /\ \A i \in 1 .. Len(s) : path[i] = s[i]
<1>1. Len(s) \in Nat /\ Len(path) \in Nat
  BY LenProperties
<1>2. SubSeq(s, 1, Len(s)) = [i \in 1 .. Len(s) |-> s[i]]
  BY <1>1, LenProperties, SubSeqFull
<1>3. CASE Len(s) <= Len(path)
  <2>1. SubSeq(path, 1, Len(s)) = [i \in 1 .. Len(s) |-> path[i]]
    <3>1. \A i \in 1 .. Len(s) : path[i] \in Chars
      BY <1>1, <1>3, ElementOfSeq
    <3>2. /\ SubSeq(path, 1, Len(s)) \in Seq(Chars)
          /\ Len(SubSeq(path, 1, Len(s))) = Len(s)
          /\ \A i \in 1 .. Len(s) : SubSeq(path, 1, Len(s))[i] = path[i]
      BY <1>1, <3>1, SubSeqProperties
    <3>3. QED
      BY <3>2, LenProperties
  <2>2. QED
    BY <1>2, <1>3, <2>1 DEF IsPrefix
<1>4. QED
  BY <1>1, <1>3 DEF IsPrefix

LEMMA IsPrefixIf ==
    ASSUME NEW s \in Seq(Chars), NEW path \in Seq(Chars), Len(s) <= Len(path),
           \A i \in 1 .. Len(s) : path[i] = s[i]
    PROVE  IsPrefix(s, path)
BY PrefixIsCells

LEMMA NoPrefixIf ==
    ASSUME NEW s \in Seq(Chars), NEW path \in Seq(Chars), NEW i \in 1 .. Len(s),
           Len(s) <= Len(path) => path[i] # s[i]
    PROVE  ~IsPrefix(s, path)
BY PrefixIsCells

LEMMA SmallPrefixes ==
    /\ Verbatim \in Seq(Chars) /\ Len(Verbatim) = 4
    /\ Verbatim[1] = Sep /\ Verbatim[2] = Sep /\ Verbatim[3] = "?" /\ Verbatim[4] = Sep
    /\ <<Sep, Sep>> \in Seq(Chars) /\ Len(<<Sep, Sep>>) = 2
    /\ <<Sep, Sep>>[1] = Sep /\ <<Sep, Sep>>[2] = Sep
    /\ 2 \in 1 .. 4 /\ 3 \in 1 .. 4 /\ 2 \in 1 .. 2
    /\ 1 .. 4 = {1, 2, 3, 4} /\ 1 .. 2 = {1, 2}
BY CharFacts DEF Verbatim

\* The path that user_path is given.
LEMMA VerbatimIs ==
    ASSUME NEW rest \in Seq(Chars)
    PROVE  /\ Verbatim \o rest \in Seq(Chars)
           /\ Len(Verbatim \o rest) = Len(rest) + 4
           /\ (Verbatim \o rest)[1] = Sep /\ (Verbatim \o rest)[2] = Sep
           /\ (Verbatim \o rest)[3] = "?" /\ (Verbatim \o rest)[4] = Sep
           /\ \A i \in 1 .. Len(rest) : (Verbatim \o rest)[i + 4] = rest[i]
<1>1. Verbatim \in Seq(Chars) /\ Len(Verbatim) = 4
  BY CharFacts DEF Verbatim
<1>2. /\ Verbatim[1] = Sep /\ Verbatim[2] = Sep /\ Verbatim[3] = "?" /\ Verbatim[4] = Sep
  BY DEF Verbatim
<1>3. Len(rest) \in Nat
  BY LenProperties
<1>4. /\ Verbatim \o rest \in Seq(Chars)
      /\ Len(Verbatim \o rest) = 4 + Len(rest)
      /\ \A i \in 1 .. 4 + Len(rest) :
            (Verbatim \o rest)[i] = IF i <= 4 THEN Verbatim[i] ELSE rest[i - 4]
  <2>1. /\ Verbatim \o rest \in Seq(Chars)
        /\ Len(Verbatim \o rest) = Len(Verbatim) + Len(rest)
        /\ \A i \in 1 .. Len(Verbatim) + Len(rest) :
              (Verbatim \o rest)[i] = IF i <= Len(Verbatim) THEN Verbatim[i] ELSE rest[i - Len(Verbatim)]
    BY <1>1, ConcatProperties
  <2>2. QED
    BY <1>1, <2>1
<1>5. \A i \in 1 .. Len(rest) : i + 4 \in 1 .. 4 + Len(rest) /\ ~(i + 4 <= 4) /\ (i + 4) - 4 = i
  BY <1>3
<1>6. {1, 2, 3, 4} \subseteq 1 .. 4 + Len(rest)
  BY <1>3
<1>7. \A i \in 1 .. Len(rest) : (Verbatim \o rest)[i + 4] = rest[i]
  BY <1>4, <1>5
<1>8. QED
  BY <1>2, <1>3, <1>4, <1>6, <1>7

\* A path from a place on.
LEMMA TailIs ==
    ASSUME NEW path \in Seq(Chars), NEW k \in Nat, k <= Len(path)
    PROVE  /\ SubSeq(path, k + 1, Len(path)) \in Seq(Chars)
           /\ Len(SubSeq(path, k + 1, Len(path))) = Len(path) - k
           /\ \A i \in 1 .. Len(path) - k : SubSeq(path, k + 1, Len(path))[i] = path[i + k]
           /\ SubSeq(path, k + 1, Len(path)) = [i \in 1 .. Len(path) - k |-> path[i + k]]
<1>1. Len(path) \in Nat
  BY LenProperties
<1>2. \A i \in k + 1 .. Len(path) : path[i] \in Chars
  BY <1>1, ElementOfSeq
<1>3. /\ SubSeq(path, k + 1, Len(path)) \in Seq(Chars)
      /\ Len(SubSeq(path, k + 1, Len(path))) = IF k + 1 <= Len(path) THEN Len(path) - (k + 1) + 1 ELSE 0
      /\ \A i \in 1 .. Len(path) - (k + 1) + 1 :
            SubSeq(path, k + 1, Len(path))[i] = path[(k + 1) + i - 1]
  BY <1>1, <1>2, SubSeqProperties
<1>4. Len(path) - (k + 1) + 1 = Len(path) - k /\ \A i \in Int : (k + 1) + i - 1 = i + k
  BY <1>1
<1>5. Len(SubSeq(path, k + 1, Len(path))) = Len(path) - k
  BY <1>1, <1>3
<1>6. \A i \in 1 .. Len(path) - k : SubSeq(path, k + 1, Len(path))[i] = path[i + k]
  BY <1>1, <1>3, <1>4
<1>7. QED
  BY <1>3, <1>5, <1>6, LenProperties

HasNoQuestion(path) == \A i \in DOMAIN path : path[i] # "?"

\* A shorter path leads where the longer did: it does not begin as another form
\* of path does, and Windows takes it as it is.
Leads(path, rest) == path \in Seq(Chars) /\ HasNoSlash(path) /\ Reads(path) = rest

LEMMA VerbatimTail ==
    ASSUME NEW rest \in Seq(Chars)
    PROVE  After(Verbatim \o rest) = rest
<1> DEFINE path == Verbatim \o rest
<1>1. /\ path \in Seq(Chars) /\ Len(path) = Len(rest) + 4
      /\ \A i \in 1 .. Len(rest) : path[i + 4] = rest[i]
  BY VerbatimIs
<1>2. Len(rest) \in Nat /\ rest = [i \in 1 .. Len(rest) |-> rest[i]]
  BY LenProperties
<1> HIDE DEF path
<1>3. 4 \in Nat /\ 4 <= Len(path) /\ Len(path) - 4 = Len(rest) /\ 4 + 1 = 5
  BY <1>1, <1>2
<1>4. SubSeq(path, 4 + 1, Len(path)) = [i \in 1 .. Len(path) - 4 |-> path[i + 4]]
  BY <1>1, <1>3, TailIs
<1>5. After(path) = rest
  BY <1>1, <1>2, <1>3, <1>4 DEF After
<1>6. QED
  BY <1>5 DEF path

\* The path that is not made shorter.
LEMMA VerbatimLeads ==
    ASSUME NEW rest \in Seq(Chars), HasNoSlash(rest)
    PROVE  Leads(Verbatim \o rest, rest)
<1> DEFINE path == Verbatim \o rest
<1>1. /\ path \in Seq(Chars) /\ Len(path) = Len(rest) + 4
      /\ path[1] = Sep /\ path[2] = Sep /\ path[3] = "?" /\ path[4] = Sep
      /\ \A i \in 1 .. Len(rest) : path[i + 4] = rest[i]
  BY VerbatimIs
<1>2. Len(rest) \in Nat /\ rest = [i \in 1 .. Len(rest) |-> rest[i]] /\ DOMAIN rest = 1 .. Len(rest)
  BY LenProperties
<1> HIDE DEF path
<1>3. Verbatim \in Seq(Chars) /\ Len(Verbatim) = 4
  BY CharFacts DEF Verbatim
<1>4. \A i \in 1 .. 4 : path[i] = Verbatim[i]
  BY <1>1 DEF Verbatim
<1>5. IsPrefix(Verbatim, path)
  <2>1. Len(Verbatim) <= Len(path)
    BY <1>1, <1>2, <1>3
  <2>2. \A i \in 1 .. Len(Verbatim) : path[i] = Verbatim[i]
    BY <1>3, <1>4
  <2>3. QED
    BY <1>1, <1>3, <2>1, <2>2, IsPrefixIf
<1>6. After(path) = rest
  BY VerbatimTail DEF path
<1>7. HasNoSlash(path)
  <2>1. ASSUME NEW i \in DOMAIN path PROVE path[i] # "/"
    <3>1. i \in 1 .. Len(rest) + 4
      BY <1>1, <2>1, LenProperties
    <3>2. CASE i \in 1 .. 4
      BY <1>1, <3>2 DEF Sep
    <3>3. CASE i \notin 1 .. 4
      <4>1. i - 4 \in 1 .. Len(rest) /\ (i - 4) + 4 = i
        BY <1>2, <3>1, <3>3
      <4>2. QED
        BY <1>1, <1>2, <4>1 DEF HasNoSlash
    <3>4. QED
      BY <3>2, <3>3
  <2>2. QED
    BY <2>1 DEF HasNoSlash
<1>8. Leads(path, rest)
  BY <1>1, <1>5, <1>6, <1>7 DEF Leads, Reads, After
<1>9. QED
  BY <1>8 DEF path

\* A path that starts with the letter of a drive.
LEMMA DriveLeads ==
    ASSUME NEW rest \in Seq(Chars), HasNoSlash(rest), IsDrive(Verbatim \o rest),
           FullPath(rest) = rest
    PROVE  Leads(rest, rest)
<1> DEFINE path == Verbatim \o rest
<1>1. /\ Len(path) = Len(rest) + 4
      /\ \A i \in 1 .. Len(rest) : path[i + 4] = rest[i]
  BY VerbatimIs
<1>2. Len(rest) \in Nat
  BY LenProperties
<1>3. Len(path) >= 7 /\ path[6] = ":"
  BY DEF IsDrive
<1> HIDE DEF path
<1>4. Len(rest) >= 3 /\ 2 \in 1 .. Len(rest) /\ 2 + 4 = 6
  BY <1>1, <1>2, <1>3
<1>5. rest[2] = ":"
  BY <1>1, <1>3, <1>4
<1>6. ~IsPrefix(Verbatim, rest)
  <2>1. 2 \in 1 .. Len(Verbatim) /\ Verbatim[2] # rest[2]
    BY <1>5, SmallPrefixes DEF Sep
  <2>2. QED
    BY <2>1, SmallPrefixes, NoPrefixIf
<1>7. ~IsPrefix(<<Sep, Sep>>, rest)
  <2>1. 2 \in 1 .. Len(<<Sep, Sep>>) /\ <<Sep, Sep>>[2] # rest[2]
    BY <1>5, SmallPrefixes DEF Sep
  <2>2. QED
    BY <2>1, SmallPrefixes, NoPrefixIf
<1>8. QED
  BY <1>6, <1>7 DEF Leads, Reads

\* A path that starts with a server's name: what comes of one Sep over the C.
LEMMA ServerLeads ==
    ASSUME NEW rest \in Seq(Chars), HasNoSlash(rest), HasNoQuestion(rest),
           IsUnc(Verbatim \o rest),
           NEW shorter,
           shorter = SubSeq([(Verbatim \o rest) EXCEPT ![7] = Sep], 7, Len(Verbatim \o rest)),
           FullPath(shorter) = shorter
    PROVE  Leads(shorter, rest)
<1> DEFINE path == Verbatim \o rest
           other == [path EXCEPT ![7] = Sep]
<1>1. /\ path \in Seq(Chars) /\ Len(path) = Len(rest) + 4
      /\ \A i \in 1 .. Len(rest) : path[i + 4] = rest[i]
  BY VerbatimIs
<1>2. Len(rest) \in Nat /\ DOMAIN rest = 1 .. Len(rest) /\ rest = [i \in 1 .. Len(rest) |-> rest[i]]
  BY LenProperties
<1>3. Len(path) >= 8 /\ SubSeq(path, 5, 8) = Unc
  BY DEF IsUnc
<1>4. shorter = SubSeq(other, 7, Len(path))
  OBVIOUS
<1>5. 7 \in 1 .. Len(path) /\ Len(rest) >= 4 /\ Sep \in Chars
  BY <1>1, <1>2, <1>3, CharFacts
<1>6. /\ other \in Seq(Chars) /\ Len(other) = Len(path)
      /\ \A j \in 1 .. Len(path) : other[j] = IF j = 7 THEN Sep ELSE path[j]
  <2>1. path \in Seq(Chars) /\ 7 \in 1 .. Len(path) /\ Sep \in Chars
    BY <1>1, <1>5
  <2> HIDE DEF path
  <2>2. QED
    BY <2>1, ExceptSeq
<1> HIDE DEF path, other
<1>7. Len(rest) \in Nat /\ Len(rest) >= 4 /\ Len(path) = Len(rest) + 4
  BY <1>1, <1>2, <1>5
\* The four characters of Unc.
<1>8. rest[1] = "U" /\ rest[2] = "N" /\ rest[3] = "C" /\ rest[4] = Sep
  <2>1. \A i \in 5 .. 8 : path[i] \in Chars
    <3>1. 5 .. 8 \subseteq 1 .. Len(path)
      BY <1>7, SMTT(30)
    <3>2. QED
      BY <1>1, <3>1, ElementOfSeq
  <2>2. \A i \in 1 .. 8 - 5 + 1 : SubSeq(path, 5, 8)[i] = path[5 + i - 1]
    BY <2>1, SubSeqProperties
  <2>3. \A i \in 1 .. 4 : i \in 1 .. 8 - 5 + 1 /\ i \in 1 .. Len(rest) /\ 5 + i - 1 = i + 4
    BY <1>7
  <2>4. \A i \in 1 .. 4 : Unc[i] = rest[i]
    BY <1>1, <1>3, <2>2, <2>3
  <2>5. QED
    BY <2>4 DEF Unc
<1>9. /\ shorter \in Seq(Chars) /\ Len(shorter) = Len(rest) - 2
      /\ \A i \in 1 .. Len(rest) - 2 : shorter[i] = other[i + 6]
  <2>1. 6 \in Nat /\ 6 <= Len(other) /\ 6 + 1 = 7 /\ Len(other) - 6 = Len(rest) - 2
    BY <1>1, <1>2, <1>3, <1>6
  <2>2. /\ SubSeq(other, 6 + 1, Len(other)) \in Seq(Chars)
        /\ Len(SubSeq(other, 6 + 1, Len(other))) = Len(other) - 6
        /\ \A i \in 1 .. Len(other) - 6 : SubSeq(other, 6 + 1, Len(other))[i] = other[i + 6]
    BY <1>6, <2>1, TailIs
  <2>3. QED
    BY <1>4, <1>6, <2>1, <2>2
<1>10. shorter[1] = Sep /\ \A i \in 2 .. Len(rest) - 2 : shorter[i] = rest[i + 2]
  <2>1. 1 \in 1 .. Len(rest) - 2 /\ 1 + 6 = 7
    BY <1>2, <1>5
  <2>2. shorter[1] = Sep
    BY <1>5, <1>6, <1>9, <2>1
  <2>3. ASSUME NEW i \in 2 .. Len(rest) - 2 PROVE shorter[i] = rest[i + 2]
    <3>1. /\ i \in 1 .. Len(rest) - 2 /\ i + 6 \in 1 .. Len(path) /\ i + 6 # 7
          /\ i + 2 \in 1 .. Len(rest) /\ (i + 2) + 4 = i + 6
      BY <1>7, SMTT(30)
    <3>2. shorter[i] = path[i + 6] /\ path[(i + 2) + 4] = rest[i + 2]
      BY <1>1, <1>6, <1>9, <3>1
    <3>3. QED
      BY <3>1, <3>2
  <2>4. QED
    BY <2>2, <2>3
<1>11. shorter[2] = Sep
  <2>1. 2 \in 2 .. Len(rest) - 2 /\ 2 + 2 = 4
    BY <1>2, <1>5
  <2>2. QED
    BY <1>8, <1>10, <2>1
<1>12. IsPrefix(<<Sep, Sep>>, shorter)
  <2>1. Len(<<Sep, Sep>>) <= Len(shorter)
    <3>1. 2 <= Len(shorter)
      <4>1. Len(shorter) = Len(rest) - 2
        BY <1>9
      <4>2. 2 <= Len(rest) - 2
        BY <1>7
      <4>3. QED
        BY <4>1, <4>2
    <3>2. QED
      BY <3>1, SmallPrefixes
  <2>2. \A i \in 1 .. Len(<<Sep, Sep>>) : shorter[i] = <<Sep, Sep>>[i]
    BY <1>10, <1>11, SmallPrefixes
  <2>3. QED
    BY <1>9, <2>1, <2>2, SmallPrefixes, IsPrefixIf
<1>13. ~IsPrefix(Verbatim, shorter)
  <2>1. ASSUME Len(shorter) >= 4 PROVE shorter[3] # "?"
    <3>1. 3 \in 2 .. Len(rest) - 2 /\ 3 + 2 = 5 /\ 5 \in 1 .. Len(rest)
      BY <1>2, <1>5, <1>9, <2>1
    <3>2. QED
      BY <1>2, <1>10, <3>1 DEF HasNoQuestion
  <2>2. 3 \in 1 .. Len(Verbatim) /\ (Len(Verbatim) <= Len(shorter) => shorter[3] # Verbatim[3])
    <3>1. Len(shorter) \in Nat /\ (4 <= Len(shorter) => Len(shorter) >= 4)
      BY <1>9, LenProperties
    <3>2. QED
      BY <2>1, <3>1, SmallPrefixes
  <2>3. QED
    BY <1>9, <2>2, SmallPrefixes, NoPrefixIf
<1>14. Unc \o SubSeq(shorter, 3, Len(shorter)) = rest
  <2> DEFINE tail == SubSeq(shorter, 2 + 1, Len(shorter))
  <2>1. 2 <= Len(shorter) /\ Len(shorter) - 2 = Len(rest) - 4
    <3>1. Len(shorter) = Len(rest) - 2
      BY <1>9
    <3>2. 2 <= Len(rest) - 2 /\ (Len(rest) - 2) - 2 = Len(rest) - 4
      BY <1>7
    <3>3. QED
      BY <3>1, <3>2
  <2>2. /\ tail \in Seq(Chars) /\ Len(tail) = Len(rest) - 4
        /\ \A i \in 1 .. Len(rest) - 4 : tail[i] = shorter[i + 2]
    <3>1. shorter \in Seq(Chars) /\ 2 \in Nat
      BY <1>9
    <3>2. /\ tail \in Seq(Chars) /\ Len(tail) = Len(shorter) - 2
          /\ \A i \in 1 .. Len(shorter) - 2 : tail[i] = shorter[i + 2]
      BY <2>1, <3>1, TailIs
    <3> HIDE DEF tail
    <3>3. QED
      BY <2>1, <3>2
  <2> HIDE DEF tail
  <2>3. \A i \in 1 .. Len(rest) - 4 : i + 2 \in 2 .. Len(rest) - 2 /\ (i + 2) + 2 = i + 4
    BY <1>7, SMTT(30)
  <2>4. \A i \in 1 .. Len(rest) - 4 : tail[i] = rest[i + 4]
    BY <1>10, <2>2, <2>3
  <2> DEFINE start4 == [i \in 1 .. 4 |-> rest[i]]
  <2>5. Unc = start4
    BY <1>8 DEF Unc
  <2>6. start4 \in Seq(Chars) /\ Len(start4) = 4
    <3>1. \A i \in 1 .. 4 : rest[i] \in Chars
      <4>1. 1 .. 4 \subseteq 1 .. Len(rest)
        BY <1>7, SMTT(30)
      <4>2. QED
        BY <4>1, ElementOfSeq
    <3>2. start4 \in Seq(Chars)
      BY <3>1, IsASeq
    <3>3. QED
      BY <3>2, LenProperties
  <2>7. \A i \in 1 .. 4 : start4[i] = rest[i]
    OBVIOUS
  <2> HIDE DEF start4
  <2> DEFINE whole == start4 \o tail
  <2>8. /\ whole \in Seq(Chars) /\ Len(whole) = Len(start4) + Len(tail)
        /\ \A i \in 1 .. Len(start4) + Len(tail) :
              whole[i] = IF i <= Len(start4) THEN start4[i] ELSE tail[i - Len(start4)]
    BY <2>2, <2>6, ConcatProperties
  <2> HIDE DEF whole
  <2>9. Len(whole) = Len(rest)
    BY <1>2, <1>5, <2>2, <2>6, <2>8
  <2>10. ASSUME NEW i \in 1 .. Len(rest) PROVE whole[i] = rest[i]
    <3>1. whole[i] = IF i <= 4 THEN start4[i] ELSE tail[i - 4]
      BY <1>2, <1>5, <2>2, <2>6, <2>8
    <3>2. CASE i \in 1 .. 4
      BY <2>7, <3>1, <3>2
    <3>3. CASE i \notin 1 .. 4
      <4>1. i - 4 \in 1 .. Len(rest) - 4 /\ (i - 4) + 4 = i /\ ~(i <= 4)
        BY <1>7, <3>3
      <4>2. QED
        BY <2>4, <3>1, <4>1
    <3>4. QED
      BY <3>2, <3>3
  <2>11. whole = rest
    BY <1>2, <2>8, <2>9, <2>10, LenProperties
  <2>12. QED
    BY <2>5, <2>11 DEF whole, tail
<1>15. HasNoSlash(shorter)
  <2>1. ASSUME NEW i \in DOMAIN shorter PROVE shorter[i] # "/"
    <3>1. i \in 1 .. Len(rest) - 2
      BY <1>9, LenProperties
    <3>2. CASE i = 1
      BY <1>10, <3>2 DEF Sep
    <3>3. CASE i # 1
      <4>1. i \in 2 .. Len(rest) - 2 /\ i + 2 \in 1 .. Len(rest)
        BY <1>2, <1>5, <3>1, <3>3
      <4>2. QED
        BY <1>2, <1>10, <4>1 DEF HasNoSlash
    <3>4. QED
      BY <3>2, <3>3
  <2>2. QED
    BY <2>1 DEF HasNoSlash
<1>16. QED
  BY <1>9, <1>12, <1>13, <1>14, <1>15 DEF Leads, Reads

LEMMA UserPathLeads ==
    ASSUME NEW rest \in Seq(Chars), HasNoSlash(rest), HasNoQuestion(rest)
    PROVE  Leads(UserPath(Verbatim \o rest), rest)
<1> DEFINE path == Verbatim \o rest
           server == SubSeq([path EXCEPT ![7] = Sep], 7, Len(path))
<1>1. Leads(path, rest)
  BY VerbatimLeads
<1>2. IsDrive(path) /\ FullPath(rest) = rest => Leads(rest, rest)
  BY DriveLeads
<1>3. IsUnc(path) /\ FullPath(server) = server => Leads(server, rest)
  BY ServerLeads
<1>4. SubSeq(path, 5, Len(path)) = rest
  BY VerbatimTail DEF After
<1>5. \/ UserPath(path) = path
      \/ IsDrive(path) /\ FullPath(rest) = rest /\ UserPath(path) = rest
      \/ IsUnc(path) /\ FullPath(server) = server /\ UserPath(path) = server
  <2> HIDE DEF path
  <2>1. CASE IsDrive(path)
    BY <1>4, <2>1 DEF UserPath, Restored
  <2>2. CASE ~IsDrive(path)
    BY <2>2 DEF UserPath, Restored
  <2>3. QED
    BY <2>1, <2>2
<1> HIDE DEF server
<1>6. QED
  BY <1>1, <1>2, <1>3, <1>5

-----------------------------------------------------------------------------
(* Reparse points.                                                         *)

CellValues(point) == Chars \cup Nat \cup {point.tag, point.relative}

LEMMA MoreValues ==
    ASSUME NEW point, NEW units \in Seq(Chars)
    PROVE  units \in Seq(CellValues(point))
<1>1. Len(units) \in Nat /\ units = [i \in 1 .. Len(units) |-> units[i]]
  BY LenProperties
<1>2. \A i \in 1 .. Len(units) : units[i] \in CellValues(point)
  BY ElementOfSeq DEF CellValues
<1>3. QED
  BY <1>1, <1>2, IsASeq

\* `joined` is s, of m cells, and t, of n cells.
IsJoin(V, joined, s, m, t, n) ==
    /\ joined \in Seq(V) /\ Len(joined) = m + n
    /\ \A i \in 1 .. m + n : joined[i] = IF i <= m THEN s[i] ELSE t[i - m]

LEMMA JoinIs ==
    ASSUME NEW V, NEW s \in Seq(V), NEW t \in Seq(V), NEW m, NEW n, Len(s) = m, Len(t) = n
    PROVE  IsJoin(V, s \o t, s, m, t, n)
<1>1. IsJoin(V, s \o t, s, Len(s), t, Len(t))
  BY ConcatProperties DEF IsJoin
<1>2. QED
  BY <1>1

\* The fields before the names.
Fields(point) ==
    <<point.tag, 0, 0, 0, 0, Len(point.units), Len(point.units), Len(point.printed)>>
    \o (IF point.tag = "symlink" THEN <<point.relative, 0>> ELSE <<>>)

LEMMA FieldsAre ==
    ASSUME NEW point, point.units \in Seq(Chars), point.printed \in Seq(Chars)
    PROVE  /\ Fields(point) \in Seq(CellValues(point))
           /\ Len(Fields(point)) = NamesAt(point.tag)
           /\ Fields(point)[1] = point.tag
           /\ Fields(point)[5] = 0
           /\ Fields(point)[6] = Len(point.units)
           /\ point.tag = "symlink" => Fields(point)[9] = point.relative
<1> DEFINE V == CellValues(point)
           first == <<point.tag, 0, 0, 0, 0, Len(point.units), Len(point.units), Len(point.printed)>>
           flags == IF point.tag = "symlink" THEN <<point.relative, 0>> ELSE <<>>
<1>1. Len(point.units) \in Nat /\ Len(point.printed) \in Nat
  BY LenProperties
<1>2. point.tag \in V /\ point.relative \in V /\ 0 \in V /\ Len(point.units) \in V /\ Len(point.printed) \in V
  BY <1>1 DEF CellValues
<1> HIDE DEF V
<1>3. first \in Seq(V) /\ Len(first) = 8
  BY <1>2
<1>4. first[1] = point.tag /\ first[5] = 0 /\ first[6] = Len(point.units)
  OBVIOUS
<1>5. /\ flags \in Seq(V) /\ Len(flags) = NamesAt(point.tag) - 8
      /\ NamesAt(point.tag) \in {8, 10}
      /\ point.tag = "symlink" => flags[1] = point.relative /\ Len(flags) = 2
  BY <1>2 DEF NamesAt
<1>6. Fields(point) = first \o flags
  BY DEF Fields
<1> HIDE DEF first, flags
<1>7. /\ first \o flags \in Seq(V)
      /\ Len(first \o flags) = Len(first) + Len(flags)
      /\ \A i \in 1 .. Len(first) + Len(flags) :
            (first \o flags)[i] = IF i <= Len(first) THEN first[i] ELSE flags[i - Len(first)]
  BY <1>3, <1>5, ConcatProperties
<1>8. Len(first \o flags) = NamesAt(point.tag)
  BY <1>3, <1>5, <1>7
<1>9. Len(first) + Len(flags) \in {8, 10}
  BY <1>3, <1>5
<1>10. 1 \in 1 .. Len(first) + Len(flags) /\ 5 \in 1 .. Len(first) + Len(flags) /\ 6 \in 1 .. Len(first) + Len(flags)
  BY <1>9
<1>11. (first \o flags)[1] = first[1] /\ (first \o flags)[5] = first[5] /\ (first \o flags)[6] = first[6]
  BY <1>3, <1>7, <1>10
<1>12. ASSUME point.tag = "symlink" PROVE (first \o flags)[9] = point.relative
  <2>1. Len(flags) = 2 /\ flags[1] = point.relative
    BY <1>5, <1>12
  <2>2. 9 \in 1 .. Len(first) + Len(flags) /\ ~(9 <= Len(first)) /\ 9 - Len(first) = 1
    BY <1>3, <2>1
  <2>3. QED
    BY <1>7, <2>1, <2>2
<1>13. QED
  BY <1>4, <1>6, <1>7, <1>8, <1>11, <1>12 DEF V

LEMMA CellsAre ==
    ASSUME NEW point, point.units \in Seq(Chars), point.printed \in Seq(Chars)
    PROVE  /\ Cells(point) \in Seq(CellValues(point))
           /\ Len(Cells(point)) = NamesAt(point.tag) + Len(point.units) + Len(point.printed)
           /\ Cells(point)[1] = point.tag
           /\ Cells(point)[5] = 0
           /\ Cells(point)[6] = Len(point.units)
           /\ point.tag = "symlink" => Cells(point)[9] = point.relative
           /\ \A i \in 1 .. Len(point.units) :
                  Cells(point)[NamesAt(point.tag) + i] = point.units[i]
<1> DEFINE V == CellValues(point)
           u == Len(point.units)
           p == Len(point.printed)
           f == NamesAt(point.tag)
           fields == Fields(point)
           named == fields \o point.units
<1>1. u \in Nat /\ p \in Nat
  BY LenProperties
<1>2. f \in {8, 10} /\ (point.tag = "symlink" => f = 10)
  BY DEF NamesAt
<1>3. /\ fields \in Seq(V) /\ Len(fields) = f
      /\ fields[1] = point.tag /\ fields[5] = 0 /\ fields[6] = u
      /\ point.tag = "symlink" => fields[9] = point.relative
  BY FieldsAre
<1>4. point.units \in Seq(V) /\ point.printed \in Seq(V)
  BY MoreValues
<1>5. Cells(point) = named \o point.printed
  BY DEF Cells, Fields
<1>6. Len(point.units) = u /\ Len(point.printed) = p
  OBVIOUS
<1> HIDE DEF V, f, fields, u, p
<1>7. /\ named \in Seq(V) /\ Len(named) = f + u
      /\ \A i \in 1 .. f + u : named[i] = IF i <= f THEN fields[i] ELSE point.units[i - f]
  <2>1. IsJoin(V, fields \o point.units, fields, f, point.units, u)
    BY <1>3, <1>4, <1>6, JoinIs
  <2>2. IsJoin(V, named, fields, f, point.units, u)
    BY <2>1
  <2> HIDE DEF named
  <2>3. QED
    BY <2>2 DEF IsJoin
<1> HIDE DEF named
<1>8. /\ Cells(point) \in Seq(V) /\ Len(Cells(point)) = f + u + p
      /\ \A i \in 1 .. f + u + p :
            Cells(point)[i] = IF i <= f + u THEN named[i] ELSE point.printed[i - (f + u)]
  <2>1. IsJoin(V, named \o point.printed, named, f + u, point.printed, p)
    BY <1>4, <1>6, <1>7, JoinIs
  <2>2. IsJoin(V, Cells(point), named, f + u, point.printed, p)
    BY <1>5, <2>1
  <2>3. QED
    BY <2>2 DEF IsJoin
<1>9. ASSUME NEW i \in 1 .. f PROVE Cells(point)[i] = fields[i]
  <2>1. i \in 1 .. f + u + p /\ i \in 1 .. f + u /\ i <= f + u /\ i <= f
    BY <1>1, <1>2
  <2>2. QED
    BY <1>7, <1>8, <2>1
<1>10. ASSUME NEW i \in 1 .. u PROVE Cells(point)[f + i] = point.units[i]
  <2>1. /\ f + i \in 1 .. f + u + p /\ f + i \in 1 .. f + u /\ f + i <= f + u
        /\ ~(f + i <= f) /\ (f + i) - f = i
    BY <1>1, <1>2
  <2>2. Cells(point)[f + i] = named[f + i]
    BY <1>8, <2>1
  <2>3. named[f + i] = point.units[i]
    BY <1>7, <2>1
  <2>4. QED
    BY <2>2, <2>3
<1>11. {1, 5, 6} \subseteq 1 .. f /\ (point.tag = "symlink" => 9 \in 1 .. f)
  BY <1>2
<1>12. /\ Cells(point)[1] = point.tag /\ Cells(point)[5] = 0 /\ Cells(point)[6] = u
       /\ point.tag = "symlink" => Cells(point)[9] = point.relative
  BY <1>3, <1>9, <1>11
<1>13. QED
  BY <1>8, <1>10, <1>12 DEF V, f, u, p

\* What is read of a reparse point, if a call writes any number of its cells.
LEMMA TargetIsWhole ==
    ASSUME NEW point, point.units \in Seq(Chars), point.printed \in Seq(Chars),
           NEW n \in 0 .. Len(Cells(point)),
           NEW read, read = ReparseTarget(SubSeq(Cells(point), 1, n)), read.ok
    PROVE  read.units = IF IsAbsolute(point) THEN UserPath(Verbatim \o After(point.units))
                        ELSE point.units
<1> DEFINE V == CellValues(point)
           all == Cells(point)
           cells == SubSeq(all, 1, n)
           u == Len(point.units)
           f == NamesAt(point.tag)
<1>1. u \in Nat /\ Len(point.printed) \in Nat /\ f \in Nat /\ f >= 8
      /\ (point.tag = "symlink" => f = 10)
  BY LenProperties DEF NamesAt
<1>2. /\ all \in Seq(V) /\ Len(all) \in Nat
      /\ all[1] = point.tag /\ all[5] = 0 /\ all[6] = u
      /\ point.tag = "symlink" => all[9] = point.relative
      /\ \A i \in 1 .. u : all[f + i] = point.units[i]
  BY CellsAre, LenProperties
<1> HIDE DEF V, all, f, u
<1>3. n \in Nat /\ n <= Len(all)
  BY <1>2 DEF all
<1>4. /\ cells \in Seq(V) /\ Len(cells) = n
      /\ \A i \in 1 .. n : cells[i] = all[i]
  <2>1. \A i \in 1 .. n : all[i] \in V
    BY <1>2, <1>3, ElementOfSeq
  <2>2. /\ cells \in Seq(V)
        /\ Len(cells) = IF 1 <= n THEN n - 1 + 1 ELSE 0
        /\ \A i \in 1 .. n - 1 + 1 : cells[i] = all[1 + i - 1]
    BY <1>3, <2>1, SubSeqProperties
  <2> HIDE DEF cells
  <2>3. n - 1 + 1 = n /\ (~(1 <= n) => n = 0) /\ \A i \in 1 .. n : 1 + i - 1 = i
    BY <1>3
  <2>4. QED
    BY <2>2, <2>3
<1>5. read = ReparseTarget(cells)
  BY DEF all
<1> HIDE DEF cells
<1> DEFINE names == NamesAt(cells[1])
           from == names + cells[5]
           relative == cells[1] = "symlink" /\ cells[9]
           units == SubSeq(cells, from + 1, from + cells[6])
<1>6. /\ 2 <= Len(cells) /\ (cells[1] = "symlink" => 9 <= Len(cells))
      /\ 6 <= Len(cells) /\ from + cells[6] <= Len(cells)
      /\ read.units = IF ~relative /\ IsPrefix(NtPrefix, units)
                      THEN UserPath(Verbatim \o SubSeq(units, 5, Len(units)))
                      ELSE units
  <2> DEFINE fits == /\ 2 <= Len(cells)
                     /\ cells[1] \in {"symlink", "mount"}
                     /\ cells[1] = "symlink" => 9 <= Len(cells)
                     /\ 6 <= Len(cells)
                     /\ from + cells[6] <= Len(cells)
             value == IF ~relative /\ IsPrefix(NtPrefix, units)
                      THEN UserPath(Verbatim \o SubSeq(units, 5, Len(units)))
                      ELSE units
  <2>1. read = IF fits THEN [ok |-> TRUE, units |-> value] ELSE NoTarget
    BY <1>5 DEF ReparseTarget
  <2> HIDE DEF value, fits
  <2>2. fits /\ read.units = value
    BY <2>1 DEF NoTarget
  <2>3. QED
    BY <2>2 DEF value, fits
<1>7. cells[1] = point.tag /\ cells[5] = 0 /\ cells[6] = u
  <2>1. 1 \in 1 .. n /\ 5 \in 1 .. n /\ 6 \in 1 .. n
    BY <1>3, <1>4, <1>6
  <2>2. QED
    BY <1>2, <1>4, <2>1
<1>8. point.tag = "symlink" => cells[9] = point.relative
  <2>1. ASSUME point.tag = "symlink" PROVE 9 \in 1 .. n
    BY <1>3, <1>4, <1>6, <1>7, <2>1
  <2>2. QED
    BY <1>2, <1>4, <2>1
<1>9. from = f
  BY <1>1, <1>7 DEF f
<1>10. relative <=> (point.tag = "symlink" /\ point.relative)
  BY <1>7, <1>8
<1>11. f + u <= n
  BY <1>4, <1>6, <1>7, <1>9
<1>12. units = SubSeq(cells, f + 1, f + u)
  BY <1>7, <1>9
<1> HIDE DEF relative, names, from, units
<1>13. units = point.units
  <2>1. \A i \in f + 1 .. f + u : i \in 1 .. Len(cells)
    BY <1>1, <1>3, <1>4, <1>11
  <2>2. \A i \in f + 1 .. f + u : cells[i] \in V
    BY <1>4, <2>1, ElementOfSeq
  <2>3. f + 1 \in Int /\ f + u \in Int
    BY <1>1
  <2>4. /\ units \in Seq(V)
        /\ Len(units) = IF f + 1 <= f + u THEN (f + u) - (f + 1) + 1 ELSE 0
        /\ \A i \in 1 .. (f + u) - (f + 1) + 1 : units[i] = cells[(f + 1) + i - 1]
    BY <1>12, <2>2, <2>3, SubSeqProperties
  <2>5. (f + u) - (f + 1) + 1 = u /\ (~(f + 1 <= f + u) => u = 0)
    BY <1>1
  <2>6. Len(units) = u
    BY <2>4, <2>5
  <2>7. \A i \in 1 .. u : (f + 1) + i - 1 = f + i /\ f + i \in 1 .. n
    BY <1>1, <1>11
  <2>8. ASSUME NEW i \in 1 .. u PROVE units[i] = point.units[i]
    <3>1. i \in 1 .. (f + u) - (f + 1) + 1
      BY <2>5
    <3>2. units[i] = cells[f + i]
      BY <2>4, <2>7, <3>1
    <3>3. QED
      BY <1>2, <1>4, <2>7, <3>2
  <2>9. point.units = [i \in 1 .. u |-> point.units[i]]
    BY LenProperties DEF u
  <2>10. units = [i \in 1 .. u |-> units[i]]
    BY <2>4, <2>6, LenProperties
  <2>11. QED
    BY <2>8, <2>9, <2>10
<1>14. QED
  BY <1>6, <1>10, <1>13 DEF IsAbsolute, After

\* What each reader appends leads where its link led.
LEMMA PointLeads ==
    ASSUME NEW point \in Reparse, NEW n \in 0 .. Len(Cells(point)),
           NEW read, read = ReparseTarget(SubSeq(Cells(point), 1, n)), read.ok
    PROVE  read.units \in Seq(Chars) /\ Same("windows", Slashes(read.units), point)
<1> DEFINE units == point.units
<1>1. units \in Seq(Chars) /\ point.printed \in Seq(Chars)
  BY TargetsAssumption, CharFacts
<1>2. HasNoSlash(units) /\ \A i \in DOMAIN units : i > 4 => units[i] # "?"
  BY TargetsAssumption DEF HasNoSlash
<1>3. read.units = IF IsAbsolute(point) THEN UserPath(Verbatim \o After(units)) ELSE units
  BY <1>1, TargetIsWhole
<1>4. CASE ~IsAbsolute(point)
  <2>1. read.units = units
    BY <1>3, <1>4
  <2>2. Slashes(units) \in Seq(Chars) /\ Read(Slashes(units)) = units
    BY <1>1, <1>2, SlashesRead
  <2>3. QED
    BY <1>1, <1>4, <2>1, <2>2 DEF Same
<1>5. CASE IsAbsolute(point)
  <2> DEFINE rest == After(units)
             path == UserPath(Verbatim \o rest)
  <2>1. 4 <= Len(units)
    <3>1. Len(NtPrefix) <= Len(units)
      BY <1>5 DEF IsAbsolute, IsPrefix
    <3>2. Len(NtPrefix) = 4
      BY DEF NtPrefix
    <3>3. QED
      BY <3>1, <3>2
  <2>2. Len(units) \in Nat /\ DOMAIN units = 1 .. Len(units)
    BY <1>1, LenProperties
  <2>3. /\ rest \in Seq(Chars) /\ Len(rest) = Len(units) - 4
        /\ \A i \in 1 .. Len(units) - 4 : rest[i] = units[i + 4]
    <3>1. 4 \in Nat /\ 4 + 1 = 5
      OBVIOUS
    <3>2. /\ SubSeq(units, 4 + 1, Len(units)) \in Seq(Chars)
          /\ Len(SubSeq(units, 4 + 1, Len(units))) = Len(units) - 4
          /\ \A i \in 1 .. Len(units) - 4 : SubSeq(units, 4 + 1, Len(units))[i] = units[i + 4]
      BY <1>1, <2>1, <3>1, TailIs
    <3>3. QED
      BY <3>1, <3>2 DEF After
  <2>4. ASSUME NEW i \in DOMAIN rest PROVE rest[i] # "/" /\ rest[i] # "?"
    <3>1. i \in 1 .. Len(units) - 4
      BY <2>3, LenProperties
    <3>2. i + 4 \in DOMAIN units /\ i + 4 > 4
      BY <2>2, <3>1
    <3>3. QED
      BY <1>2, <2>3, <3>1, <3>2 DEF HasNoSlash
  <2>5. HasNoSlash(rest) /\ HasNoQuestion(rest)
    BY <2>4 DEF HasNoSlash, HasNoQuestion
  <2>6. Leads(path, rest)
    BY <2>3, <2>5, UserPathLeads
  <2>7. read.units = path
    BY <1>3, <1>5
  <2> HIDE DEF path, rest
  <2>8. Slashes(path) \in Seq(Chars) /\ Read(Slashes(path)) = path
    BY <2>6, SlashesRead DEF Leads
  <2>9. Reads(Read(Slashes(path))) = rest
    BY <2>6, <2>8 DEF Leads
  <2>10. Same("windows", Slashes(path), point)
    BY <1>5, <2>9 DEF Same, rest
  <2>11. QED
    BY <2>6, <2>7, <2>10 DEF Leads
<1>6. QED
  BY <1>4, <1>5

\* A step that reads a target appends one that leads where it should, or has the
\* units of one.
LEMMA TargetIsAppended ==
    ASSUME LinuxTarget \/ PortableTarget \/ WindowsTarget \/ NoneRead
    PROVE  /\ result' # "none"
           /\ result' # "text" => text' = text
           /\ result' = "text" =>
                /\ given' \in Targets \cup Reparse
                /\ \E shown \in Seq(Chars) : text' = text \o shown /\ Same(reader, shown, given')
           /\ result' = "reading" =>
                /\ reader = "windows" /\ coming' \in Seq(Chars) /\ given' \in Targets \cup Reparse
                /\ Same(reader, Slashes(coming'), given')
<1>1. ASSUME NEW shown \in Seq(Chars), NEW target \in Targets \cup Reparse,
             PushText(shown, target), Same(reader, shown, target)
      PROVE  /\ result' \notin {"none", "reading"}
             /\ result' # "text" => text' = text
             /\ result' = "text" =>
                  /\ given' \in Targets \cup Reparse
                  /\ \E s \in Seq(Chars) : text' = text \o s /\ Same(reader, s, given')
  BY <1>1 DEF PushText
<1>2. \A target \in Targets : target \in Seq(Chars)
  BY TargetsAssumption, CharFacts
<1>3. CASE LinuxTarget
  <2>1. PICK target \in Targets, again \in Targets :
            IF Len(Cut(target)) < PathMax THEN PushText(Cut(target), target) ELSE PushText(again, again)
    BY <1>3 DEF LinuxTarget
  <2>2. reader # "windows"
    BY <1>3 DEF LinuxTarget
  <2>3. CASE Len(Cut(target)) < PathMax
    <3>1. target \in Seq(Chars) /\ Len(target) \in Nat /\ PathMax \in Nat
      BY <1>2, LenProperties, ReadersAssumption
    <3>2. Len(target) < PathMax
      <4>1. SUFFICES ASSUME ~(Len(target) < PathMax) PROVE FALSE
        OBVIOUS
      <4>2. Cut(target) = SubSeq(target, 1, PathMax) /\ PathMax <= Len(target)
        BY <3>1, <4>1 DEF Cut
      <4>3. \A i \in 1 .. PathMax : target[i] \in Chars
        BY <3>1, <4>2, ElementOfSeq
      <4>4. Len(SubSeq(target, 1, PathMax)) = IF 1 <= PathMax THEN PathMax - 1 + 1 ELSE 0
        BY <3>1, <4>3, SubSeqProperties
      <4>5. Len(Cut(target)) = PathMax
        BY <3>1, <4>2, <4>4
      <4>6. QED
        BY <2>3, <3>1, <4>5
    <3>3. Cut(target) = target
      BY <3>1, <3>2, SubSeqFull DEF Cut
    <3>4. Same(reader, target, target)
      BY <2>2 DEF Same
    <3>5. QED
      BY <1>1, <2>1, <2>3, <3>1, <3>3, <3>4
  <2>4. CASE ~(Len(Cut(target)) < PathMax)
    <3>1. Same(reader, again, again)
      BY <2>2 DEF Same
    <3>2. QED
      BY <1>1, <1>2, <2>1, <2>4, <3>1
  <2>5. QED
    BY <2>3, <2>4
<1>4. CASE PortableTarget
  <2>1. PICK target \in Targets : PushText(target, target)
    BY <1>4 DEF PortableTarget
  <2>2. Same(reader, target, target)
    BY <1>4 DEF PortableTarget, Same
  <2>3. QED
    BY <1>1, <1>2, <2>1, <2>2
<1>5. CASE WindowsTarget
  <2>1. PICK point \in Reparse : \E n \in 0 .. Len(Cells(point)) :
            LET read == ReparseTarget(SubSeq(Cells(point), 1, n))
            IN read.ok /\ coming' = read.units /\ given' = point
    BY <1>5 DEF WindowsTarget
  <2>2. PICK n \in 0 .. Len(Cells(point)) :
            LET read == ReparseTarget(SubSeq(Cells(point), 1, n))
            IN read.ok /\ coming' = read.units /\ given' = point
    BY <2>1
  <2> DEFINE read == ReparseTarget(SubSeq(Cells(point), 1, n))
  <2>3. read.ok /\ coming' = read.units /\ given' = point
    BY <2>2
  <2>4. read.units \in Seq(Chars) /\ Same("windows", Slashes(read.units), point)
    BY <2>3, PointLeads
  <2>5. reader = "windows" /\ result' = "reading" /\ text' = text
    BY <1>5 DEF WindowsTarget
  <2> HIDE DEF read
  <2>6. QED
    BY <2>3, <2>4, <2>5
<1>6. CASE NoneRead
  BY <1>6 DEF NoneRead
<1>7. QED
  BY <1>3, <1>4, <1>5, <1>6

-----------------------------------------------------------------------------
(* The text of a scan.                                                     *)

\* What is before a place stays when more comes, and that comes after the rest.
LEMMA PartsOfMore ==
    ASSUME NEW t \in Seq(Chars), NEW end \in Nat, end <= Len(t), NEW shown \in Seq(Chars)
    PROVE  /\ UpTo(t \o shown, end) = UpTo(t, end)
           /\ Past(t \o shown, end) = Past(t, end) \o shown
<1>1. Len(t) \in Nat /\ Len(shown) \in Nat
  BY LenProperties
<1>2. t \o shown \in Seq(Chars) /\ Len(t \o shown) = Len(t) + Len(shown)
  BY <1>1, ConcatProperties
<1>3. end <= Len(t \o shown)
  BY <1>1, <1>2
<1>4. SubSeq(t \o shown, 1, end) = SubSeq(t, 1, end)
  <2>1. 0 \in Nat /\ 0 + 1 = 1 /\ 0 + end = end
    BY <1>1
  <2>2. SubSeq(t \o shown, 0 + 1, 0 + end) = SubSeq(t, 0 + 1, 0 + end)
    BY <1>1, <2>1, SubSeqOfMore
  <2>3. QED
    BY <2>1, <2>2
<1> DEFINE all == t \o shown
           last == SubSeq(t, end + 1, Len(t))
           k == Len(all) - end
<1>5. SubSeq(all, end + 1, Len(all)) = last \o shown
  <2>1. /\ last \in Seq(Chars) /\ Len(last) = Len(t) - end
        /\ \A i \in 1 .. Len(t) - end : last[i] = t[i + end]
    BY <1>1, TailIs
  <2>2. SubSeq(all, end + 1, Len(all)) = [i \in 1 .. k |-> all[i + end]]
    BY <1>1, <1>2, <1>3, TailIs
  <2> HIDE DEF last
  <2>3. /\ last \o shown \in Seq(Chars) /\ Len(last \o shown) = Len(last) + Len(shown)
        /\ \A i \in 1 .. Len(last) + Len(shown) :
              (last \o shown)[i] = IF i <= Len(last) THEN last[i] ELSE shown[i - Len(last)]
    BY <2>1, ConcatProperties
  <2>4. k = Len(last) + Len(shown) /\ k \in Nat
    BY <1>1, <1>2, <2>1
  <2>5. \A i \in 1 .. Len(t) + Len(shown) : all[i] = IF i <= Len(t) THEN t[i] ELSE shown[i - Len(t)]
    BY <1>1, ConcatProperties
  <2> HIDE DEF all, k
  <2>6. ASSUME NEW i \in 1 .. k PROVE all[i + end] = (last \o shown)[i]
    <3>1. i + end \in 1 .. Len(t) + Len(shown) /\ (i + end <= Len(t) <=> i <= Len(last))
          /\ (i + end) - Len(t) = i - Len(last)
      BY <1>1, <2>1, <2>4
    <3>2. CASE i <= Len(last)
      <4>1. i \in 1 .. Len(t) - end
        BY <1>1, <2>1, <2>4, <3>2
      <4>2. QED
        BY <2>1, <2>3, <2>4, <2>5, <3>1, <3>2, <4>1
    <3>3. CASE ~(i <= Len(last))
      BY <2>3, <2>4, <2>5, <3>1, <3>3
    <3>4. QED
      BY <3>2, <3>3
  <2>7. last \o shown = [i \in 1 .. k |-> (last \o shown)[i]]
    BY <2>3, <2>4, LenProperties
  <2>8. QED
    BY <2>2, <2>6, <2>7
<1>6. QED
  BY <1>4, <1>5 DEF UpTo, Past

\* The links stay when more comes after them.
LEMMA TextGrows ==
    ASSUME NEW by, NEW t, NEW some, NEW end, NEW shown \in Seq(Chars),
           LinksAre(by, t, some, end)
    PROVE  LinksAre(by, t \o shown, some, end)
<1>1. /\ t \in Seq(Chars) /\ some \in Seq(LinkType) /\ Len(t) \in Nat /\ Len(shown) \in Nat
      /\ end \in Nat /\ end <= Len(t)
  BY LenProperties DEF LinksAre
<1>2. t \o shown \in Seq(Chars) /\ Len(t \o shown) = Len(t) + Len(shown)
  BY <1>1, ConcatProperties
<1>3. end <= Len(t \o shown)
  BY <1>1, <1>2
<1>4. ASSUME NEW i \in DOMAIN some PROVE LinkIsRight(by, t \o shown, some[i], end)
  <2>1. LinkIsRight(by, t, some[i], end)
    BY DEF LinksAre
  <2>2. some[i] \in LinkType
    BY <1>1
  <2>3. some[i].start \in Nat /\ some[i].len \in Nat
    BY <2>2 DEF LinkType
  <2>4. SubSeq(t \o shown, some[i].start + 1, some[i].start + some[i].len)
            = SubSeq(t, some[i].start + 1, some[i].start + some[i].len)
    <3>1. some[i].start + some[i].len <= Len(t)
      BY <1>1, <2>1, <2>3 DEF LinkIsRight
    <3>2. QED
      <4> DEFINE from == some[i].start
                 len == some[i].len
      <4>1. t \in Seq(Chars) /\ from \in Nat /\ len \in Nat /\ from + len <= Len(t)
        BY <1>1, <2>3, <3>1
      <4> HIDE DEF from, len
      <4>2. SubSeq(t \o shown, from + 1, from + len) = SubSeq(t, from + 1, from + len)
        BY <4>1, SubSeqOfMore
      <4>3. QED
        BY <4>2 DEF from, len
  <2>5. QED
    BY <2>1, <2>4 DEF LinkIsRight
<1>5. QED
  BY <1>1, <1>2, <1>3, <1>4 DEF LinksAre

\* One more unit of the target that is coming is at the end of the text.
LEMMA UnitAppended ==
    ASSUME NEW by, NEW t, NEW some, NEW end, NEW rest, NEW target,
           LinksAre(by, t, some, end), ComingIs(by, t, end, rest, target), rest # <<>>
    PROVE  /\ LinksAre(by, Append(t, Slashed(Head(rest))), some, end)
           /\ UpTo(Append(t, Slashed(Head(rest))), end) = UpTo(t, end)
           /\ ComingIs(by, Append(t, Slashed(Head(rest))), end, Tail(rest), target)
<1> DEFINE c == Slashed(Head(rest))
           more == Append(t, c)
           last == Past(t, end)
<1>1. t \in Seq(Chars) /\ end \in Nat /\ end <= Len(t) /\ rest \in Seq(Chars)
  BY DEF LinksAre, ComingIs
<1>2. /\ c \in Chars /\ Tail(rest) \in Seq(Chars) /\ Slashes(Tail(rest)) \in Seq(Chars)
      /\ Slashes(rest) = <<c>> \o Slashes(Tail(rest))
  <2>1. c \in Chars /\ Tail(rest) \in Seq(Chars) /\ Slashes(rest) = <<c>> \o Slashes(Tail(rest))
    BY <1>1, SlashesGoOn
  <2>2. QED
    BY <2>1, SlashesGoOn
<1> HIDE DEF c
<1>3. more = t \o <<c>> /\ <<c>> \in Seq(Chars)
  BY <1>1, <1>2, AppendIsConcat
<1> HIDE DEF more
<1>4. /\ LinksAre(by, more, some, end) /\ UpTo(more, end) = UpTo(t, end)
      /\ Past(more, end) = last \o <<c>>
  <2>1. LinksAre(by, t, some, end)
    OBVIOUS
  <2> DEFINE one == <<c>>
  <2>2. more = t \o one /\ one \in Seq(Chars)
    BY <1>3
  <2> HIDE DEF one, last
  <2>3. LinksAre(by, t \o one, some, end)
    BY <2>1, <2>2, TextGrows
  <2>4. UpTo(t \o one, end) = UpTo(t, end) /\ Past(t \o one, end) = Past(t, end) \o one
    BY <1>1, <2>2, PartsOfMore
  <2>5. QED
    BY <2>2, <2>3, <2>4 DEF one, last
<1>5. last \in Seq(Chars)
  BY <1>1, TailIs DEF Past
<1> HIDE DEF last
<1>6. (last \o <<c>>) \o Slashes(Tail(rest)) = last \o (<<c>> \o Slashes(Tail(rest)))
  BY <1>2, <1>3, <1>5, ConcatAssociative
<1>7. ComingIs(by, more, end, Tail(rest), target)
  <2>1. by = "windows" /\ target \in Targets \cup Reparse /\ Same(by, last \o Slashes(rest), target)
    BY DEF ComingIs, last
  <2>2. Past(more, end) \o Slashes(Tail(rest)) = last \o Slashes(rest)
    BY <1>2, <1>4, <1>6
  <2>3. QED
    BY <1>2, <2>1, <2>2 DEF ComingIs
<1>8. QED
  BY <1>4, <1>7 DEF more, c

\* All units are in the text.
LEMMA AllUnitsAppended ==
    ASSUME NEW by, NEW t, NEW some, NEW end, NEW target,
           LinksAre(by, t, some, end), ComingIs(by, t, end, <<>>, target)
    PROVE  TargetIs(by, t, end, target)
<1>1. t \in Seq(Chars) /\ end \in Nat /\ end <= Len(t)
  BY DEF LinksAre
<1>2. Past(t, end) \in Seq(Chars)
  BY <1>1, TailIs DEF Past
<1>3. Slashes(<<>>) = <<>>
  BY SlashesGoOn, EmptySeq
<1>4. Past(t, end) \o Slashes(<<>>) = Past(t, end)
  BY <1>2, <1>3, ConcatEmptySeq
<1>5. QED
  BY <1>4 DEF ComingIs, TargetIs

\* The text is cut back to where the links end.
LEMMA TextCut ==
    ASSUME NEW by, NEW t, NEW some, NEW end, LinksAre(by, t, some, end)
    PROVE  /\ LinksAre(by, UpTo(t, end), some, end)
           /\ Len(UpTo(t, end)) = end /\ UpTo(UpTo(t, end), end) = UpTo(t, end)
<1> DEFINE cut == SubSeq(t, 1, end)
           tail == SubSeq(t, end + 1, Len(t))
<1>1. t \in Seq(Chars) /\ some \in Seq(LinkType) /\ Len(t) \in Nat /\ end \in Nat /\ end <= Len(t)
  BY LenProperties DEF LinksAre
<1>2. cut \in Seq(Chars) /\ Len(cut) = end
  <2>1. \A i \in 1 .. end : t[i] \in Chars
    BY <1>1, ElementOfSeq
  <2>2. cut \in Seq(Chars) /\ Len(cut) = IF 1 <= end THEN end - 1 + 1 ELSE 0
    BY <1>1, <2>1, SubSeqProperties
  <2> HIDE DEF cut
  <2>3. QED
    BY <1>1, <2>2
<1>3. tail \in Seq(Chars)
  BY <1>1, TailIs
<1>4. cut \o tail = t
  <2>1. 1 \in 1 .. Len(t) + 1 /\ end \in 1 - 1 .. Len(t) /\ Len(t) \in end .. Len(t)
    BY <1>1
  <2>2. cut \o tail = SubSeq(t, 1, Len(t))
    BY <1>1, <2>1, ConcatAdjacentSubSeq
  <2>3. QED
    BY <1>1, <2>2, SubSeqFull
<1> HIDE DEF cut, tail
<1>5. ASSUME NEW i \in DOMAIN some PROVE LinkIsRight(by, cut, some[i], end)
  <2>1. LinkIsRight(by, t, some[i], end)
    BY DEF LinksAre
  <2>2. some[i] \in LinkType
    BY <1>1
  <2>3. some[i].start \in Nat /\ some[i].len \in Nat
    BY <2>2 DEF LinkType
  <2>4. SubSeq(cut \o tail, some[i].start + 1, some[i].start + some[i].len)
            = SubSeq(cut, some[i].start + 1, some[i].start + some[i].len)
    BY <1>2, <1>3, <2>1, <2>3, SubSeqOfMore DEF LinkIsRight
  <2>5. QED
    BY <1>4, <2>1, <2>4 DEF LinkIsRight
<1>6. LinksAre(by, cut, some, end)
  BY <1>1, <1>2, <1>5 DEF LinksAre
<1>7. SubSeq(cut, 1, end) = cut
  BY <1>2, SubSeqFull
<1>8. cut = UpTo(t, end)
  BY DEF cut, UpTo
<1>9. QED
  BY <1>2, <1>6, <1>7, <1>8 DEF UpTo

\* A link is recorded for what was read last.
LEMMA LinkAdded ==
    ASSUME NEW by, NEW t, NEW some, NEW end, NEW target,
           LinksAre(by, t, some, end), TargetIs(by, t, end, target)
    PROVE  LinksAre(by, t, Append(some, [start |-> end, len |-> Len(t) - end, given |-> target]), Len(t))
<1> DEFINE link == [start |-> end, len |-> Len(t) - end, given |-> target]
<1>1. t \in Seq(Chars) /\ some \in Seq(LinkType) /\ Len(t) \in Nat /\ end \in Nat /\ end <= Len(t)
  BY LenProperties DEF LinksAre
<1>2. target \in Targets \cup Reparse /\ Same(by, SubSeq(t, end + 1, Len(t)), target)
  BY DEF TargetIs, Past
<1>3. Len(t) - end \in Nat /\ end + (Len(t) - end) = Len(t)
  BY <1>1
<1>4. link \in LinkType
  BY <1>1, <1>2, <1>3 DEF LinkType
<1>5. LinkIsRight(by, t, link, Len(t))
  <2>1. link.start = end /\ link.len = Len(t) - end /\ link.given = target
    OBVIOUS
  <2> HIDE DEF link
  <2>2. link.start + link.len = Len(t)
    BY <1>3, <2>1
  <2>3. QED
    BY <1>1, <1>2, <2>1, <2>2 DEF LinkIsRight
<1> HIDE DEF link
<1> DEFINE more == Append(some, link)
<1>6. more \in Seq(LinkType) /\ Len(some) \in Nat /\ DOMAIN some = 1 .. Len(some)
      /\ DOMAIN more = 1 .. Len(some) + 1
  BY <1>1, <1>4, LenProperties, AppendProperties
<1>7. \A i \in 1 .. Len(some) : more[i] = some[i]
  BY <1>1, <1>4, AppendProperties
<1>8. more[Len(some) + 1] = link
  BY <1>1, <1>4, AppendProperties
<1> HIDE DEF more
<1>9. ASSUME NEW i \in DOMAIN more PROVE LinkIsRight(by, t, more[i], Len(t))
  <2>1. CASE i = Len(some) + 1
    BY <1>5, <1>8, <2>1
  <2>2. CASE i \in DOMAIN some
    <3>1. LinkIsRight(by, t, some[i], end) /\ more[i] = some[i]
      BY <1>6, <1>7, <2>2 DEF LinksAre
    <3>2. some[i] \in LinkType
      BY <1>1, <2>2
    <3>3. some[i].start \in Nat /\ some[i].len \in Nat
      BY <3>2 DEF LinkType
    <3>4. some[i].start + some[i].len <= Len(t)
      BY <1>1, <3>1, <3>3 DEF LinkIsRight
    <3>5. QED
      BY <3>1, <3>4 DEF LinkIsRight
  <2>3. QED
    BY <1>6, <2>1, <2>2
<1>10. LinksAre(by, t, more, Len(t))
  BY <1>1, <1>6, <1>9 DEF LinksAre
<1>11. QED
  BY <1>10 DEF more, link

\* A reader stays what it is.
LEMMA ReaderStays ==
    ASSUME [Next]_vars
    PROVE  reader' = reader
<1>1. CASE List
  BY <1>1 DEF List, Begin, Entry, EntryFails, KindFails, EntriesEnd, Refused, Call, ReadRecord, RecordsEnd,
     NoMoreFiles, CallFails, Sort
<1>2. CASE ReadLink \/ AppendUnit \/ AppendEnd \/ Symlink
  BY <1>2 DEF ReadLink, AppendUnit, AppendEnd, Symlink, listVars
<1>3. CASE NextScan
  BY <1>3 DEF NextScan, Visited
<1>4. CASE UNCHANGED vars
  BY <1>4 DEF vars, listVars
<1>5. QED
  BY <1>1, <1>2, <1>3, <1>4 DEF Next

\* The texts and links of scans: LinksInv.
THEOREM LinksKept == Spec => []LinksInv
<1>1. Init => LinksInv
  <2>1. SUFFICES ASSUME Init PROVE LinksInv
    OBVIOUS
  <2>2. text = <<>> /\ links = <<>> /\ result = "none"
    BY <2>1 DEF Init
  <2>3. LinksAre(reader, <<>>, <<>>, Len(<<>>))
    BY DEF LinksAre
  <2>4. QED
    BY <2>2, <2>3 DEF LinksInv, AppendsNothing
<1>2. LinksInv /\ [Next]_vars => LinksInv'
  <2> SUFFICES ASSUME LinksInv, [Next]_vars PROVE LinksInv'
    OBVIOUS
  <2>1. reader' = reader
    BY ReaderStays
  <2>2. CASE UNCHANGED linkVars
    BY <2>1, <2>2 DEF linkVars, LinksInv, AppendsNothing
  <2>3. CASE ReadLink
    <3>1. result = "none" /\ start' = Len(text) /\ before' = text /\ links' = links
      BY <2>3 DEF ReadLink
    <3>2. LinksAre(reader, text, links, Len(text)) /\ text \in Seq(Chars)
      BY <3>1 DEF LinksInv, LinksAre
    <3>3. /\ result' # "none"
          /\ result' # "text" => text' = text
          /\ result' = "text" =>
               /\ given' \in Targets \cup Reparse
               /\ \E shown \in Seq(Chars) : text' = text \o shown /\ Same(reader, shown, given')
          /\ result' = "reading" =>
               /\ reader = "windows" /\ coming' \in Seq(Chars) /\ given' \in Targets \cup Reparse
               /\ Same(reader, Slashes(coming'), given')
      BY <2>3, TargetIsAppended DEF ReadLink
    <3>4. UpTo(text, Len(text)) = text /\ Past(text, Len(text)) = <<>>
      BY <3>2, SubSeqFull, SubSeqEmpty, LenProperties DEF UpTo, Past
    <3>5. CASE result' \notin {"text", "reading"}
      BY <2>1, <3>1, <3>2, <3>3, <3>4, <3>5 DEF LinksInv, AppendsNothing
    <3>6. CASE result' = "reading"
      <4>1. Slashes(coming') \in Seq(Chars)
        BY <3>3, <3>6, SlashesGoOn
      <4>2. Past(text, Len(text)) \o Slashes(coming') = Slashes(coming')
        BY <3>4, <4>1, ConcatEmptySeq
      <4>3. ComingIs(reader, text, Len(text), coming', given')
        BY <3>3, <3>6, <4>2 DEF ComingIs
      <4>4. QED
        BY <2>1, <3>1, <3>2, <3>3, <3>4, <3>6, <4>3 DEF LinksInv, AppendsNothing
    <3>7. CASE result' = "text"
      <4>1. PICK shown \in Seq(Chars) : text' = text \o shown /\ Same(reader, shown, given')
        BY <3>3, <3>7
      <4>2. /\ LinksAre(reader, text', links, Len(text))
            /\ UpTo(text', Len(text)) = UpTo(text, Len(text))
            /\ Past(text', Len(text)) = Past(text, Len(text)) \o shown
        <5>1. LinksAre(reader, text \o shown, links, Len(text))
          BY <3>2, TextGrows
        <5>2. Len(text) \in Nat /\ Len(text) <= Len(text)
          BY <3>2, LenProperties
        <5>3. /\ UpTo(text \o shown, Len(text)) = UpTo(text, Len(text))
              /\ Past(text \o shown, Len(text)) = Past(text, Len(text)) \o shown
          BY <3>2, <5>2, PartsOfMore
        <5>4. QED
          BY <4>1, <5>1, <5>3
      <4>3. Past(text, Len(text)) \o shown = shown
        BY <3>4, <4>1, ConcatEmptySeq
      <4>4. TargetIs(reader, text', start', given')
        BY <3>1, <3>3, <3>7, <4>1, <4>2, <4>3 DEF TargetIs
      <4>5. QED
        BY <2>1, <3>1, <3>4, <3>7, <4>2, <4>4 DEF LinksInv, AppendsNothing
    <3>8. QED
      BY <3>5, <3>6, <3>7
  <2>4. CASE AppendUnit
    <3>1. /\ result = "reading" /\ coming # <<>>
          /\ start' = start /\ links' = links /\ given' = given /\ before' = before
          /\ LinksAre(reader, text, links, start) /\ before = UpTo(text, start)
          /\ ComingIs(reader, text, start, coming, given)
      BY <2>4 DEF AppendUnit, LinksInv
    <3>2. CASE Head(coming) = BadUnit
      <4>1. text' = UpTo(text, start) /\ result' = "nontext"
        BY <2>4, <3>2 DEF AppendUnit, Undone, UpTo
      <4>2. LinksAre(reader, text', links, start) /\ UpTo(text', start) = text'
        BY <3>1, <4>1, TextCut
      <4>3. QED
        BY <2>1, <3>1, <4>1, <4>2 DEF LinksInv, AppendsNothing
    <3>3. CASE Head(coming) # BadUnit
      <4>1. text' = Append(text, Slashed(Head(coming))) /\ coming' = Tail(coming) /\ result' = "reading"
        BY <2>4, <3>1, <3>3 DEF AppendUnit
      <4>2. /\ LinksAre(reader, text', links, start)
            /\ UpTo(text', start) = UpTo(text, start)
            /\ ComingIs(reader, text', start, coming', given)
        BY <3>1, <4>1, UnitAppended
      <4>3. QED
        BY <2>1, <3>1, <4>1, <4>2 DEF LinksInv, AppendsNothing
    <3>4. QED
      BY <3>2, <3>3
  <2>5. CASE AppendEnd
    <3>1. /\ result = "reading" /\ coming = <<>> /\ result' = "text" /\ text' = text
          /\ start' = start /\ links' = links /\ given' = given /\ before' = before
          /\ LinksAre(reader, text, links, start) /\ before = UpTo(text, start)
          /\ ComingIs(reader, text, start, coming, given)
      BY <2>5 DEF AppendEnd, LinksInv
    <3>2. TargetIs(reader, text, start, given)
      BY <3>1, AllUnitsAppended
    <3>3. QED
      BY <2>1, <3>1, <3>2 DEF LinksInv, AppendsNothing
  <2>6. CASE Symlink
    <3>1. result # "none" /\ result' = "none" /\ LinksAre(reader, text, links, start)
      BY <2>6 DEF Symlink, LinksInv
    <3>2. CASE result = "text" /\ Len(text) <= MaxText
      <4>1. /\ links' = Append(links, [start |-> start, len |-> Len(text) - start, given |-> given])
            /\ text' = text
        BY <2>6, <3>2 DEF Symlink
      <4>2. TargetIs(reader, text, start, given)
        BY <3>2 DEF LinksInv
      <4>3. QED
        BY <2>1, <3>1, <4>1, <4>2, LinkAdded DEF LinksInv, AppendsNothing
    <3>3. CASE ~(result = "text" /\ Len(text) <= MaxText)
      <4>1. text' = UpTo(text, start) /\ links' = links
        BY <2>6, <3>3 DEF Symlink, UpTo
      <4>2. LinksAre(reader, text', links, start) /\ Len(text') = start
        BY <3>1, <4>1, TextCut
      <4>3. QED
        BY <2>1, <3>1, <4>1, <4>2 DEF LinksInv, AppendsNothing
    <3>4. QED
      BY <3>2, <3>3
  <2>7. CASE NextScan
    <3>1. text' = <<>> /\ links' = <<>> /\ result' = "none"
      BY <2>7 DEF NextScan
    <3>2. LinksAre(reader', <<>>, <<>>, Len(<<>>))
      BY DEF LinksAre
    <3>3. QED
      BY <3>1, <3>2 DEF LinksInv, AppendsNothing
  <2>8. QED
    BY <2>2, <2>3, <2>4, <2>5, <2>6, <2>7 DEF Next, vars
<1>3. QED
  BY <1>1, <1>2, PTL DEF Spec

\* A link that is recorded leads to the same file, on every platform:
\* TargetsLeadTheSame.
THEOREM LinksLeadTheSame == Spec => []TargetsLeadTheSame
<1>1. LinksInv => TargetsLeadTheSame
  <2> SUFFICES ASSUME LinksInv, NEW i \in DOMAIN links
               PROVE  /\ links[i].start + links[i].len <= Len(text)
                      /\ SameTarget(SubSeq(text, links[i].start + 1, links[i].start + links[i].len),
                                    links[i].given)
    BY DEF TargetsLeadTheSame
  <2>1. PICK end : LinksAre(reader, text, links, end)
    BY DEF LinksInv
  <2>2. LinkIsRight(reader, text, links[i], end) /\ links[i] \in LinkType
        /\ end \in Nat /\ end <= Len(text) /\ Len(text) \in Nat
    BY <2>1, LenProperties DEF LinksAre
  <2>3. links[i].start \in Nat /\ links[i].len \in Nat
    BY <2>2 DEF LinkType
  <2>4. links[i].start + links[i].len <= Len(text)
    BY <2>2, <2>3 DEF LinkIsRight
  <2>5. ASSUME NEW shown, NEW target, Same(reader, shown, target)
        PROVE  SameTarget(shown, target)
    BY <2>5 DEF Same, SameTarget, Read, After
  <2>6. QED
    BY <2>2, <2>4, <2>5 DEF LinkIsRight
<1>2. QED
  BY <1>1, LinksKept, PTL

\* Directory::read_link of the three readers: a target that is no text, or cannot
\* be read, leaves the scan's text as it was, though on Windows it was appended up
\* to the bad unit: AppendsNothing.
THEOREM NothingAppended == Spec => []AppendsNothing
<1>1. LinksInv => AppendsNothing
  BY DEF LinksInv
<1>2. QED
  BY <1>1, LinksKept, PTL
=============================================================================
