------------------------- MODULE ManifestFileProofs -------------------------
(***************************************************************************)
(* Proofs about ManifestFile.  The first part is about running ends and    *)
(* sequences laid one after the other, the second about where the cells of *)
(* a whole file are, the third about reading, and the last shows that the  *)
(* writing keeps the invariant.                                            *)
(***************************************************************************)
EXTENDS ManifestFileInv, NatInduction, SequenceTheorems, TLAPS

-----------------------------------------------------------------------------
(* Cells.                                                                  *)

LEMMA CellFacts ==
    ASSUME NEW k \in Nat, NEW i \in Nat
    PROVE  /\ Byte(k, i) \in Cell /\ Number(k) \in Cell /\ Value(Number(k)) = k
           /\ \A m, j \in Nat : Byte(k, i) = Byte(m, j) => k = m /\ i = j
           /\ \A m \in Nat : Byte(k, i) # Number(m)
           /\ \A m \in Nat : Number(k) = Number(m) => k = m
BY DEF Byte, Number, Value, Cell

LEMMA ValueType == \A cell \in Cell : Value(cell) \in Nat
BY DEF Value, Cell

-----------------------------------------------------------------------------
(* Running ends.                                                           *)

\* One term of the ends.
End(lens, end, i) == IF i = 0 THEN 0 ELSE end[i - 1] + lens[i]

LEMMA EndsExist ==
    ASSUME NEW lens \in Seq(Nat)
    PROVE  \E end : end = [i \in 0..Len(lens) |-> End(lens, end, i)]
<1> DEFINE S == {n \in 0..Len(lens) : \E end : end = [i \in 0..n |-> End(lens, end, i)]}
<1>1. Len(lens) \in Nat
  BY LenProperties
<1>2. 0 \in S
  <2>1. [i \in 0..0 |-> 0] = [i \in 0..0 |-> End(lens, [j \in 0..0 |-> 0], i)]
    BY DEF End
  <2>2. QED
    BY <1>1, <2>1
<1>3. ASSUME NEW n \in 0..(Len(lens) - 1), n \in S
      PROVE  n + 1 \in S
  <2>1. PICK end : end = [i \in 0..n |-> End(lens, end, i)]
    BY <1>3
  <2> DEFINE next == [i \in 0..(n + 1) |-> IF i = n + 1 THEN end[n] + lens[n + 1] ELSE end[i]]
  <2>2. ASSUME NEW i \in 0..(n + 1)
        PROVE  next[i] = End(lens, next, i)
    <3>1. CASE i = n + 1
      <4>1. i # 0 /\ i - 1 = n /\ n \in 0..(n + 1) /\ n # n + 1
        BY <1>1, <3>1
      <4>2. next[i] = end[n] + lens[i] /\ next[i - 1] = end[n]
        BY <3>1, <4>1
      <4>3. QED
        BY <4>1, <4>2 DEF End
    <3>2. CASE i \in 0..n /\ i # 0
      <4>1. i - 1 \in 0..n /\ i - 1 \in 0..(n + 1) /\ i # n + 1 /\ i - 1 # n + 1
        BY <1>1, <3>2
      <4>2. next[i] = end[i] /\ next[i - 1] = end[i - 1]
        BY <4>1
      <4>3. end[i] = End(lens, end, i)
        BY <2>1, <3>2
      <4>4. QED
        BY <3>2, <4>2, <4>3 DEF End
    <3>3. CASE i = 0
      <4>1. 0 \in 0..n /\ 0 # n + 1
        BY <1>1
      <4>2. end[0] = End(lens, end, 0)
        BY <2>1, <4>1
      <4>3. QED
        BY <3>3, <4>1, <4>2 DEF End
    <3>4. QED
      BY <1>1, <3>1, <3>2, <3>3
  <2>3. next = [i \in 0..(n + 1) |-> next[i]]
    OBVIOUS
  <2> HIDE DEF next
  <2>4. next = [i \in 0..(n + 1) |-> End(lens, next, i)]
    BY <2>2, <2>3
  <2>5. n + 1 \in 0..Len(lens)
    BY <1>1
  <2>6. QED
    BY <2>4, <2>5
<1>4. Len(lens) \in S
  <2> HIDE DEF S
  <2>1. \A n \in 0..Len(lens) : n \in S
    BY <1>1, <1>2, <1>3, InductionUpTo
  <2>2. QED
    BY <1>1, <2>1
<1>5. QED
  BY <1>4

\* The ends add up the lengths one by one.
LEMMA EndsFacts ==
    ASSUME NEW lens \in Seq(Nat)
    PROVE  /\ Ends(lens)[0] = 0
           /\ \A i \in 1..Len(lens) : Ends(lens)[i] = Ends(lens)[i - 1] + lens[i]
           /\ \A i \in 0..Len(lens) : Ends(lens)[i] \in Nat
<1> DEFINE end == Ends(lens)
<1>1. Len(lens) \in Nat
  BY LenProperties
<1>2. end = [i \in 0..Len(lens) |-> End(lens, end, i)]
  BY EndsExist DEF Ends, End
<1> HIDE DEF end
<1>3. end[0] = 0 /\ \A i \in 1..Len(lens) : end[i] = end[i - 1] + lens[i]
  BY <1>1, <1>2 DEF End
<1>4. \A i \in 0..Len(lens) : end[i] \in Nat
  <2> DEFINE S == {i \in 0..Len(lens) : end[i] \in Nat}
  <2>1. 0 \in S
    BY <1>1, <1>3
  <2>2. ASSUME NEW i \in 0..(Len(lens) - 1), i \in S
        PROVE  i + 1 \in S
    <3>1. i + 1 \in 1..Len(lens) /\ (i + 1) - 1 = i /\ i + 1 \in 0..Len(lens)
      BY <1>1
    <3>2. lens[i + 1] \in Nat
      BY <3>1, ElementOfSeq
    <3>3. QED
      BY <1>3, <2>2, <3>1, <3>2
  <2> HIDE DEF S
  <2>3. \A i \in 0..Len(lens) : i \in S
    BY <1>1, <2>1, <2>2, InductionUpTo
  <2>4. QED
    BY <2>3 DEF S
<1>5. QED
  BY <1>3, <1>4 DEF end

\* e adds up the first n of g.
AddsUp(e, g, n) ==
    /\ e[0] = 0
    /\ \A i \in 1..n : e[i] = e[i - 1] + g[i] /\ g[i] \in Nat
    /\ \A i \in 0..n : e[i] \in Nat

LEMMA EndsAddUp == \A lens \in Seq(Nat) : AddsUp(Ends(lens), lens, Len(lens))
BY EndsFacts, ElementOfSeq DEF AddsUp

\* Sums of lengths that differ in one at most are the same up to there, and
\* differ by as much from there on.
LEMMA SumsCompared ==
    ASSUME NEW n \in Nat, NEW e, NEW g, NEW f, NEW h, AddsUp(e, g, n), AddsUp(f, h, n),
           NEW j \in Nat, \A i \in 1..n : i # j => g[i] = h[i]
    PROVE  \A i \in 0..n : e[i] = f[i] + IF j \in 1..i THEN g[j] - h[j] ELSE 0
<1> DEFINE S == {i \in 0..n : e[i] = f[i] + IF j \in 1..i THEN g[j] - h[j] ELSE 0}
<1>1. 0 \in S
  BY DEF AddsUp
<1>2. ASSUME NEW i \in 0..(n - 1), i \in S
      PROVE  i + 1 \in S
  <2>1. i + 1 \in 1..n /\ (i + 1) - 1 = i /\ i \in 0..n /\ i + 1 \in 0..n
    OBVIOUS
  <2>2. /\ e[i + 1] = e[i] + g[i + 1] /\ g[i + 1] \in Nat /\ e[i] \in Nat
        /\ f[i + 1] = f[i] + h[i + 1] /\ h[i + 1] \in Nat /\ f[i] \in Nat
    BY <2>1 DEF AddsUp
  <2>3. e[i] = f[i] + IF j \in 1..i THEN g[j] - h[j] ELSE 0
    BY <1>2
  <2>4. CASE j = i + 1
    BY <2>1, <2>2, <2>3, <2>4
  <2>5. CASE j # i + 1 /\ j \in 1..i
    <3>1. g[i + 1] = h[i + 1] /\ j \in 1..n /\ j \in 1..(i + 1)
      BY <2>1, <2>5
    <3>2. g[j] \in Nat /\ h[j] \in Nat
      BY <3>1 DEF AddsUp
    <3>3. QED
      BY <2>1, <2>2, <2>3, <2>5, <3>1, <3>2
  <2>6. CASE j # i + 1 /\ j \notin 1..i
    BY <2>1, <2>2, <2>3, <2>6
  <2>7. QED
    BY <2>4, <2>5, <2>6
<1> HIDE DEF S
<1>3. \A i \in 0..n : i \in S
  BY <1>1, <1>2, InductionUpTo
<1>4. QED
  BY <1>3 DEF S

LEMMA SumsAgree ==
    ASSUME NEW n \in Nat, NEW e, NEW g, NEW f, NEW h, AddsUp(e, g, n), AddsUp(f, h, n),
           \A i \in 1..n : g[i] = h[i]
    PROVE  \A i \in 0..n : e[i] = f[i]
<1>1. \A i \in 0..n : e[i] = f[i] + IF 0 \in 1..i THEN g[0] - h[0] ELSE 0
  BY SumsCompared
<1>2. \A i \in 0..n : f[i] \in Nat
  BY DEF AddsUp
<1>3. QED
  BY <1>1, <1>2

LEMMA SumsGrow ==
    ASSUME NEW n \in Nat, NEW e, NEW g, AddsUp(e, g, n), NEW k \in 0..n
    PROVE  \A i \in k..n : e[k] <= e[i]
<1> DEFINE S == {i \in 0..n : k <= i => e[k] <= e[i]}
<1>1. e[k] \in Nat
  BY DEF AddsUp
<1>2. 0 \in S
  BY <1>1
<1>3. ASSUME NEW i \in 0..(n - 1), i \in S
      PROVE  i + 1 \in S
  <2>1. i + 1 \in 1..n /\ (i + 1) - 1 = i /\ i \in 0..n /\ i + 1 \in 0..n
    OBVIOUS
  <2>2. e[i + 1] = e[i] + g[i + 1] /\ g[i + 1] \in Nat /\ e[i] \in Nat
    BY <2>1 DEF AddsUp
  <2>3. QED
    BY <1>1, <1>3, <2>1, <2>2
<1> HIDE DEF S
<1>4. \A i \in 0..n : i \in S
  BY <1>2, <1>3, InductionUpTo
<1>5. QED
  BY <1>4 DEF S

\* Some length has this place.
InSome(e, g, n, p) == \E k \in 1..n : \E i \in 1..g[k] : p = e[k - 1] + i

\* Every place before the last end is in one of the lengths.
LEMMA PlaceIsInOne ==
    ASSUME NEW n \in Nat, NEW e, NEW g, AddsUp(e, g, n), NEW p \in Nat, 0 < p, p <= e[n]
    PROVE  InSome(e, g, n, p)
<1> DEFINE S == {m \in 0..n : p <= e[m] => InSome(e, g, n, p)}
<1>1. 0 \in S
  BY DEF AddsUp
<1>2. ASSUME NEW m \in 0..(n - 1), m \in S
      PROVE  m + 1 \in S
  <2>1. m + 1 \in 1..n /\ (m + 1) - 1 = m /\ m \in 0..n /\ m + 1 \in 0..n
    OBVIOUS
  <2>2. e[m + 1] = e[m] + g[m + 1] /\ g[m + 1] \in Nat /\ e[m] \in Nat
    BY <2>1 DEF AddsUp
  <2> SUFFICES ASSUME p <= e[m + 1], ~(p <= e[m])
               PROVE  InSome(e, g, n, p)
    BY <1>2, <2>1
  <2>3. p - e[m] \in 1..g[m + 1] /\ p = e[(m + 1) - 1] + (p - e[m])
    BY <2>1, <2>2
  <2>4. QED
    BY <2>1, <2>3 DEF InSome
<1> HIDE DEF S
<1>3. n \in S
  BY <1>1, <1>2, InductionUpTo
<1>4. QED
  BY <1>3 DEF S

\* And in no other.
LEMMA PlaceIsInNoOther ==
    ASSUME NEW n \in Nat, NEW e, NEW g, AddsUp(e, g, n),
           NEW k \in 1..n, NEW i \in 1..g[k], NEW m \in 1..n, NEW j \in 1..g[m],
           e[k - 1] + i = e[m - 1] + j
    PROVE  k = m /\ i = j
<1>1. /\ e[k] = e[k - 1] + g[k] /\ g[k] \in Nat /\ e[k - 1] \in Nat
      /\ e[m] = e[m - 1] + g[m] /\ g[m] \in Nat /\ e[m - 1] \in Nat
  BY DEF AddsUp
<1>2. CASE k < m
  <2>1. m - 1 \in k..n /\ k \in 0..n
    BY <1>2
  <2>2. e[k] <= e[m - 1]
    BY <2>1, SumsGrow
  <2>3. QED
    BY <1>1, <2>2
<1>3. CASE m < k
  <2>1. k - 1 \in m..n /\ m \in 0..n
    BY <1>3
  <2>2. e[m] <= e[k - 1]
    BY <2>1, SumsGrow
  <2>3. QED
    BY <1>1, <2>2
<1>4. QED
  BY <1>1, <1>2, <1>3

-----------------------------------------------------------------------------
(* Sequences laid one after the other.                                     *)

\* Where the elements of two sequences are in both together.
Joined(a, b, S) ==
    /\ a \o b \in Seq(S) /\ Len(a \o b) = Len(a) + Len(b)
    /\ \A i \in 1..Len(a) : (a \o b)[i] = a[i]
    /\ \A i \in 1..Len(b) : (a \o b)[Len(a) + i] = b[i]

LEMMA ConcatFacts ==
    ASSUME NEW S, NEW a \in Seq(S), NEW b \in Seq(S)
    PROVE  Joined(a, b, S)
<1>1. Len(a) \in Nat /\ Len(b) \in Nat
  BY LenProperties
<1>2. /\ a \o b \in Seq(S) /\ Len(a \o b) = Len(a) + Len(b)
      /\ \A i \in 1..(Len(a) + Len(b)) : (a \o b)[i] = IF i <= Len(a) THEN a[i] ELSE b[i - Len(a)]
  BY ConcatProperties
<1>3. \A i \in 1..Len(b) :
         /\ Len(a) + i \in 1..(Len(a) + Len(b)) /\ ~(Len(a) + i <= Len(a))
         /\ (Len(a) + i) - Len(a) = i
  BY <1>1
<1>4. \A i \in 1..Len(a) : i \in 1..(Len(a) + Len(b)) /\ i <= Len(a)
  BY <1>1
<1>5. QED
  BY <1>2, <1>3, <1>4 DEF Joined

\* The same for cells, of m and l in number.
CellsJoined(a, b, m, l) ==
    /\ a \o b \in Seq(Cell) /\ Len(a \o b) = m + l
    /\ \A i \in 1..m : (a \o b)[i] = a[i]
    /\ \A i \in 1..l : (a \o b)[m + i] = b[i]

LEMMA CellConcat ==
    ASSUME NEW a \in Seq(Cell), NEW b \in Seq(Cell), NEW m \in Nat, NEW l \in Nat,
           Len(a) = m, Len(b) = l
    PROVE  CellsJoined(a, b, m, l)
<1>1. Joined(a, b, Cell)
  BY ConcatFacts
<1>2. QED
  BY <1>1 DEF Joined, CellsJoined

IsTuple(s, n) == s = [k \in 1..n |-> s[k]]

LEMMA TupleFacts ==
    ASSUME NEW S, NEW s, NEW n \in Nat, IsTuple(s, n), \A k \in 1..n : s[k] \in S
    PROVE  s \in Seq(S) /\ Len(s) = n
BY DEF IsTuple

\* One step of laying sequences one after the other.
Flat(seqs, f, i) == IF i = 1 THEN seqs[i] ELSE f[i - 1] \o seqs[i]

LaidUpTo(seqs, m) == \E f : f = [i \in 1..m |-> Flat(seqs, f, i)]

LEMMA FlatExists ==
    ASSUME NEW seqs, NEW n \in Nat
    PROVE  \E f : f = [i \in 1..n |-> Flat(seqs, f, i)]
<1> DEFINE S == {m \in 0..n : LaidUpTo(seqs, m)}
<1>1. 0 \in S
  <2> DEFINE none == [i \in 1..0 |-> 0]
  <2>1. none = [i \in 1..0 |-> Flat(seqs, none, i)]
    OBVIOUS
  <2> HIDE DEF none
  <2>2. LaidUpTo(seqs, 0)
    BY <2>1 DEF LaidUpTo
  <2>3. QED
    BY <2>2
<1>2. ASSUME NEW m \in 0..(n - 1), m \in S
      PROVE  m + 1 \in S
  <2>1. PICK f : f = [i \in 1..m |-> Flat(seqs, f, i)]
    BY <1>2 DEF LaidUpTo
  <2> DEFINE next == [i \in 1..(m + 1) |-> IF i = m + 1 THEN Flat(seqs, f, i) ELSE f[i]]
  <2>2. ASSUME NEW i \in 1..(m + 1)
        PROVE  next[i] = Flat(seqs, next, i)
    <3>1. CASE i = 1
      <4>1. Flat(seqs, next, i) = seqs[i] /\ Flat(seqs, f, i) = seqs[i]
        BY <3>1 DEF Flat
      <4>2. i = m + 1 \/ (i \in 1..m /\ i # m + 1)
        OBVIOUS
      <4>3. next[i] = Flat(seqs, f, i)
        BY <2>1, <4>2
      <4>4. QED
        BY <4>1, <4>3
    <3>2. CASE i # 1
      <4>1. i - 1 \in 1..(m + 1) /\ i - 1 # m + 1
        BY <3>2
      <4>2. next[i - 1] = f[i - 1]
        BY <4>1
      <4>3. Flat(seqs, next, i) = Flat(seqs, f, i)
        <5> HIDE DEF next
        <5>1. QED
          BY <3>2, <4>2 DEF Flat
      <4>4. i = m + 1 \/ (i \in 1..m /\ i # m + 1)
        OBVIOUS
      <4>5. next[i] = Flat(seqs, f, i)
        BY <2>1, <4>4
      <4>6. QED
        BY <4>3, <4>5
    <3>3. QED
      BY <3>1, <3>2
  <2>3. next = [i \in 1..(m + 1) |-> next[i]]
    OBVIOUS
  <2> HIDE DEF next
  <2>4. LaidUpTo(seqs, m + 1)
    BY <2>2, <2>3 DEF LaidUpTo
  <2>5. m + 1 \in 0..n
    OBVIOUS
  <2>6. QED
    BY <2>4, <2>5
<1> HIDE DEF S
<1>3. n \in S
  BY <1>1, <1>2, InductionUpTo
<1>4. QED
  BY <1>3 DEF S, LaidUpTo

\* How long the sequences are, and where each is.
Laid(flat, seqs, S) ==
    LET end == Ends([k \in 1..Len(seqs) |-> Len(seqs[k])])
    IN  /\ flat \in Seq(S)
        /\ Len(flat) = end[Len(seqs)]
        /\ \A k \in 1..Len(seqs) : \A i \in 1..Len(seqs[k]) : flat[end[k - 1] + i] = seqs[k][i]

LEMMA FlattenFacts ==
    ASSUME NEW S, NEW seqs \in Seq(Seq(S))
    PROVE  Laid(FlattenSeq(seqs), seqs, S)
<1> DEFINE n == Len(seqs)
           lens == [k \in 1..n |-> Len(seqs[k])]
           end == Ends(lens)
<1>1. n \in Nat /\ \A k \in 1..n : seqs[k] \in Seq(S) /\ Len(seqs[k]) \in Nat
  <2>1. \A k \in 1..n : seqs[k] \in Seq(S)
    BY ElementOfSeq
  <2>2. QED
    BY <2>1, LenProperties
<1>2. lens \in Seq(Nat) /\ Len(lens) = n /\ \A k \in 1..n : lens[k] = Len(seqs[k])
  BY <1>1
<1>3. AddsUp(end, lens, n)
  BY <1>2, EndsAddUp
<1>4. CASE n = 0
  <2>1. FlattenSeq(seqs) = seqs /\ seqs = <<>>
    BY <1>4, EmptySeq DEF FlattenSeq
  <2>2. <<>> \in Seq(S) /\ Len(<<>>) = 0
    BY EmptySeq
  <2>3. QED
    BY <1>3, <1>4, <2>1, <2>2 DEF Laid, AddsUp
<1>5. CASE n # 0
  <2>1. PICK f : f = [i \in 1..n |-> Flat(seqs, f, i)] /\ FlattenSeq(seqs) = f[n]
    <3>1. \E f : f = [i \in 1..n |-> Flat(seqs, f, i)]
      BY <1>1, FlatExists
    <3>2. QED
      BY <1>5, <3>1 DEF FlattenSeq, Flat
  <2> HIDE DEF lens, end
  <2> DEFINE Is(m) == /\ f[m] \in Seq(S) /\ Len(f[m]) = end[m]
                      /\ \A k \in 1..m : \A i \in 1..Len(seqs[k]) : f[m][end[k - 1] + i] = seqs[k][i]
             T == {m \in 0..(n - 1) : Is(m + 1)}
  <2>2. 0 \in T
    <3>1. f[1] = seqs[1] /\ 1 \in 1..n
      BY <1>1, <1>5, <2>1 DEF Flat
    <3>2. end[1] = Len(seqs[1]) /\ end[0] = 0
      BY <1>1, <1>2, <1>3, <3>1 DEF AddsUp
    <3>3. QED
      BY <1>1, <1>5, <3>1, <3>2
  <2>3. ASSUME NEW m \in 0..((n - 1) - 1), m \in T
        PROVE  m + 1 \in T
    <3> DEFINE l == m + 1
    <3>1. l \in 1..(n - 1) /\ l + 1 \in 1..n /\ l + 1 # 1 /\ (l + 1) - 1 = l /\ l \in 0..n
      BY <1>1
    <3>2. Is(l)
      BY <2>3
    <3>3. f[l + 1] = f[l] \o seqs[l + 1]
      BY <2>1, <3>1 DEF Flat
    <3>4. end[l + 1] = end[l] + Len(seqs[l + 1]) /\ end[l] \in Nat
      BY <1>2, <1>3, <3>1 DEF AddsUp
    <3> HIDE DEF l
    <3>5. /\ f[l + 1] \in Seq(S) /\ Len(f[l + 1]) = end[l + 1]
          /\ \A i \in 1..Len(f[l]) : f[l + 1][i] = f[l][i]
          /\ \A i \in 1..Len(seqs[l + 1]) : f[l + 1][end[l] + i] = seqs[l + 1][i]
      <4>1. f[l] \in Seq(S) /\ seqs[l + 1] \in Seq(S) /\ Len(f[l]) = end[l]
        BY <1>1, <3>1, <3>2
      <4> DEFINE a == f[l]
                 b == seqs[l + 1]
      <4>2. /\ f[l] \o seqs[l + 1] \in Seq(S)
            /\ Len(f[l] \o seqs[l + 1]) = Len(f[l]) + Len(seqs[l + 1])
            /\ \A i \in 1..Len(f[l]) : (f[l] \o seqs[l + 1])[i] = f[l][i]
            /\ \A i \in 1..Len(seqs[l + 1]) :
                  (f[l] \o seqs[l + 1])[Len(f[l]) + i] = seqs[l + 1][i]
        <5>1. a \in Seq(S) /\ b \in Seq(S)
          BY <4>1
        <5> HIDE DEF a, b
        <5>2. /\ a \o b \in Seq(S) /\ Len(a \o b) = Len(a) + Len(b)
              /\ \A i \in 1..Len(a) : (a \o b)[i] = a[i]
              /\ \A i \in 1..Len(b) : (a \o b)[Len(a) + i] = b[i]
          BY <5>1, ConcatFacts DEF Joined
        <5>3. QED
          BY <5>2 DEF a, b
      <4>3. QED
        BY <3>3, <3>4, <4>1, <4>2
    <3>6. ASSUME NEW k \in 1..(l + 1), NEW i \in 1..Len(seqs[k])
          PROVE  f[l + 1][end[k - 1] + i] = seqs[k][i]
      <4>1. CASE k = l + 1
        BY <3>1, <3>5, <4>1
      <4>2. CASE k # l + 1
        <5>1. k \in 1..l /\ k \in 1..n /\ k - 1 \in 0..n /\ k \in 0..n /\ l \in k..n
          BY <1>1, <3>1, <4>2
        <5>2. end[k] <= end[l]
          BY <1>1, <1>3, <5>1, SumsGrow
        <5>3. end[k] = end[k - 1] + Len(seqs[k]) /\ end[k - 1] \in Nat /\ Len(seqs[k]) \in Nat
          BY <1>1, <1>2, <1>3, <5>1 DEF AddsUp
        <5>4. end[k - 1] + i \in 1..Len(f[l])
          <6> DEFINE from == end[k - 1]
                     to == end[k]
                     all == end[l]
                     s == Len(seqs[k])
          <6>1. Len(f[l]) = all /\ all \in Nat
            BY <3>2, <3>4
          <6>2. to = from + s /\ from \in Nat /\ s \in Nat /\ i \in 1..s /\ to <= all
            BY <5>2, <5>3
          <6> HIDE DEF from, to, all, s
          <6>3. from + i \in 1..all
            BY <6>1, <6>2
          <6>4. QED
            BY <6>1, <6>3 DEF from
        <5>5. QED
          BY <3>2, <3>5, <5>1, <5>4
      <4>3. QED
        BY <4>1, <4>2
    <3>7. Is(l + 1)
      BY <3>5, <3>6
    <3>8. QED
      BY <1>1, <3>1, <3>7 DEF l
  <2> HIDE DEF T, Is
  <2>4. \A m \in 0..(n - 1) : m \in T
    <3>1. n - 1 \in Nat
      BY <1>1, <1>5
    <3> HIDE DEF n
    <3>2. QED
      BY <2>2, <2>3, <3>1, InductionUpTo
  <2>5. Is(n)
    <3>1. n - 1 \in T /\ (n - 1) + 1 = n
      BY <1>1, <1>5, <2>4
    <3>2. QED
      BY <3>1 DEF T
  <2>6. QED
    BY <2>1, <2>5 DEF Is, Laid, lens, end
<1>6. QED
  BY <1>4, <1>5

\* A sequence more lies behind the others.
LEMMA FlattenAppend ==
    ASSUME NEW S, NEW seqs \in Seq(Seq(S)), NEW s \in Seq(S)
    PROVE  FlattenSeq(Append(seqs, s)) = FlattenSeq(seqs) \o s
<1> DEFINE n == Len(seqs)
           more == Append(seqs, s)
<1>1. /\ n \in Nat /\ more \in Seq(Seq(S)) /\ Len(more) = n + 1
      /\ \A i \in 1..n : more[i] = seqs[i]
      /\ more[n + 1] = s
  BY AppendProperties, LenProperties
<1>2. PICK f : f = [i \in 1..(n + 1) |-> Flat(more, f, i)] /\ FlattenSeq(more) = f[n + 1]
  <2>1. \E f : f = [i \in 1..(n + 1) |-> Flat(more, f, i)]
    <3>1. n + 1 \in Nat
      BY <1>1
    <3> HIDE DEF n, more
    <3>2. QED
      BY <3>1, FlatExists
  <2>2. n + 1 # 0 /\ Len(more) # 0
    BY <1>1
  <2> HIDE DEF more
  <2>3. QED
    BY <1>1, <2>1, <2>2 DEF FlattenSeq, Flat
<1> HIDE DEF more
<1>3. CASE n = 0
  <2>1. f[1] = s
    BY <1>1, <1>2, <1>3 DEF Flat
  <2>2. seqs = <<>> /\ FlattenSeq(seqs) = <<>>
    BY <1>3, EmptySeq DEF FlattenSeq
  <2>3. <<>> \o s = s
    BY ConcatEmptySeq
  <2>4. QED
    BY <1>1, <1>2, <1>3, <2>1, <2>2, <2>3 DEF more
<1>4. CASE n # 0
  <2>1. PICK g : g = [i \in 1..n |-> Flat(seqs, g, i)] /\ FlattenSeq(seqs) = g[n]
    <3>1. \E g : g = [i \in 1..n |-> Flat(seqs, g, i)]
      BY <1>1, FlatExists
    <3>2. QED
      BY <1>4, <3>1 DEF FlattenSeq, Flat
  <2> DEFINE T == {m \in 0..(n - 1) : f[m + 1] = g[m + 1]}
  <2>2. 0 \in T
    BY <1>1, <1>2, <1>4, <2>1 DEF Flat
  <2>3. ASSUME NEW m \in 0..((n - 1) - 1), m \in T
        PROVE  m + 1 \in T
    <3>1. m + 2 \in 1..n /\ m + 2 \in 1..(n + 1) /\ m + 2 # 1 /\ (m + 2) - 1 = m + 1
      BY <1>1
    <3> DEFINE l == m + 2
    <3>2. f[m + 2] = f[m + 1] \o seqs[m + 2] /\ g[m + 2] = g[m + 1] \o seqs[m + 2]
      <4>1. f[l] = Flat(more, f, l) /\ g[l] = Flat(seqs, g, l) /\ more[l] = seqs[l]
        BY <1>1, <1>2, <2>1, <3>1
      <4>2. l # 1 /\ l - 1 = m + 1
        BY <3>1
      <4> HIDE DEF l
      <4>3. f[l] = f[m + 1] \o seqs[l] /\ g[l] = g[m + 1] \o seqs[l]
        BY <4>1, <4>2 DEF Flat
      <4>4. QED
        BY <4>3 DEF l
    <3>3. f[(m + 1) + 1] = g[(m + 1) + 1]
      <4>1. (m + 1) + 1 = m + 2
        OBVIOUS
      <4>2. QED
        BY <2>3, <3>2, <4>1
    <3>4. m + 1 \in 0..(n - 1)
      BY <1>1
    <3>5. QED
      BY <3>3, <3>4
  <2> HIDE DEF T
  <2>4. n - 1 \in T
    <3>1. n - 1 \in Nat /\ n - 1 \in 0..(n - 1)
      BY <1>1, <1>4
    <3> HIDE DEF n
    <3>2. \A m \in 0..(n - 1) : m \in T
      BY <2>2, <2>3, <3>1, InductionUpTo
    <3>3. QED
      BY <3>1, <3>2
  <2>5. f[n] = g[n]
    <3>1. (n - 1) + 1 = n
      BY <1>1
    <3>2. QED
      BY <2>4, <3>1 DEF T
  <2>6. f[n + 1] = f[n] \o s
    <3>1. n + 1 \in 1..(n + 1) /\ n + 1 # 1 /\ (n + 1) - 1 = n
      BY <1>1, <1>4
    <3>2. QED
      BY <1>1, <1>2, <3>1 DEF Flat
  <2>7. QED
    BY <1>2, <2>1, <2>5, <2>6 DEF more
<1>5. QED
  BY <1>3, <1>4

-----------------------------------------------------------------------------
(* Where the cells of a file are.                                          *)

\* The lengths of the frames, and where each ends.
FrameLens == [k \in 1..Len(sizes) |-> sizes[k].len]

FrameEnds == Ends(FrameLens)

\* Where the table starts in the whole file.
TableAt == FrameEnds[Len(sizes)]

LEMMA SizesFacts ==
    ASSUME TypeOK
    PROVE  /\ Len(sizes) \in Nat /\ DOMAIN sizes = 1..Len(sizes)
           /\ \A k \in 1..Len(sizes) : sizes[k].len \in Nat \ {0} /\ sizes[k].raw \in Nat \ {0}
           /\ FrameLens \in Seq(Nat) /\ Len(FrameLens) = Len(sizes)
           /\ AddsUp(FrameEnds, FrameLens, Len(sizes))
           /\ \A k \in 1..Len(sizes) :
                 /\ FrameLens[k] = sizes[k].len
                 /\ FrameEnds[k] = FrameEnds[k - 1] + sizes[k].len
                 /\ FrameEnds[k - 1] \in Nat /\ FrameEnds[k] \in Nat
           /\ FrameEnds[0] = 0 /\ TableAt \in Nat
<1>1. Len(sizes) \in Nat /\ DOMAIN sizes = 1..Len(sizes)
  BY LenProperties DEF TypeOK
<1>2. \A k \in 1..Len(sizes) : sizes[k] \in Size
  BY ElementOfSeq DEF TypeOK
<1>3. \A k \in 1..Len(sizes) : sizes[k].len \in Nat \ {0} /\ sizes[k].raw \in Nat \ {0}
  BY <1>2, FileAssumption DEF Size
<1>4. FrameLens \in Seq(Nat) /\ Len(FrameLens) = Len(sizes)
  BY <1>1, <1>3 DEF FrameLens
<1>5. AddsUp(FrameEnds, FrameLens, Len(sizes))
  BY <1>4, EndsAddUp DEF FrameEnds
<1>6. \A k \in 1..Len(sizes) : FrameLens[k] = sizes[k].len
  BY DEF FrameLens
<1>7. \A k \in 1..Len(sizes) : k - 1 \in 0..Len(sizes) /\ k \in 0..Len(sizes)
  BY <1>1
<1>8. 0 \in 0..Len(sizes) /\ Len(sizes) \in 0..Len(sizes)
  BY <1>1
<1>9. QED
  BY <1>1, <1>3, <1>4, <1>5, <1>6, <1>7, <1>8 DEF AddsUp, TableAt

LEMMA FrameFacts ==
    ASSUME NEW k \in Nat, NEW size, size.len \in Nat
    PROVE  /\ Frame(k, size) \in Seq(Cell) /\ Len(Frame(k, size)) = size.len
           /\ \A i \in 1..size.len : Frame(k, size)[i] = Byte(k, i)
<1>1. \A i \in 1..size.len : Byte(k, i) \in Cell
  BY CellFacts
<1>2. Frame(k, size) = [i \in 1..size.len |-> Byte(k, i)]
  BY DEF Frame
<1>3. QED
  BY <1>1, <1>2

LEMMA FramesLaid ==
    ASSUME TypeOK
    PROVE  /\ Frames \in Seq(Cell) /\ Len(Frames) = TableAt
           /\ \A k \in 1..Len(sizes) : \A i \in 1..sizes[k].len :
                 Frames[FrameEnds[k - 1] + i] = Byte(k, i)
<1> DEFINE seqs == [k \in DOMAIN sizes |-> Frame(k, sizes[k])]
<1>1. /\ Len(sizes) \in Nat /\ DOMAIN sizes = 1..Len(sizes)
      /\ \A k \in 1..Len(sizes) : sizes[k].len \in Nat
  BY SizesFacts
<1>2. \A k \in 1..Len(sizes) :
         /\ Frame(k, sizes[k]) \in Seq(Cell) /\ Len(Frame(k, sizes[k])) = sizes[k].len
         /\ \A i \in 1..sizes[k].len : Frame(k, sizes[k])[i] = Byte(k, i)
  BY <1>1, FrameFacts
<1>3. seqs \in Seq(Seq(Cell)) /\ Len(seqs) = Len(sizes)
  BY <1>1, <1>2
<1>4. \A k \in 1..Len(sizes) : seqs[k] = Frame(k, sizes[k])
  BY <1>1
<1>5. [k \in 1..Len(seqs) |-> Len(seqs[k])] = FrameLens
  BY <1>2, <1>3, <1>4 DEF FrameLens
<1> HIDE DEF seqs
<1>6. Laid(FlattenSeq(seqs), seqs, Cell)
  BY <1>3, FlattenFacts
<1>7. FlattenSeq(seqs) = Frames
  BY DEF Frames, seqs
<1>8. /\ Frames \in Seq(Cell) /\ Len(Frames) = FrameEnds[Len(sizes)]
      /\ \A k \in 1..Len(sizes) : \A i \in 1..Len(seqs[k]) :
            Frames[FrameEnds[k - 1] + i] = seqs[k][i]
  BY <1>3, <1>5, <1>6, <1>7 DEF Laid, FrameEnds
<1>9. \A k \in 1..Len(sizes) : \A i \in 1..sizes[k].len :
          i \in 1..Len(seqs[k]) /\ seqs[k][i] = Byte(k, i)
  BY <1>2, <1>4
<1>10. QED
  BY <1>8, <1>9 DEF TableAt

LEMMA PairFacts ==
    ASSUME NEW S, NEW a \in S, NEW b \in S
    PROVE  /\ <<a, b>> \in Seq(S) /\ Len(<<a, b>>) = 2
           /\ <<a, b>>[1] = a /\ <<a, b>>[2] = b
OBVIOUS

\* The rows of the table, two fields each.
LEMMA TableRowsLaid ==
    ASSUME TypeOK, NEW rows,
           rows = FlattenSeq([i \in DOMAIN Rows(sizes) |->
                                 <<Number(sizes[i].len), Number(sizes[i].raw)>>])
    PROVE  /\ rows \in Seq(Cell) /\ Len(rows) = 2 * Len(sizes)
           /\ \A k \in 1..Len(sizes) :
                 /\ rows[2 * (k - 1) + 1] = Number(sizes[k].len)
                 /\ rows[2 * (k - 1) + 2] = Number(sizes[k].raw)
<1> DEFINE n == Len(sizes)
           seqs == [i \in DOMAIN Rows(sizes) |-> <<Number(sizes[i].len), Number(sizes[i].raw)>>]
           twos == [i \in 1..n |-> 2]
           evens == [i \in 0..n |-> 2 * i]
<1>1. /\ n \in Nat /\ DOMAIN Rows(sizes) = 1..n
      /\ \A k \in 1..n : sizes[k].len \in Nat /\ sizes[k].raw \in Nat
  BY SizesFacts DEF Rows
<1>2. \A k \in 1..n : Number(sizes[k].len) \in Cell /\ Number(sizes[k].raw) \in Cell
  BY <1>1, CellFacts
<1>3. \A k \in 1..n : seqs[k] = <<Number(sizes[k].len), Number(sizes[k].raw)>>
  BY <1>1
<1>4. \A k \in 1..n : /\ seqs[k] \in Seq(Cell) /\ Len(seqs[k]) = 2
                      /\ seqs[k][1] = Number(sizes[k].len) /\ seqs[k][2] = Number(sizes[k].raw)
  <2> TAKE k \in 1..n
  <2> DEFINE a == Number(sizes[k].len)
             b == Number(sizes[k].raw)
  <2>1. seqs[k] = <<a, b>> /\ a \in Cell /\ b \in Cell
    BY <1>2, <1>3
  <2> HIDE DEF seqs, a, b
  <2>2. <<a, b>> \in Seq(Cell) /\ Len(<<a, b>>) = 2 /\ <<a, b>>[1] = a /\ <<a, b>>[2] = b
    BY <2>1, PairFacts
  <2>3. QED
    BY <2>1, <2>2 DEF a, b
<1>5. seqs \in Seq(Seq(Cell)) /\ Len(seqs) = n
  <2>1. IsTuple(seqs, n)
    BY <1>1 DEF IsTuple
  <2>2. n \in Nat /\ \A k \in 1..n : seqs[k] \in Seq(Cell)
    BY <1>1, <1>4
  <2> HIDE DEF seqs, n
  <2>3. QED
    BY <2>1, <2>2, TupleFacts
<1>6. [k \in 1..Len(seqs) |-> Len(seqs[k])] = twos
  <2> HIDE DEF seqs, n
  <2>1. QED
    BY <1>4, <1>5
<1> HIDE DEF seqs
<1>7. Laid(rows, seqs, Cell)
  <2>1. Laid(FlattenSeq(seqs), seqs, Cell)
    BY <1>5, FlattenFacts
  <2>2. rows = FlattenSeq(seqs)
    BY DEF seqs
  <2>3. QED
    BY <2>1, <2>2
<1>8. \A i \in 0..n : Ends(twos)[i] = 2 * i
  <2>1. twos \in Seq(Nat) /\ Len(twos) = n /\ \A i \in 1..n : twos[i] = 2
    BY <1>1
  <2>2. AddsUp(Ends(twos), twos, n)
    BY <2>1, EndsAddUp
  <2>3. AddsUp(evens, twos, n)
    BY <1>1, <2>1 DEF AddsUp
  <2> HIDE DEF twos, evens
  <2>4. \A i \in 0..n : Ends(twos)[i] = evens[i]
    BY <1>1, <2>2, <2>3, SumsAgree
  <2>5. QED
    BY <2>4 DEF evens
<1> HIDE DEF twos, evens, n
<1>9. rows \in Seq(Cell) /\ Len(rows) = 2 * n
  BY <1>1, <1>5, <1>6, <1>7, <1>8 DEF Laid
<1>10. ASSUME NEW k \in 1..n
       PROVE  /\ rows[2 * (k - 1) + 1] = Number(sizes[k].len)
              /\ rows[2 * (k - 1) + 2] = Number(sizes[k].raw)
  <2>1. Ends(twos)[k - 1] = 2 * (k - 1)
    <3>1. k - 1 \in 0..n
      BY <1>1
    <3>2. QED
      BY <1>8, <3>1
  <2>2. \A i \in 1..Len(seqs[k]) : rows[Ends(twos)[k - 1] + i] = seqs[k][i]
    BY <1>5, <1>6, <1>7 DEF Laid
  <2>3. 1 \in 1..Len(seqs[k]) /\ 2 \in 1..Len(seqs[k])
    BY <1>4
  <2>4. QED
    BY <1>4, <2>1, <2>2, <2>3
<1>11. QED
  BY <1>9, <1>10 DEF n

\* The whole file: its frames, and the table behind them.
LEMMA WholeLaid ==
    ASSUME TypeOK
    PROVE  /\ WholeFile \in Seq(Cell) /\ Len(WholeFile) = TableAt + 2 * Len(sizes) + 5
           /\ WholeFile = Frames \o SeekTable(sizes) /\ SeekTable(sizes) \in Seq(Cell)
           /\ \A k \in 1..Len(sizes) : \A i \in 1..sizes[k].len :
                 WholeFile[FrameEnds[k - 1] + i] = Byte(k, i)
           /\ WholeFile[TableAt + 1] = Number(SeekTableMagic)
           /\ WholeFile[TableAt + 2] = Number(2 * Len(sizes) + 3)
           /\ \A k \in 1..Len(sizes) :
                 /\ WholeFile[TableAt + 2 + 2 * (k - 1) + 1] = Number(sizes[k].len)
                 /\ WholeFile[TableAt + 2 + 2 * (k - 1) + 2] = Number(sizes[k].raw)
           /\ WholeFile[TableAt + 2 * Len(sizes) + 3] = Number(Len(sizes))
           /\ WholeFile[TableAt + 2 * Len(sizes) + 4] = Number(0)
           /\ WholeFile[TableAt + 2 * Len(sizes) + 5] = Number(SeekableMagic)
<1> DEFINE n == Len(sizes)
           head == <<Number(SeekTableMagic), Number(n * EntryLen + FooterLen)>>
           rows == FlattenSeq([i \in DOMAIN Rows(sizes) |->
                                  <<Number(sizes[i].len), Number(sizes[i].raw)>>])
           foot == <<Number(n), Number(0), Number(SeekableMagic)>>
<1>1. SeekTable(sizes) = (head \o rows) \o foot /\ WholeFile = Frames \o SeekTable(sizes)
  BY DEF SeekTable, WholeFile, Frames, Rows
<1>2. n \in Nat /\ TableAt \in Nat
  BY SizesFacts
<1>3. /\ head \in Seq(Cell) /\ Len(head) = 2
      /\ head[1] = Number(SeekTableMagic) /\ head[2] = Number(2 * n + 3)
  <2> DEFINE a == Number(SeekTableMagic)
             b == Number(n * EntryLen + FooterLen)
  <2>1. a \in Cell /\ b \in Cell /\ b = Number(2 * n + 3)
    <3>1. n * EntryLen + FooterLen = 2 * n + 3 /\ 2 * n + 3 \in Nat /\ SeekTableMagic \in Nat
      BY <1>2 DEF EntryLen, FooterLen, SeekTableMagic
    <3>2. QED
      BY <3>1, CellFacts
  <2> HIDE DEF a, b
  <2>2. <<a, b>> \in Seq(Cell) /\ Len(<<a, b>>) = 2 /\ <<a, b>>[1] = a /\ <<a, b>>[2] = b
    BY <2>1, PairFacts
  <2>3. QED
    BY <2>1, <2>2 DEF a, b
<1>4. /\ foot \in Seq(Cell) /\ Len(foot) = 3 /\ foot[1] = Number(n)
      /\ foot[2] = Number(0) /\ foot[3] = Number(SeekableMagic)
  <2> DEFINE a == Number(n)
             b == Number(0)
             c == Number(SeekableMagic)
  <2>1. a \in Cell /\ b \in Cell /\ c \in Cell
    BY <1>2, CellFacts DEF SeekableMagic
  <2> HIDE DEF a, b, c
  <2>2. /\ <<a, b, c>> \in Seq(Cell) /\ Len(<<a, b, c>>) = 3
        /\ <<a, b, c>>[1] = a /\ <<a, b, c>>[2] = b /\ <<a, b, c>>[3] = c
    BY <2>1
  <2>3. QED
    BY <2>2 DEF a, b, c
<1>5. /\ rows \in Seq(Cell) /\ Len(rows) = 2 * n
      /\ \A k \in 1..n :
            /\ rows[2 * (k - 1) + 1] = Number(sizes[k].len)
            /\ rows[2 * (k - 1) + 2] = Number(sizes[k].raw)
  BY TableRowsLaid
<1>6. /\ Frames \in Seq(Cell) /\ Len(Frames) = TableAt
      /\ \A k \in 1..n : \A i \in 1..sizes[k].len : Frames[FrameEnds[k - 1] + i] = Byte(k, i)
  BY FramesLaid
<1> HIDE DEF head, rows, foot, n
<1>7. /\ head \o rows \in Seq(Cell) /\ Len(head \o rows) = 2 + 2 * n
      /\ \A i \in 1..2 : (head \o rows)[i] = head[i]
      /\ \A i \in 1..(2 * n) : (head \o rows)[2 + i] = rows[i]
  <2>1. 2 \in Nat /\ 2 * n \in Nat
    BY <1>2
  <2>2. CellsJoined(head, rows, 2, 2 * n)
    BY <1>3, <1>5, <2>1, CellConcat
  <2>3. QED
    BY <2>2 DEF CellsJoined
<1>8. /\ SeekTable(sizes) \in Seq(Cell) /\ Len(SeekTable(sizes)) = 2 * n + 5
      /\ \A i \in 1..(2 + 2 * n) : SeekTable(sizes)[i] = (head \o rows)[i]
      /\ \A i \in 1..3 : SeekTable(sizes)[2 + 2 * n + i] = foot[i]
  <2> DEFINE front == head \o rows
  <2>1. front \in Seq(Cell) /\ Len(front) = 2 + 2 * n /\ SeekTable(sizes) = front \o foot
    BY <1>1, <1>7
  <2>2. 2 + 2 * n \in Nat /\ 3 \in Nat /\ (2 + 2 * n) + 3 = 2 * n + 5
    BY <1>2
  <2> HIDE DEF front
  <2>3. CellsJoined(front, foot, 2 + 2 * n, 3)
    BY <1>4, <2>1, <2>2, CellConcat
  <2>4. QED
    BY <2>1, <2>2, <2>3 DEF CellsJoined, front
<1> DEFINE table == SeekTable(sizes)
<1>9. /\ table \in Seq(Cell) /\ Len(table) = 2 * n + 5
      /\ table[1] = Number(SeekTableMagic) /\ table[2] = Number(2 * n + 3)
      /\ \A k \in 1..n : /\ table[2 + 2 * (k - 1) + 1] = Number(sizes[k].len)
                         /\ table[2 + 2 * (k - 1) + 2] = Number(sizes[k].raw)
      /\ table[2 * n + 3] = Number(n) /\ table[2 * n + 4] = Number(0)
      /\ table[2 * n + 5] = Number(SeekableMagic)
  <2>1. 1 \in 1..(2 + 2 * n) /\ 2 \in 1..(2 + 2 * n)
    BY <1>2
  <2>2. table[1] = head[1] /\ table[2] = head[2]
    BY <1>7, <1>8, <2>1
  <2>3. ASSUME NEW k \in 1..n
        PROVE  /\ table[2 + 2 * (k - 1) + 1] = Number(sizes[k].len)
               /\ table[2 + 2 * (k - 1) + 2] = Number(sizes[k].raw)
    <3> DEFINE i == 2 * (k - 1) + 1
               j == 2 * (k - 1) + 2
    <3>1. /\ i \in 1..(2 * n) /\ j \in 1..(2 * n)
          /\ 2 + i \in 1..(2 + 2 * n) /\ 2 + j \in 1..(2 + 2 * n)
          /\ 2 + 2 * (k - 1) + 1 = 2 + i /\ 2 + 2 * (k - 1) + 2 = 2 + j
      BY <1>2
    <3>2. rows[i] = Number(sizes[k].len) /\ rows[j] = Number(sizes[k].raw)
      BY <1>5
    <3> HIDE DEF i, j
    <3>3. table[2 + i] = rows[i] /\ table[2 + j] = rows[j]
      BY <1>7, <1>8, <3>1
    <3>4. QED
      BY <3>1, <3>2, <3>3
  <2>4. 2 + 2 * n + 1 = 2 * n + 3 /\ 2 + 2 * n + 2 = 2 * n + 4 /\ 2 + 2 * n + 3 = 2 * n + 5
    BY <1>2
  <2>5. /\ table[2 + 2 * n + 1] = foot[1] /\ table[2 + 2 * n + 2] = foot[2]
        /\ table[2 + 2 * n + 3] = foot[3]
    BY <1>8
  <2>6. QED
    BY <1>3, <1>4, <1>8, <2>2, <2>3, <2>4, <2>5
<1>10. /\ WholeFile \in Seq(Cell) /\ Len(WholeFile) = TableAt + (2 * n + 5)
       /\ \A i \in 1..TableAt : WholeFile[i] = Frames[i]
       /\ \A i \in 1..(2 * n + 5) : WholeFile[TableAt + i] = table[i]
  <2> HIDE DEF table
  <2>1. WholeFile = Frames \o table
    BY <1>1 DEF table
  <2>2. TableAt \in Nat /\ 2 * n + 5 \in Nat
    BY <1>2
  <2>3. CellsJoined(Frames, table, TableAt, 2 * n + 5)
    BY <1>6, <1>9, <2>2, CellConcat
  <2>4. QED
    BY <2>1, <2>3 DEF CellsJoined
<1> HIDE DEF table
<1>11. ASSUME NEW k \in 1..n, NEW i \in 1..sizes[k].len
       PROVE  WholeFile[FrameEnds[k - 1] + i] = Byte(k, i)
  <2>1. /\ sizes[k].len \in Nat /\ FrameEnds[k] = FrameEnds[k - 1] + sizes[k].len
        /\ FrameEnds[k - 1] \in Nat /\ FrameEnds[k] \in Nat
    BY SizesFacts DEF n
  <2>2. FrameEnds[k] <= TableAt
    <3>1. k \in 0..n /\ n \in k..n /\ AddsUp(FrameEnds, FrameLens, n)
      BY <1>2, SizesFacts DEF n
    <3>2. QED
      BY <1>2, <3>1, SumsGrow DEF TableAt, n
  <2>3. FrameEnds[k - 1] + i \in 1..TableAt
    BY <1>2, <2>1, <2>2
  <2>4. QED
    BY <1>6, <1>10, <2>3
<1>12. ASSUME NEW i \in 1..(2 * n + 5), NEW j, j = TableAt + i
       PROVE  WholeFile[j] = table[i]
  BY <1>10, <1>12
<1>13. ASSUME NEW k \in 1..n
       PROVE  /\ WholeFile[TableAt + 2 + 2 * (k - 1) + 1] = Number(sizes[k].len)
              /\ WholeFile[TableAt + 2 + 2 * (k - 1) + 2] = Number(sizes[k].raw)
  <2> DEFINE i == 2 + 2 * (k - 1) + 1
             j == 2 + 2 * (k - 1) + 2
  <2>1. /\ i \in 1..(2 * n + 5) /\ TableAt + 2 + 2 * (k - 1) + 1 = TableAt + i
        /\ j \in 1..(2 * n + 5) /\ TableAt + 2 + 2 * (k - 1) + 2 = TableAt + j
    BY <1>2
  <2>2. table[i] = Number(sizes[k].len) /\ table[j] = Number(sizes[k].raw)
    BY <1>9
  <2> HIDE DEF i, j
  <2>3. QED
    BY <1>12, <2>1, <2>2
<1>14. /\ 1 \in 1..(2 * n + 5) /\ 2 \in 1..(2 * n + 5) /\ 2 * n + 3 \in 1..(2 * n + 5)
       /\ 2 * n + 4 \in 1..(2 * n + 5) /\ 2 * n + 5 \in 1..(2 * n + 5)
       /\ TableAt + 2 * n + 3 = TableAt + (2 * n + 3) /\ TableAt + 2 * n + 4 = TableAt + (2 * n + 4)
       /\ TableAt + 2 * n + 5 = TableAt + (2 * n + 5)
  BY <1>2
<1>15. /\ WholeFile[TableAt + 1] = table[1] /\ WholeFile[TableAt + 2] = table[2]
       /\ WholeFile[TableAt + 2 * n + 3] = table[2 * n + 3]
       /\ WholeFile[TableAt + 2 * n + 4] = table[2 * n + 4]
       /\ WholeFile[TableAt + 2 * n + 5] = table[2 * n + 5]
  BY <1>10, <1>14
<1>16. QED
  BY <1>1, <1>8, <1>9, <1>10, <1>11, <1>13, <1>14, <1>15 DEF n

\* A byte of a frame is in that frame only.
LEMMA ByteAt ==
    ASSUME TypeOK, NEW p \in 1..Len(WholeFile), NEW k \in Nat, NEW i \in Nat,
           WholeFile[p] = Byte(k, i)
    PROVE  k \in 1..Len(sizes) /\ i \in 1..sizes[k].len /\ p = FrameEnds[k - 1] + i
<1> DEFINE n == Len(sizes)
<1>1. /\ n \in Nat /\ TableAt \in Nat /\ AddsUp(FrameEnds, FrameLens, n)
      /\ \A m \in 1..n : FrameLens[m] = sizes[m].len /\ sizes[m].len \in Nat /\ sizes[m].raw \in Nat
  BY SizesFacts
<1>2. Len(WholeFile) = TableAt + 2 * n + 5
  BY WholeLaid
<1>3. ASSUME NEW x \in Nat
      PROVE  WholeFile[p] # Number(x)
  BY CellFacts
<1>4. p <= TableAt
  <2>0. p \in Nat /\ p <= TableAt + 2 * n + 5
    BY <1>1, <1>2
  <2> HIDE DEF n
  <2> SUFFICES ASSUME TableAt < p
               PROVE  FALSE
    BY <1>1, <2>0
  <2>1. CASE p = TableAt + 1
    BY <1>3, <2>1, WholeLaid DEF SeekTableMagic
  <2>2. CASE p = TableAt + 2
    <3>1. 2 * n + 3 \in Nat /\ WholeFile[p] = Number(2 * n + 3)
      BY <1>1, <2>2, WholeLaid DEF n
    <3>2. QED
      BY <1>3, <3>1
  <2>3. CASE p \in (TableAt + 3)..(TableAt + 2 * n + 2)
    <3>1. PICK m \in 1..n : \/ p = TableAt + 2 + 2 * (m - 1) + 1
                            \/ p = TableAt + 2 + 2 * (m - 1) + 2
      <4>1. PICK m \in 1..n : p - TableAt - 2 = 2 * (m - 1) + 1 \/ p - TableAt - 2 = 2 * (m - 1) + 2
        <5> DEFINE q == p - TableAt - 3
                   h == q \div 2 + 1
        <5>1. q \in 0..(2 * n - 1) /\ p - TableAt - 2 = q + 1
          BY <1>1, <2>3
        <5> HIDE DEF q
        <5>2. h \in 1..n /\ (q = 2 * (h - 1) \/ q = 2 * (h - 1) + 1)
          BY <1>1, <5>1
        <5> HIDE DEF h
        <5>3. QED
          BY <5>1, <5>2
      <4>2. p = TableAt + 2 + 2 * (m - 1) + 1 \/ p = TableAt + 2 + 2 * (m - 1) + 2
        BY <1>1, <2>0, <4>1
      <4>3. QED
        BY <4>2
    <3>2. /\ WholeFile[TableAt + 2 + 2 * (m - 1) + 1] = Number(sizes[m].len)
          /\ WholeFile[TableAt + 2 + 2 * (m - 1) + 2] = Number(sizes[m].raw)
      BY WholeLaid DEF n
    <3>3. WholeFile[p] = Number(sizes[m].len) \/ WholeFile[p] = Number(sizes[m].raw)
      BY <3>1, <3>2
    <3>4. QED
      BY <1>1, <1>3, <3>3
  <2>4. CASE p = TableAt + 2 * n + 3
    <3>1. WholeFile[p] = Number(n)
      BY <2>4, WholeLaid DEF n
    <3>2. QED
      BY <1>1, <1>3, <3>1
  <2>5. CASE p = TableAt + 2 * n + 4
    <3>1. WholeFile[p] = Number(0)
      BY <2>5, WholeLaid DEF n
    <3>2. QED
      BY <1>3, <3>1
  <2>6. CASE p = TableAt + 2 * n + 5
    <3>1. WholeFile[p] = Number(SeekableMagic) /\ SeekableMagic \in Nat
      BY <2>6, WholeLaid DEF SeekableMagic, n
    <3>2. QED
      BY <1>3, <3>1
  <2>7. QED
    BY <1>1, <2>0, <2>1, <2>2, <2>3, <2>4, <2>5, <2>6
<1>5. PICK m \in 1..n : \E j \in 1..FrameLens[m] : p = FrameEnds[m - 1] + j
  <2>1. p \in Nat /\ 0 < p /\ p <= FrameEnds[n]
    BY <1>1, <1>2, <1>4 DEF TableAt
  <2>2. AddsUp(FrameEnds, FrameLens, n) /\ n \in Nat
    BY <1>1
  <2> HIDE DEF n
  <2>3. InSome(FrameEnds, FrameLens, n, p)
    BY <2>1, <2>2, PlaceIsInOne
  <2>4. QED
    BY <2>3 DEF InSome
<1>6. PICK j \in 1..FrameLens[m] : p = FrameEnds[m - 1] + j
  BY <1>5
<1>7. WholeFile[p] = Byte(m, j)
  <2>1. j \in 1..sizes[m].len
    BY <1>1
  <2>2. QED
    BY <1>6, <2>1, WholeLaid
<1>8. k = m /\ i = j
  <2>1. m \in Nat /\ j \in Nat
    BY <1>1
  <2>2. Byte(k, i) = Byte(m, j)
    BY <1>7
  <2> HIDE DEF n
  <2>3. QED
    BY <2>1, <2>2, CellFacts
<1>9. QED
  BY <1>1, <1>6, <1>8

-----------------------------------------------------------------------------
(* What reading makes of a frame and of the index.                         *)

LEMMA SliceFacts ==
    ASSUME NEW S, NEW bytes \in Seq(S), NEW start \in Nat, NEW l \in Nat, NEW span,
           span.start = start, span.len = l, start + l <= Len(bytes)
    PROVE  /\ Slice(bytes, span) \in Seq(S) /\ Len(Slice(bytes, span)) = l
           /\ \A i \in 1..l : Slice(bytes, span)[i] = bytes[start + i]
<1>1. Len(bytes) \in Nat
  BY LenProperties
<1>2. start + 1 \in 1..(Len(bytes) + 1) /\ start + l \in start..Len(bytes)
  BY <1>1
<1>3. QED
  BY <1>1, <1>2 DEF Slice

\* Two frames are never the same.
LEMMA FramesDiffer ==
    ASSUME TypeOK, NEW k \in 1..Len(sizes), NEW m \in 1..Len(sizes),
           Frame(k, sizes[k]) = Frame(m, sizes[m])
    PROVE  k = m
<1>1. sizes[k].len \in Nat \ {0} /\ sizes[m].len \in Nat \ {0} /\ k \in Nat /\ m \in Nat
  BY SizesFacts
<1>2. Frame(k, sizes[k])[1] = Byte(k, 1) /\ Frame(m, sizes[m])[1] = Byte(m, 1)
  BY <1>1, FrameFacts
<1>3. QED
  BY <1>1, <1>2, CellFacts

\* What decodes is a frame of the file, and short enough.
LEMMA DecodeFacts ==
    ASSUME TypeOK, NEW bytes, Decode(bytes).ok
    PROVE  /\ Decode(bytes).line \in 1..Len(sizes)
           /\ bytes = Frame(Decode(bytes).line, sizes[Decode(bytes).line])
<1> DEFINE whole == {k \in DOMAIN sizes : IsWhole(k, bytes) /\ sizes[k].raw <= MaxRaw}
           k == CHOOSE n \in whole : TRUE
<1>1. whole # {} /\ Decode(bytes).line = k
  BY DEF Decode, Refused
<1>2. k \in whole
  BY <1>1
<1>3. k \in DOMAIN sizes /\ IsWhole(k, bytes)
  BY <1>2
<1>4. DOMAIN sizes = 1..Len(sizes)
  BY SizesFacts
<1> HIDE DEF k
<1>5. QED
  BY <1>1, <1>3, <1>4 DEF IsWhole

\* A frame that is short enough decodes to its own line.
LEMMA FrameDecodes ==
    ASSUME TypeOK, NEW k \in 1..Len(sizes), sizes[k].raw <= MaxRaw
    PROVE  Decode(Frame(k, sizes[k])) = [ok |-> TRUE, line |-> k, raw |-> sizes[k].raw]
<1> DEFINE bytes == Frame(k, sizes[k])
           whole == {m \in DOMAIN sizes : IsWhole(m, bytes) /\ sizes[m].raw <= MaxRaw}
<1>1. DOMAIN sizes = 1..Len(sizes)
  BY SizesFacts
<1>2. k \in whole
  BY <1>1 DEF IsWhole
<1>3. \A m \in whole : m = k
  BY <1>1, FramesDiffer DEF IsWhole
<1>4. (CHOOSE m \in whole : TRUE) = k
  BY <1>2, <1>3
<1>5. QED
  BY <1>2, <1>4 DEF Decode

\* The entries in the index, as it was made.
EntriesMade ==
    /\ entries = [k \in DOMAIN entries |-> Entry(k)]
    /\ Len(entries) \in Nat /\ DOMAIN entries = 1 .. Len(entries)

\* The line of the index reads as the entries, in this version only, and no other does.
LEMMA IndexReads ==
    ASSUME EntriesMade, NEW k \in Nat
    PROVE  /\ FromJson(Document(k)).ok =>
                 k = Len(entries) + 1 /\ version = FormatVersion /\ FromJson(Document(k)).index = entries
           /\ k = Len(entries) + 1 /\ version = FormatVersion => FromJson(Document(k)).ok
<1>1. CASE k # Len(entries) + 1
  <2>1. Document(k).format_version = 0
    BY <1>1 DEF Document
  <2>2. ~Readable(Document(k))
    BY <2>1 DEF Readable, FormatVersion
  <2>3. ~FromJson(Document(k)).ok
    BY <2>2 DEF FromJson, Refused
  <2>4. QED
    BY <1>1, <2>3
<1>2. CASE k = Len(entries) + 1
  <2> DEFINE document == ToJson(entries)
             column(c) == [i \in DOMAIN entries |-> entries[i][c]]
  <2>1. Document(k) = document
    BY <1>2 DEF Document
  <2>2. /\ document.format_version = version
        /\ DOMAIN document.parts = Columns
        /\ \A c \in Columns : document.parts[c] = column(c)
    BY DEF ToJson
  <2>3. Len(entries) \in Nat /\ DOMAIN entries = 1..Len(entries)
    BY DEF EntriesMade
  <2> HIDE DEF document
  <2>4. \A c \in Columns : /\ DOMAIN document.parts[c] = 1..Len(entries)
                           /\ Len(document.parts[c]) = Len(entries)
                           /\ \A i \in 1..Len(entries) : document.parts[c][i] = entries[i][c]
    <3> TAKE c \in Columns
    <3> DEFINE cells == [i \in 1..Len(entries) |-> entries[i][c]]
    <3>1. document.parts[c] = cells
      BY <2>2, <2>3
    <3>2. cells \in Seq({entries[i][c] : i \in 1..Len(entries)}) /\ Len(cells) = Len(entries)
      BY <2>3
    <3>3. QED
      BY <3>1, <3>2
  <2>5. "first" \in Columns
    BY DEF Columns
  <2>6. Readable(document) <=> version = FormatVersion
    BY <2>2, <2>4, <2>5 DEF Readable
  <2>7. FromJson(document).ok <=> version = FormatVersion
    BY <2>6 DEF FromJson, Refused
  <2>8. [i \in DOMAIN document.parts["first"] |-> [c \in Columns |-> document.parts[c][i]]] = entries
    <3>1. \A i \in 1..Len(entries) : entries[i] = Entry(i)
      BY <2>3 DEF EntriesMade
    <3>2. \A i \in 1..Len(entries) : [c \in Columns |-> document.parts[c][i]] = entries[i]
      <4> TAKE i \in 1..Len(entries)
      <4>1. \A c \in Columns : document.parts[c][i] = entries[i][c]
        BY <2>4
      <4>2. entries[i] = [c \in Columns |-> entries[i][c]]
        BY <3>1 DEF Entry, Columns
      <4>3. QED
        BY <4>1, <4>2
    <3>3. entries = [i \in 1..Len(entries) |-> entries[i]]
      BY <2>3 DEF EntriesMade
    <3>4. QED
      BY <2>4, <2>5, <3>2, <3>3
  <2>9. QED
    BY <1>2, <2>1, <2>6, <2>7, <2>8 DEF FromJson
<1>3. QED
  BY <1>1, <1>2

-----------------------------------------------------------------------------
(* What Locate finds in any cells.                                         *)

EntrySize(bytes) ==
    IF Checksums(Value(bytes[Len(bytes) - FooterLen + 2])) THEN EntryLen + ChecksumLen ELSE EntryLen

RowCount(bytes) == Value(bytes[Len(bytes) - FooterLen + 1])

Table(bytes) == Len(bytes) - FooterLen - RowCount(bytes) * EntrySize(bytes) - HeadLen

FieldOf(bytes, i, n) == Value(bytes[Table(bytes) + HeadLen + (i - 1) * EntrySize(bytes) + n])

RowLens(bytes) == [i \in 1..RowCount(bytes) |-> FieldOf(bytes, i, 1)]

\* The checks of locate, and what it returns when they hold.
IsTable(bytes) ==
    /\ Len(bytes) - FooterLen >= 0
    /\ Value(bytes[Len(bytes)]) = SeekableMagic
    /\ Reserved(Value(bytes[Len(bytes) - FooterLen + 2])) = 0
    /\ Table(bytes) >= 0
    /\ Value(bytes[Table(bytes) + 1]) = SeekTableMagic
    /\ Value(bytes[Table(bytes) + 2]) = Len(bytes) - Table(bytes) - HeadLen
    /\ \A i \in 1..RowCount(bytes) : Ends(RowLens(bytes))[i] <= Table(bytes)
    /\ Ends(RowLens(bytes))[RowCount(bytes)] = Table(bytes)

RowSpans(bytes) ==
    [i \in 1..RowCount(bytes) |->
        [start |-> Ends(RowLens(bytes))[i - 1], len |-> FieldOf(bytes, i, 1),
         raw |-> FieldOf(bytes, i, 2)]]

LEMMA LocateIs ==
    ASSUME NEW bytes
    PROVE  Locate(bytes) =
             IF IsTable(bytes) THEN [ok |-> TRUE, spans |-> RowSpans(bytes)] ELSE Refused
BY DEF Locate, IsTable, RowSpans, RowLens, FieldOf, Table, RowCount, EntrySize

LEMMA TableFacts ==
    ASSUME NEW bytes \in Seq(Cell), IsTable(bytes)
    PROVE  /\ Locate(bytes) = [ok |-> TRUE, spans |-> RowSpans(bytes)]
           /\ RowCount(bytes) \in Nat /\ Table(bytes) \in Nat /\ EntrySize(bytes) \in {2, 3}
           /\ Len(bytes) = Table(bytes) + RowCount(bytes) * EntrySize(bytes) + 5
           /\ Value(bytes[Table(bytes) + 2]) = Len(bytes) - Table(bytes) - 2
           /\ RowLens(bytes) \in Seq(Nat) /\ Len(RowLens(bytes)) = RowCount(bytes)
           /\ AddsUp(Ends(RowLens(bytes)), RowLens(bytes), RowCount(bytes))
           /\ Ends(RowLens(bytes))[RowCount(bytes)] = Table(bytes)
           /\ Len(RowSpans(bytes)) = RowCount(bytes) /\ DOMAIN RowSpans(bytes) = 1..RowCount(bytes)
<1> DEFINE l == Len(bytes)
           c == RowCount(bytes)
           e == EntrySize(bytes)
           t == Table(bytes)
<1>1. l \in Nat /\ l >= 3
  BY LenProperties DEF IsTable, FooterLen
<1>2. \A p \in 1..l : Value(bytes[p]) \in Nat
  BY ElementOfSeq, ValueType
<1>3. c \in Nat
  BY <1>1, <1>2 DEF RowCount, FooterLen
<1>4. e \in {2, 3}
  BY DEF EntrySize, EntryLen, ChecksumLen
<1>5. c * e \in Nat /\ \A i \in 1..c : (i - 1) * e \in Nat /\ (i - 1) * e + e <= c * e
  BY <1>3, <1>4
<1>6. t \in Nat /\ l = t + c * e + 5
  <2> DEFINE size == c * e
  <2>1. t = l - 3 - size - 2
    BY DEF Table, FooterLen, HeadLen
  <2>2. t >= 0
    BY DEF IsTable
  <2>3. size \in Nat
    BY <1>5
  <2> HIDE DEF size, c, e, l, t
  <2>4. t \in Nat /\ l = t + size + 5
    BY <1>1, <2>1, <2>2, <2>3
  <2>5. QED
    BY <2>4 DEF size
<1>7. ASSUME NEW i \in 1..c
      PROVE  FieldOf(bytes, i, 1) \in Nat
  <2> DEFINE d == (i - 1) * e
             p == t + 2 + d + 1
             size == c * e
  <2>1. d \in Nat /\ d + e <= size /\ size \in Nat /\ l = t + size + 5
    BY <1>5, <1>6
  <2> HIDE DEF d, size
  <2>2. p \in 1..l
    BY <1>1, <1>4, <1>6, <2>1
  <2>3. Value(bytes[p]) \in Nat
    <3> HIDE DEF p
    <3>1. QED
      BY <1>2, <2>2
  <2>4. QED
    BY <2>3 DEF FieldOf, HeadLen, d
<1>8. RowLens(bytes) \in Seq(Nat) /\ Len(RowLens(bytes)) = c
  BY <1>3, <1>7 DEF RowLens
<1>9. AddsUp(Ends(RowLens(bytes)), RowLens(bytes), c)
  <2> HIDE DEF c
  <2>1. QED
    BY <1>8, EndsAddUp
<1>10. Len(RowSpans(bytes)) = c /\ DOMAIN RowSpans(bytes) = 1..c
  <2>1. DOMAIN RowSpans(bytes) = 1..c
    BY DEF RowSpans
  <2>2. RowSpans(bytes) = [i \in 1..c |-> RowSpans(bytes)[i]]
    BY DEF RowSpans
  <2> DEFINE spans == RowSpans(bytes)
  <2> HIDE DEF spans, c
  <2>3. spans \in Seq({spans[i] : i \in 1..c}) /\ Len(spans) = c
    BY <1>3, <2>2 DEF spans
  <2>4. QED
    BY <2>1, <2>3 DEF spans
<1>11. Value(bytes[t + 2]) = l - t - 2 /\ Ends(RowLens(bytes))[c] = t
  BY DEF IsTable, HeadLen
<1>12. Locate(bytes) = [ok |-> TRUE, spans |-> RowSpans(bytes)]
  BY LocateIs
<1>13. QED
  BY <1>3, <1>4, <1>6, <1>8, <1>9, <1>10, <1>11, <1>12

-----------------------------------------------------------------------------
(* What is read from a file whose bytes of frames, if not all there, are at *)
(* their own places.                                                       *)

LEMMA ParseFacts ==
    ASSUME NEW bytes, Parse(bytes).ok
    PROVE  /\ IsTable(bytes)
           /\ Parse(bytes).frames = RowSpans(bytes) /\ RowSpans(bytes) # <<>>
           /\ \A i \in DOMAIN RowSpans(bytes) : Inside(RowSpans(bytes)[i], bytes)
           /\ DecodeIndex(Slice(bytes, Last(RowSpans(bytes)))).ok
           /\ Parse(bytes).index = DecodeIndex(Slice(bytes, Last(RowSpans(bytes)))).index
           /\ Len(Parse(bytes).index) = Len(RowSpans(bytes)) - 1
<1>1. Locate(bytes).ok
  BY DEF Parse, Refused
<1>2. IsTable(bytes) /\ Locate(bytes).spans = RowSpans(bytes)
  BY <1>1, LocateIs DEF Refused
<1>3. QED
  BY <1>2 DEF Parse, Refused

Placed(bytes) ==
    /\ bytes \in Seq(Cell) /\ Len(bytes) <= Len(WholeFile)
    /\ \A p \in 1..Len(bytes) : \A k, i \in Nat :
          bytes[p] = Byte(k, i) => WholeFile[p] = Byte(k, i)

\* A span that decodes as frame k starts where frame k starts.
LEMMA SpanDecodes ==
    ASSUME TypeOK, NEW bytes, Placed(bytes), NEW span, span.start \in Nat, span.len \in Nat,
           Inside(span, bytes), Decode(Slice(bytes, span)).ok
    PROVE  LET k == Decode(Slice(bytes, span)).line
           IN  /\ k \in 1..Len(sizes) /\ Slice(bytes, span) = Frame(k, sizes[k])
               /\ span.start = FrameEnds[k - 1] /\ span.len = sizes[k].len
<1> DEFINE k == Decode(Slice(bytes, span)).line
           slice == Slice(bytes, span)
<1>1. k \in 1..Len(sizes) /\ slice = Frame(k, sizes[k])
  BY DecodeFacts
<1>2. /\ sizes[k].len \in Nat \ {0} /\ FrameEnds[k - 1] \in Nat /\ k \in Nat
      /\ Len(WholeFile) \in Nat
  <2> HIDE DEF k, slice
  <2>1. k \in Nat /\ sizes[k].len \in Nat \ {0} /\ FrameEnds[k - 1] \in Nat
    BY <1>1, SizesFacts
  <2>2. Len(WholeFile) \in Nat
    BY WholeLaid, LenProperties
  <2>3. QED
    BY <2>1, <2>2
<1>3. Len(slice) = span.len /\ \A i \in 1..span.len : slice[i] = bytes[span.start + i]
  BY SliceFacts DEF Inside, Placed
<1> HIDE DEF k, slice
<1>4. span.len = sizes[k].len /\ slice[1] = Byte(k, 1)
  BY <1>1, <1>2, <1>3, FrameFacts
<1>5. bytes[span.start + 1] = Byte(k, 1)
  BY <1>2, <1>3, <1>4
<1>6. span.start + 1 \in 1..Len(bytes) /\ span.start + 1 \in 1..Len(WholeFile)
  <2>1. Len(bytes) \in Nat /\ Len(bytes) <= Len(WholeFile) /\ span.start + span.len <= Len(bytes)
    BY LenProperties DEF Placed, Inside
  <2>2. QED
    BY <1>2, <1>4, <2>1
<1>7. WholeFile[span.start + 1] = Byte(k, 1)
  BY <1>2, <1>5, <1>6 DEF Placed
<1>8. span.start + 1 = FrameEnds[k - 1] + 1
  BY <1>2, <1>6, <1>7, ByteAt
<1>9. QED
  BY <1>1, <1>2, <1>4, <1>8 DEF k, slice

LEMMA SpanFacts ==
    ASSUME NEW bytes \in Seq(Cell), IsTable(bytes), NEW i \in 1..RowCount(bytes)
    PROVE  /\ RowSpans(bytes)[i].start \in Nat /\ RowSpans(bytes)[i].len \in Nat
           /\ RowSpans(bytes)[i].start = Ends(RowLens(bytes))[i - 1]
           /\ RowSpans(bytes)[i].start + RowSpans(bytes)[i].len = Ends(RowLens(bytes))[i]
           /\ RowSpans(bytes)[i].len = RowLens(bytes)[i]
<1>1. RowSpans(bytes)[i].start = Ends(RowLens(bytes))[i - 1] /\ RowSpans(bytes)[i].len = RowLens(bytes)[i]
  BY DEF RowSpans, RowLens
<1>2. /\ RowCount(bytes) \in Nat
      /\ AddsUp(Ends(RowLens(bytes)), RowLens(bytes), RowCount(bytes))
  BY TableFacts
<1>3. i - 1 \in 0..RowCount(bytes)
  BY <1>2
<1>4. QED
  BY <1>1, <1>2, <1>3 DEF AddsUp

\* Then the index is this manifest's, and the table is where it was written.
LEMMA ParseFinds ==
    ASSUME TypeOK, IndexInv, NEW bytes, Placed(bytes), Parse(bytes).ok
    PROVE  /\ version = FormatVersion /\ Len(sizes) = Len(entries) + 1
           /\ Parse(bytes).index = entries
           /\ RowCount(bytes) = Len(sizes) /\ Table(bytes) = TableAt
<1> DEFINE c == RowCount(bytes)
           span == Last(RowSpans(bytes))
           slice == Slice(bytes, span)
           k == Decode(slice).line
<1>1. /\ IsTable(bytes) /\ RowSpans(bytes) # <<>>
      /\ \A i \in DOMAIN RowSpans(bytes) : Inside(RowSpans(bytes)[i], bytes)
      /\ DecodeIndex(slice).ok /\ Parse(bytes).index = DecodeIndex(slice).index
      /\ Len(Parse(bytes).index) = Len(RowSpans(bytes)) - 1
  BY ParseFacts
<1>2. bytes \in Seq(Cell)
  BY DEF Placed
<1>3. /\ c \in Nat /\ Len(RowSpans(bytes)) = c /\ DOMAIN RowSpans(bytes) = 1..c
      /\ Ends(RowLens(bytes))[c] = Table(bytes)
  BY <1>1, <1>2, TableFacts
<1>4. c # 0
  <2> DEFINE spans == RowSpans(bytes)
  <2>1. spans = [i \in 1..c |-> spans[i]]
    BY DEF RowSpans
  <2>2. spans # <<>> /\ c \in Nat
    BY <1>1, <1>3
  <2> HIDE DEF spans, c
  <2>3. c # 0
    BY <2>1, <2>2
  <2>4. QED
    BY <2>3
<1>5. span = RowSpans(bytes)[c] /\ c \in 1..c
  BY <1>3, <1>4 DEF Last
<1>6. /\ span.start \in Nat /\ span.len \in Nat /\ Inside(span, bytes)
      /\ span.start + span.len = Table(bytes)
  BY <1>1, <1>2, <1>3, <1>5, SpanFacts
<1>7. Decode(slice).ok /\ FromJson(Document(k)).ok /\ DecodeIndex(slice) = FromJson(Document(k))
  <2>1. Decode(slice).ok
    BY <1>1 DEF DecodeIndex, Refused
  <2>2. DecodeIndex(slice) = FromJson(Document(k))
    BY <2>1 DEF DecodeIndex
  <2>3. QED
    BY <1>1, <2>1, <2>2
<1> HIDE DEF slice, k, c, span
<1>8. /\ k \in 1..Len(sizes) /\ span.start = FrameEnds[k - 1] /\ span.len = sizes[k].len
  BY <1>6, <1>7, SpanDecodes DEF slice, k
<1>9. k = Len(entries) + 1 /\ version = FormatVersion /\ FromJson(Document(k)).index = entries
  <2>1. EntriesMade
    BY DEF IndexInv, EntriesMade
  <2>2. k \in Nat
    BY <1>8, SizesFacts
  <2>3. QED
    BY <1>7, <2>1, <2>2, IndexReads
<1>10. Len(sizes) = k
  <2>1. Len(sizes) \in Nat
    BY SizesFacts
  <2>2. Len(entries) \in Nat
    BY DEF IndexInv
  <2>3. Len(sizes) \in {Len(entries), Len(entries) + 1}
    BY DEF IndexInv
  <2>4. k \in 1..Len(sizes) /\ k = Len(entries) + 1
    BY <1>8, <1>9
  <2>5. QED
    BY <2>1, <2>2, <2>3, <2>4
<1>11. Table(bytes) = TableAt
  <2>1. FrameEnds[k] = FrameEnds[k - 1] + sizes[k].len
    BY <1>8, SizesFacts
  <2>2. QED
    BY <1>6, <1>8, <1>10, <2>1 DEF TableAt
<1>12. Parse(bytes).index = entries
  BY <1>1, <1>7, <1>9
<1>13. c = Len(sizes)
  <2>1. Len(entries) \in Nat /\ Len(entries) = c - 1
    BY <1>1, <1>3, <1>12 DEF IndexInv
  <2>2. QED
    BY <1>3, <1>9, <1>10, <2>1
<1>14. QED
  BY <1>9, <1>10, <1>11, <1>12, <1>13 DEF c

\* The start of the whole file is read only if it is the whole of it.
LEMMA PrefixRead ==
    ASSUME TypeOK, IndexInv, NEW n \in 0..Len(WholeFile), NEW bytes,
           bytes = SubSeq(WholeFile, 1, n), Parse(bytes).ok
    PROVE  bytes = WholeFile /\ version = FormatVersion
<1> DEFINE whole == WholeFile
<1>1. /\ whole \in Seq(Cell) /\ Len(whole) \in Nat
      /\ Len(whole) = TableAt + 2 * Len(sizes) + 5
      /\ whole[TableAt + 2] = Number(2 * Len(sizes) + 3)
  BY WholeLaid, LenProperties
<1>2. bytes \in Seq(Cell) /\ Len(bytes) = n /\ \A p \in 1..n : bytes[p] = whole[p]
  <2> HIDE DEF whole
  <2>1. bytes = SubSeq(whole, 1, n) /\ n \in 0..Len(whole)
    BY DEF whole
  <2>2. QED
    BY <1>1, <2>1
<1>3. Placed(bytes)
  BY <1>1, <1>2 DEF Placed
<1>4. version = FormatVersion /\ RowCount(bytes) = Len(sizes) /\ Table(bytes) = TableAt
  BY <1>3, ParseFinds
<1>5. IsTable(bytes)
  BY ParseFacts
<1>6. /\ Len(bytes) = TableAt + Len(sizes) * EntrySize(bytes) + 5
      /\ EntrySize(bytes) \in {2, 3} /\ Value(bytes[TableAt + 2]) = Len(bytes) - TableAt - 2
  BY <1>2, <1>4, <1>5, TableFacts
<1>7. Len(sizes) \in Nat /\ TableAt \in Nat /\ Len(sizes) * EntrySize(bytes) \in Nat
  <2>1. Len(sizes) \in Nat /\ TableAt \in Nat
    BY SizesFacts
  <2>2. QED
    BY <1>6, <2>1
<1>8. TableAt + 2 \in 1..n
  BY <1>2, <1>6, <1>7
<1>9. Value(bytes[TableAt + 2]) = 2 * Len(sizes) + 3
  <2>1. 2 * Len(sizes) + 3 \in Nat
    BY <1>7
  <2>2. QED
    BY <1>1, <1>2, <1>8, <2>1, CellFacts
<1>10. n = Len(whole)
  <2> DEFINE c == Len(sizes)
  <2>1. c \in Nat /\ TableAt \in Nat /\ Len(whole) = TableAt + 2 * c + 5
    BY <1>1, <1>7
  <2>2. n - TableAt - 2 = 2 * c + 3
    BY <1>2, <1>6, <1>9
  <2> HIDE DEF c, whole
  <2>3. QED
    BY <2>1, <2>2
<1>11. bytes = whole
  <2> HIDE DEF whole
  <2>1. QED
    BY <1>1, <1>2, <1>10, SeqEqual
<1>12. QED
  BY <1>4, <1>11

\* Everything from the table on is as it was written.
AsWritten(bytes) ==
    /\ bytes \in Seq(Cell) /\ Len(bytes) = Len(WholeFile)
    /\ \A p \in (TableAt + 1)..Len(WholeFile) : bytes[p] = WholeFile[p]

WholeSpans ==
    [i \in 1..Len(sizes) |->
        [start |-> FrameEnds[i - 1], len |-> sizes[i].len, raw |-> sizes[i].raw]]

LEMMA TableReads ==
    ASSUME TypeOK, NEW bytes, AsWritten(bytes)
    PROVE  IsTable(bytes) /\ RowSpans(bytes) = WholeSpans
<1> DEFINE n == Len(sizes)
           l == Len(WholeFile)
<1>1. /\ n \in Nat /\ TableAt \in Nat /\ l = TableAt + 2 * n + 5
      /\ \A k \in 1..n : sizes[k].len \in Nat /\ sizes[k].raw \in Nat
  BY SizesFacts, WholeLaid
<1>2. Len(bytes) = l /\ \A p \in (TableAt + 1)..l : bytes[p] = WholeFile[p]
  BY DEF AsWritten
<1>3. \A x \in Nat : Value(Number(x)) = x
  BY CellFacts
<1> HIDE DEF n, l
<1>4. /\ Value(bytes[TableAt + 1]) = SeekTableMagic
      /\ Value(bytes[TableAt + 2]) = 2 * n + 3
      /\ Value(bytes[TableAt + 2 * n + 3]) = n
      /\ Value(bytes[TableAt + 2 * n + 4]) = 0
      /\ Value(bytes[TableAt + 2 * n + 5]) = SeekableMagic
  <2>1. /\ TableAt + 1 \in (TableAt + 1)..l /\ TableAt + 2 \in (TableAt + 1)..l
        /\ TableAt + 2 * n + 3 \in (TableAt + 1)..l /\ TableAt + 2 * n + 4 \in (TableAt + 1)..l
        /\ TableAt + 2 * n + 5 \in (TableAt + 1)..l
    BY <1>1
  <2>2. 2 * n + 3 \in Nat /\ SeekTableMagic \in Nat /\ SeekableMagic \in Nat
    BY <1>1 DEF SeekTableMagic, SeekableMagic
  <2>3. /\ WholeFile[TableAt + 1] = Number(SeekTableMagic)
        /\ WholeFile[TableAt + 2] = Number(2 * n + 3)
        /\ WholeFile[TableAt + 2 * n + 3] = Number(n)
        /\ WholeFile[TableAt + 2 * n + 4] = Number(0)
        /\ WholeFile[TableAt + 2 * n + 5] = Number(SeekableMagic)
    BY WholeLaid DEF n
  <2>4. QED
    BY <1>1, <1>2, <1>3, <2>1, <2>2, <2>3
<1>5. \A k \in 1..n : /\ Value(bytes[TableAt + 2 + 2 * (k - 1) + 1]) = sizes[k].len
                      /\ Value(bytes[TableAt + 2 + 2 * (k - 1) + 2]) = sizes[k].raw
  <2> TAKE k \in 1..n
  <2>1. /\ TableAt + 2 + 2 * (k - 1) + 1 \in (TableAt + 1)..l
        /\ TableAt + 2 + 2 * (k - 1) + 2 \in (TableAt + 1)..l
    BY <1>1
  <2>2. /\ WholeFile[TableAt + 2 + 2 * (k - 1) + 1] = Number(sizes[k].len)
        /\ WholeFile[TableAt + 2 + 2 * (k - 1) + 2] = Number(sizes[k].raw)
    BY WholeLaid DEF n
  <2>3. QED
    BY <1>1, <1>2, <1>3, <2>1, <2>2
<1>6. Len(bytes) - FooterLen = TableAt + 2 * n + 2 /\ Len(bytes) = TableAt + 2 * n + 5
  BY <1>1, <1>2 DEF FooterLen
<1>7. RowCount(bytes) = n
  <2>1. Len(bytes) - FooterLen + 1 = TableAt + 2 * n + 3
    BY <1>1, <1>6
  <2>2. QED
    BY <1>4, <2>1 DEF RowCount
<1>8. Value(bytes[Len(bytes) - FooterLen + 2]) = 0
  <2>1. Len(bytes) - FooterLen + 2 = TableAt + 2 * n + 4
    BY <1>1, <1>6
  <2>2. QED
    BY <1>4, <2>1
<1>9. EntrySize(bytes) = 2 /\ Reserved(0) = 0
  <2>1. ~Checksums(0) /\ Reserved(0) = 0
    BY DEF Checksums, Reserved
  <2>2. QED
    BY <1>8, <2>1 DEF EntrySize, EntryLen
<1>10. Table(bytes) = TableAt
  BY <1>1, <1>6, <1>7, <1>9 DEF Table, HeadLen
<1>11. \A k \in 1..n : FieldOf(bytes, k, 1) = sizes[k].len /\ FieldOf(bytes, k, 2) = sizes[k].raw
  <2> TAKE k \in 1..n
  <2>1. (k - 1) * 2 = 2 * (k - 1)
    BY <1>1
  <2>2. FieldOf(bytes, k, 1) = Value(bytes[TableAt + 2 + 2 * (k - 1) + 1])
    BY <1>9, <1>10, <2>1 DEF FieldOf, HeadLen
  <2>3. FieldOf(bytes, k, 2) = Value(bytes[TableAt + 2 + 2 * (k - 1) + 2])
    BY <1>9, <1>10, <2>1 DEF FieldOf, HeadLen
  <2>4. QED
    BY <1>5, <2>2, <2>3
<1>12. RowLens(bytes) = FrameLens
  BY <1>7, <1>11 DEF RowLens, FrameLens, n
<1>13. Ends(RowLens(bytes)) = FrameEnds
  BY <1>12 DEF FrameEnds
<1>14. RowSpans(bytes) = WholeSpans
  BY <1>7, <1>11, <1>13 DEF RowSpans, WholeSpans, n
<1>15. FrameEnds[n] = TableAt /\ \A i \in 1..n : FrameEnds[i] <= TableAt
  <2>1. AddsUp(FrameEnds, FrameLens, n) /\ FrameEnds[n] = TableAt
    BY SizesFacts DEF TableAt, n
  <2>2. \A i \in 1..n : i \in 0..n /\ n \in i..n
    BY <1>1
  <2>3. QED
    BY <1>1, <2>1, <2>2, SumsGrow
<1>16. IsTable(bytes)
  <2>1. Len(bytes) - FooterLen >= 0
    BY <1>1, <1>6
  <2>2. 2 * n + 3 = Len(bytes) - TableAt - HeadLen
    BY <1>1, <1>6 DEF HeadLen
  <2>3. TableAt >= 0
    BY <1>1
  <2>4. Value(bytes[Len(bytes)]) = SeekableMagic
    BY <1>4, <1>6
  <2>5. QED
    BY <1>4, <1>7, <1>8, <1>9, <1>10, <1>13, <1>15, <2>1, <2>2, <2>3, <2>4 DEF IsTable
<1>17. QED
  BY <1>14, <1>16

LEMMA SpansCounted ==
    ASSUME TypeOK
    PROVE  Len(WholeSpans) = Len(sizes) /\ DOMAIN WholeSpans = 1..Len(sizes)
<1> DEFINE n == Len(sizes)
           spans == WholeSpans
<1>1. n \in Nat
  BY SizesFacts
<1>2. IsTuple(spans, n) /\ DOMAIN spans = 1..n
  BY DEF IsTuple, WholeSpans
<1> HIDE DEF n, spans
<1>3. Len(spans) = n
  <2>1. \A k \in 1..n : spans[k] \in {spans[i] : i \in 1..n}
    OBVIOUS
  <2>2. QED
    BY <1>1, <1>2, <2>1, TupleFacts
<1>4. QED
  BY <1>2, <1>3 DEF n, spans

\* The frame of the index is all there, and short enough.
IndexIntact(bytes) ==
    LET n == Len(sizes)
    IN  /\ n = Len(entries) + 1
        /\ Slice(bytes, WholeSpans[n]) = Frame(n, sizes[n]) /\ sizes[n].raw <= MaxRaw

\* With the frame of the index, the manifest is read.
LEMMA ManifestReads ==
    ASSUME TypeOK, IndexInv, NEW bytes, AsWritten(bytes), version = FormatVersion,
           IndexIntact(bytes)
    PROVE  Parse(bytes) = [ok |-> TRUE, index |-> entries, frames |-> WholeSpans]
<1> DEFINE n == Len(sizes)
<1>1. Len(entries) \in Nat /\ n = Len(entries) + 1
  <2>1. Len(entries) \in Nat
    BY DEF IndexInv
  <2>2. n = Len(entries) + 1
    BY DEF IndexIntact
  <2>3. QED
    BY <2>1, <2>2
<1>2. n \in 1..n /\ n \in Nat /\ n # 0
  <2> HIDE DEF n
  <2>1. QED
    BY <1>1
<1>3. Locate(bytes) = [ok |-> TRUE, spans |-> WholeSpans]
  BY TableReads, LocateIs
<1>4. Len(WholeSpans) = n /\ DOMAIN WholeSpans = 1..n /\ n \in Nat
  BY <1>2, SpansCounted
<1>5. ASSUME NEW i \in 1..n
      PROVE  Inside(WholeSpans[i], bytes)
  <2>1. /\ FrameEnds[i] = FrameEnds[i - 1] + sizes[i].len /\ FrameEnds[i] \in Nat
        /\ AddsUp(FrameEnds, FrameLens, n) /\ TableAt = FrameEnds[n] /\ TableAt \in Nat
    BY SizesFacts DEF TableAt
  <2>2. i \in 0..n /\ n \in i..n
    BY <1>4
  <2>3. FrameEnds[i] <= TableAt
    BY <1>4, <2>1, <2>2, SumsGrow
  <2>4. Len(bytes) = TableAt + 2 * n + 5
    BY WholeLaid DEF AsWritten
  <2>5. WholeSpans[i].start + WholeSpans[i].len = FrameEnds[i]
    BY <2>1 DEF WholeSpans
  <2>6. QED
    BY <1>4, <2>1, <2>3, <2>4, <2>5 DEF Inside
<1>6. WholeSpans # <<>> /\ Last(WholeSpans) = WholeSpans[n]
  <2> DEFINE spans == WholeSpans
  <2>1. Len(spans) = n /\ n # 0 /\ Len(<<>>) = 0
    BY <1>2, <1>4, EmptySeq
  <2> HIDE DEF spans, n
  <2>2. spans # <<>> /\ Last(spans) = spans[n]
    BY <2>1 DEF Last
  <2>3. QED
    BY <2>2 DEF spans
<1>7. DecodeIndex(Slice(bytes, WholeSpans[n])) = FromJson(Document(n))
  <2>1. Decode(Slice(bytes, WholeSpans[n])) = [ok |-> TRUE, line |-> n, raw |-> sizes[n].raw]
    BY <1>2, FrameDecodes DEF IndexIntact
  <2>2. QED
    BY <2>1 DEF DecodeIndex
<1>8. FromJson(Document(n)).ok /\ FromJson(Document(n)).index = entries
  <2>1. EntriesMade
    BY DEF IndexInv, EntriesMade
  <2> HIDE DEF n
  <2>2. QED
    BY <1>1, <1>2, <2>1, IndexReads
<1>9. Len(entries) = Len(WholeSpans) - 1
  BY <1>1, <1>4
<1>10. QED
  <2> DEFINE spans == WholeSpans
             last == Last(spans)
             index == DecodeIndex(Slice(bytes, last))
  <2>1. index.ok /\ index.index = entries
    BY <1>6, <1>7, <1>8
  <2>2. /\ \A i \in DOMAIN spans : Inside(spans[i], bytes)
        /\ spans # <<>> /\ Len(entries) = Len(spans) - 1
        /\ Locate(bytes) = [ok |-> TRUE, spans |-> spans]
    BY <1>3, <1>4, <1>5, <1>6, <1>9
  <2>3. Parse(bytes) = [ok |-> TRUE, index |-> index.index, frames |-> spans]
    <3>1. Locate(bytes).ok /\ Locate(bytes).spans = spans
      BY <2>2
    <3>2. Len(index.index) = Len(spans) - 1
      BY <2>1, <2>2
    <3> HIDE DEF spans
    <3>3. QED
      BY <2>1, <2>2, <3>1, <3>2 DEF Parse
  <2>4. QED
    BY <2>1, <2>3

\* With its frame, a part is read.
LEMMA PartReads ==
    ASSUME TypeOK, IndexInv, NEW bytes, NEW file, file.index = entries, file.frames = WholeSpans,
           NEW k \in DOMAIN entries, k \in 1..Len(sizes),
           Slice(bytes, WholeSpans[k]) = Frame(k, sizes[k]), sizes[k].raw <= MaxRaw
    PROVE  PartJson(file, bytes, k).ok /\ PartJson(file, bytes, k).line = k
<1>1. Decode(Slice(bytes, WholeSpans[k])) = [ok |-> TRUE, line |-> k, raw |-> sizes[k].raw]
  BY FrameDecodes
<1>2. WholeSpans[k].raw = sizes[k].raw
  BY DEF WholeSpans
<1>3. k <= Len(entries)
  BY DEF IndexInv
<1>4. QED
  BY <1>1, <1>2, <1>3 DEF PartJson

\* The whole file has every frame at its place.
LEMMA WholeSlices ==
    ASSUME TypeOK
    PROVE  /\ AsWritten(WholeFile)
           /\ \A k \in 1..Len(sizes) : Slice(WholeFile, WholeSpans[k]) = Frame(k, sizes[k])
<1>1. AsWritten(WholeFile)
  BY WholeLaid DEF AsWritten
<1>2. ASSUME NEW k \in 1..Len(sizes)
      PROVE  Slice(WholeFile, WholeSpans[k]) = Frame(k, sizes[k])
  <2> DEFINE start == FrameEnds[k - 1]
             l == sizes[k].len
             span == WholeSpans[k]
             slice == Slice(WholeFile, span)
             frame == Frame(k, sizes[k])
  <2>1. start \in Nat /\ l \in Nat /\ span.start = start /\ span.len = l /\ k \in Nat
    BY SizesFacts DEF WholeSpans
  <2>2. start + l <= Len(WholeFile) /\ WholeFile \in Seq(Cell)
    <3>1. /\ FrameEnds[k] = start + l /\ FrameEnds[k] \in Nat /\ Len(sizes) \in Nat
          /\ AddsUp(FrameEnds, FrameLens, Len(sizes)) /\ TableAt = FrameEnds[Len(sizes)]
          /\ TableAt \in Nat
      BY SizesFacts DEF TableAt
    <3>2. k \in 0..Len(sizes) /\ Len(sizes) \in k..Len(sizes)
      BY <3>1
    <3>3. FrameEnds[k] <= TableAt
      BY <3>1, <3>2, SumsGrow
    <3>4. Len(WholeFile) = TableAt + 2 * Len(sizes) + 5 /\ WholeFile \in Seq(Cell)
      BY WholeLaid
    <3>5. QED
      BY <3>1, <3>3, <3>4
  <2>3. \A i \in 1..l : WholeFile[start + i] = Byte(k, i)
    BY WholeLaid
  <2>4. /\ frame \in Seq(Cell) /\ Len(frame) = l /\ \A i \in 1..l : frame[i] = Byte(k, i)
    BY <2>1, FrameFacts
  <2> HIDE DEF start, l, span, frame
  <2>5. /\ slice \in Seq(Cell) /\ Len(slice) = l /\ \A i \in 1..l : slice[i] = WholeFile[start + i]
    BY <2>1, <2>2, SliceFacts
  <2> HIDE DEF slice
  <2>6. slice = frame
    BY <2>3, <2>4, <2>5, SeqEqual
  <2>7. QED
    BY <2>6 DEF slice, frame, span
<1>3. QED
  BY <1>1, <1>2

\* One cell of the whole file is another number, at p.
DamagedAt(bytes, p) ==
    /\ bytes \in Seq(Cell) /\ Len(bytes) = Len(WholeFile) /\ p \in 1..Len(WholeFile)
    /\ bytes[p] = Number(Value(bytes[p]))
    /\ \A q \in 1..Len(WholeFile) \ {p} : bytes[q] = WholeFile[q]

LEMMA DamagedPlaced ==
    ASSUME TypeOK, NEW bytes, NEW p, DamagedAt(bytes, p)
    PROVE  Placed(bytes)
<1>1. Len(WholeFile) \in Nat
  BY WholeLaid, LenProperties
<1>2. Value(bytes[p]) \in Nat
  <2>1. bytes[p] \in Cell
    BY ElementOfSeq DEF DamagedAt
  <2>2. QED
    BY <2>1, ValueType
<1>3. ASSUME NEW q \in 1..Len(bytes), NEW k \in Nat, NEW i \in Nat, bytes[q] = Byte(k, i)
      PROVE  WholeFile[q] = Byte(k, i)
  <2>1. CASE q = p
    <3>1. Byte(k, i) = Number(Value(bytes[p]))
      BY <1>3, <2>1 DEF DamagedAt
    <3>2. QED
      BY <1>2, <3>1, CellFacts
  <2>2. CASE q # p
    BY <1>3, <2>2 DEF DamagedAt
  <2>3. QED
    BY <2>1, <2>2
<1>4. QED
  BY <1>1, <1>3 DEF Placed, DamagedAt

\* A length in the table that is not as written would move the table.
LEMMA DamagedLens ==
    ASSUME TypeOK, NEW bytes, NEW p, DamagedAt(bytes, p), IsTable(bytes), Len(sizes) > 0,
           RowCount(bytes) = Len(sizes), Table(bytes) = TableAt
    PROVE  \A i \in 0..Len(sizes) : Ends(RowLens(bytes))[i] = FrameEnds[i]
<1> DEFINE n == Len(sizes)
           e == EntrySize(bytes)
           lens == RowLens(bytes)
           at(k) == TableAt + 2 + 2 * (k - 1) + 1
<1>1. /\ n \in Nat /\ n > 0 /\ TableAt \in Nat /\ TableAt = FrameEnds[n]
      /\ AddsUp(FrameEnds, FrameLens, n)
      /\ \A k \in 1..n : FrameLens[k] = sizes[k].len /\ sizes[k].len \in Nat
  BY SizesFacts DEF TableAt
<1>2. Len(WholeFile) = TableAt + 2 * n + 5
  BY WholeLaid
<1>3. /\ e \in {2, 3} /\ Len(bytes) = TableAt + n * e + 5
      /\ AddsUp(Ends(lens), lens, n) /\ Ends(lens)[n] = TableAt
  BY TableFacts DEF DamagedAt
<1>4. e = 2
  <2>1. Len(bytes) = TableAt + 2 * n + 5
    BY <1>2 DEF DamagedAt
  <2> HIDE DEF n, e
  <2>2. e = 3 => n * e = 3 * n
    BY <1>1
  <2>3. QED
    BY <1>1, <1>3, <2>1, <2>2
<1>5. ASSUME NEW k \in 1..n, at(k) # p
      PROVE  lens[k] = FrameLens[k]
  <2>1. at(k) \in 1..Len(WholeFile)
    <3> HIDE DEF n
    <3>1. QED
      BY <1>1, <1>2
  <2>2. bytes[at(k)] = WholeFile[at(k)]
    BY <1>5, <2>1 DEF DamagedAt
  <2>3. WholeFile[at(k)] = Number(sizes[k].len)
    BY WholeLaid
  <2>4. FieldOf(bytes, k, 1) = Value(bytes[at(k)])
    <3>1. Table(bytes) + HeadLen + (k - 1) * e + 1 = at(k)
      <4> HIDE DEF n, e
      <4>1. QED
        BY <1>1, <1>4 DEF HeadLen
    <3>2. QED
      BY <3>1 DEF FieldOf
  <2>5. lens[k] = FieldOf(bytes, k, 1)
    BY DEF RowLens
  <2>6. Value(Number(sizes[k].len)) = sizes[k].len
    BY <1>1, CellFacts
  <2>7. QED
    BY <1>1, <2>2, <2>3, <2>4, <2>5, <2>6
<1>6. PICK j \in Nat : \A k \in 1..n : k # j => lens[k] = FrameLens[k]
  <2> HIDE DEF lens
  <2>1. CASE \E k \in 1..n : at(k) = p
    <3>1. PICK j \in 1..n : at(j) = p
      BY <2>1
    <3>2. \A k \in 1..n : k # j => at(k) # p
      <4> HIDE DEF n
      <4>1. QED
        BY <1>1, <3>1
    <3>3. j \in Nat
      BY <1>1
    <3> HIDE DEF at
    <3>4. QED
      BY <1>5, <3>2, <3>3
  <2>2. CASE ~\E k \in 1..n : at(k) = p
    <3> HIDE DEF at
    <3>1. \A k \in 1..n : k # 0 => lens[k] = FrameLens[k]
      BY <1>5, <2>2
    <3>2. QED
      BY <3>1
  <2>3. QED
    BY <2>1, <2>2
<1>7. \A k \in 1..n : lens[k] = FrameLens[k]
  <2> DEFINE ends == Ends(lens)
  <2>1. AddsUp(ends, lens, n) /\ AddsUp(FrameEnds, FrameLens, n) /\ n \in Nat
    BY <1>1, <1>3
  <2> HIDE DEF n, lens, ends
  <2>2. \A i \in 0..n : ends[i] = FrameEnds[i] + IF j \in 1..i THEN lens[j] - FrameLens[j] ELSE 0
    BY <1>6, <2>1, SumsCompared
  <2>3. n \in 0..n /\ ends[n] = TableAt /\ FrameEnds[n] = TableAt
    BY <1>1, <1>3 DEF ends
  <2>4. j \in 1..n => lens[j] = FrameLens[j]
    <3> SUFFICES ASSUME j \in 1..n
                 PROVE  lens[j] = FrameLens[j]
      OBVIOUS
    <3>1. lens[j] \in Nat /\ FrameLens[j] \in Nat
      BY <2>1 DEF AddsUp
    <3>2. TableAt = TableAt + (lens[j] - FrameLens[j])
      BY <2>2, <2>3
    <3> DEFINE x == lens[j]
               y == FrameLens[j]
    <3>3. x \in Nat /\ y \in Nat /\ TableAt \in Nat /\ TableAt = TableAt + (x - y)
      BY <1>1, <3>1, <3>2
    <3> HIDE DEF x, y
    <3>4. x = y
      BY <3>3
    <3>5. QED
      BY <3>4 DEF x, y
  <2>5. QED
    BY <1>6, <2>4
<1>8. QED
  <2> DEFINE ends == Ends(lens)
  <2>1. AddsUp(ends, lens, n) /\ AddsUp(FrameEnds, FrameLens, n) /\ n \in Nat
    BY <1>1, <1>3
  <2> HIDE DEF n, lens, ends
  <2>2. \A i \in 0..n : ends[i] = FrameEnds[i]
    BY <1>7, <2>1, SumsAgree
  <2>3. QED
    BY <2>2 DEF n, lens, ends

\* What is read of a damaged file is as it was written.
LEMMA DamageRead ==
    ASSUME TypeOK, IndexInv, NEW bytes, NEW p, DamagedAt(bytes, p), Parse(bytes).ok,
           NEW k \in DOMAIN entries, PartJson(Parse(bytes), bytes, k).ok
    PROVE  PartJson(Parse(bytes), bytes, k).line = k
<1> DEFINE n == Len(sizes)
           span == RowSpans(bytes)[k]
           m == Decode(Slice(bytes, span)).line
<1>1. Placed(bytes) /\ bytes \in Seq(Cell)
  BY DamagedPlaced DEF Placed
<1>2. /\ Parse(bytes).index = entries /\ n = Len(entries) + 1
      /\ RowCount(bytes) = n /\ Table(bytes) = TableAt
  BY <1>1, ParseFinds
<1>3. /\ IsTable(bytes) /\ Parse(bytes).frames = RowSpans(bytes)
      /\ \A i \in DOMAIN RowSpans(bytes) : Inside(RowSpans(bytes)[i], bytes)
      /\ DOMAIN RowSpans(bytes) = 1..n
  <2>1. /\ IsTable(bytes) /\ Parse(bytes).frames = RowSpans(bytes)
        /\ \A i \in DOMAIN RowSpans(bytes) : Inside(RowSpans(bytes)[i], bytes)
    BY ParseFacts
  <2>2. QED
    BY <1>1, <1>2, <2>1, TableFacts
<1>4. k \in 1..n /\ n \in Nat /\ n > 0
  <2>1. Len(entries) \in Nat /\ DOMAIN entries = 1..Len(entries)
    BY DEF IndexInv
  <2> HIDE DEF n
  <2>2. QED
    BY <1>2, <2>1
<1>5. span.start = FrameEnds[k - 1]
  <2>1. \A i \in 0..n : Ends(RowLens(bytes))[i] = FrameEnds[i]
    BY <1>2, <1>3, <1>4, DamagedLens
  <2>2. k - 1 \in 0..n
    <3> HIDE DEF n
    <3>1. QED
      BY <1>4
  <2>3. QED
    BY <1>1, <1>2, <1>3, <1>4, <2>1, <2>2, SpanFacts
<1>6. /\ Decode(Slice(bytes, span)).ok
      /\ PartJson(Parse(bytes), bytes, k).line = m
  <2> DEFINE decoded == Decode(Slice(bytes, span))
  <2>1. PartJson(Parse(bytes), bytes, k) =
          IF /\ k <= Len(Parse(bytes).index) /\ decoded.ok /\ span.raw = decoded.raw
          THEN decoded ELSE Refused
    BY <1>3 DEF PartJson
  <2> HIDE DEF decoded
  <2>2. decoded.ok /\ PartJson(Parse(bytes), bytes, k) = decoded
    BY <2>1 DEF Refused
  <2>3. QED
    BY <2>2 DEF decoded
<1>7. m \in 1..n /\ span.start = FrameEnds[m - 1]
  <2>1. span.start \in Nat /\ span.len \in Nat /\ Inside(span, bytes)
    BY <1>1, <1>2, <1>3, <1>4, SpanFacts
  <2> HIDE DEF span
  <2>2. QED
    BY <1>1, <1>6, <2>1, SpanDecodes
<1> HIDE DEF m, span
<1>8. m = k
  <2>1. /\ AddsUp(FrameEnds, FrameLens, n)
        /\ FrameLens[k] \in Nat \ {0} /\ FrameLens[m] \in Nat \ {0}
    <3>1. AddsUp(FrameEnds, FrameLens, n)
      BY SizesFacts
    <3>2. \A i \in 1..n : FrameLens[i] = sizes[i].len /\ sizes[i].len \in Nat \ {0}
      BY SizesFacts
    <3> HIDE DEF n
    <3>3. QED
      BY <1>4, <1>7, <3>1, <3>2
  <2> HIDE DEF n
  <2>2. 1 \in 1..FrameLens[k] /\ 1 \in 1..FrameLens[m] /\ FrameEnds[k - 1] + 1 = FrameEnds[m - 1] + 1
    BY <1>5, <1>7, <2>1
  <2>3. QED
    BY <1>4, <1>7, <2>1, <2>2, PlaceIsInNoOther
<1>9. QED
  BY <1>6, <1>8

-----------------------------------------------------------------------------
(* Writing keeps the invariant.                                            *)

\* The pieces of a sequence make it up again.
LEMMA PiecesJoin ==
    ASSUME NEW S, NEW s \in Seq(S), NEW n \in 0..Len(s)
    PROVE  /\ SubSeq(s, 1, n) \in Seq(S) /\ SubSeq(s, n + 1, Len(s)) \in Seq(S)
           /\ Len(SubSeq(s, 1, n)) = n
           /\ SubSeq(s, 1, n) \o SubSeq(s, n + 1, Len(s)) = s
<1>1. Len(s) \in Nat /\ n \in Nat
  BY LenProperties
<1>2. SubSeq(s, 1, n) \in Seq(S) /\ Len(SubSeq(s, 1, n)) = n
  BY <1>1
<1>3. SubSeq(s, n + 1, Len(s)) \in Seq(S)
  BY <1>1
<1>4. 1 \in 1..(Len(s) + 1) /\ n \in (1 - 1)..Len(s) /\ Len(s) \in n..Len(s)
  BY <1>1
<1> DEFINE a == SubSeq(s, 1, n)
           b == SubSeq(s, n + 1, Len(s))
           all == SubSeq(s, 1, Len(s))
<1>5. a \o b = all
  BY <1>4, ConcatAdjacentSubSeq
<1>6. all = s
  BY SubSeqFull
<1>7. a \o b = s
  <2> HIDE DEF a, b, all
  <2>1. QED
    BY <1>5, <1>6
<1>8. QED
  BY <1>2, <1>3, <1>7

Regrouped(a, b, c) == (a \o b) \o c = a \o (b \o c)

LEMMA Regroup ==
    ASSUME NEW S, NEW a \in Seq(S), NEW b \in Seq(S), NEW c \in Seq(S)
    PROVE  Regrouped(a, b, c)
BY ConcatAssociative DEF Regrouped

\* The start of the first is the start of both.
LEMMA StartOfBoth ==
    ASSUME NEW a \in Seq(Cell), NEW b \in Seq(Cell), NEW n \in 0..Len(a)
    PROVE  n \in 0..Len(a \o b) /\ SubSeq(a \o b, 1, n) = SubSeq(a, 1, n)
<1> DEFINE both == a \o b
           first == SubSeq(a, 1, n)
           same == SubSeq(both, 1, n)
<1>1. Len(a) \in Nat /\ Len(b) \in Nat
  BY LenProperties
<1>2. both \in Seq(Cell) /\ Len(both) = Len(a) + Len(b) /\ \A i \in 1..Len(a) : both[i] = a[i]
  <2>1. CellsJoined(a, b, Len(a), Len(b))
    BY <1>1, CellConcat
  <2>2. QED
    BY <2>1 DEF CellsJoined
<1> HIDE DEF both
<1>3. first \in Seq(Cell) /\ Len(first) = n /\ \A i \in 1..n : first[i] = a[i]
  BY <1>1
<1>4. same \in Seq(Cell) /\ Len(same) = n /\ \A i \in 1..n : same[i] = both[i]
  BY <1>1, <1>2
<1>5. n \in 0..Len(both)
  BY <1>1, <1>2
<1> HIDE DEF first, same
<1>6. \A i \in 1..n : first[i] = same[i]
  BY <1>1, <1>2, <1>3, <1>4
<1>7. first = same
  BY <1>3, <1>4, <1>6, SeqEqual
<1>8. QED
  BY <1>5, <1>7 DEF first, same, both

\* A frame more comes behind the frames there are.
LEMMA SinkFrames ==
    ASSUME TypeOK, NEW size \in Size, Sink(size)
    PROVE  /\ sizes' \in Seq(Size) /\ pending' \in Seq(Cell)
           /\ Len(sizes') = Len(sizes) + 1
           /\ Frames \in Seq(Cell) /\ Frames' = Frames \o pending'
<1> DEFINE n == Len(sizes)
           seqs == [k \in DOMAIN sizes |-> Frame(k, sizes[k])]
           more == [k \in DOMAIN sizes' |-> Frame(k, sizes'[k])]
           frame == Frame(n + 1, size)
<1>1. n \in Nat /\ DOMAIN sizes = 1..n /\ \A k \in 1..n : sizes[k].len \in Nat
  BY SizesFacts
<1>2. /\ sizes' \in Seq(Size) /\ Len(sizes') = n + 1
      /\ \A k \in 1..n : sizes'[k] = sizes[k]
      /\ sizes'[n + 1] = size /\ DOMAIN sizes' = 1..(n + 1)
  BY AppendProperties, LenProperties DEF Sink, TypeOK
<1>3. pending' = frame
  BY <1>2 DEF Sink
<1>4. frame \in Seq(Cell)
  <2>1. size.len \in Nat
    BY FileAssumption DEF Size
  <2>2. n + 1 \in Nat
    BY <1>1
  <2>3. QED
    BY <2>1, <2>2, FrameFacts
<1>5. seqs \in Seq(Seq(Cell)) /\ Len(seqs) = n
  <2>1. \A k \in 1..n : Frame(k, sizes[k]) \in Seq(Cell)
    BY <1>1, FrameFacts
  <2>2. QED
    BY <1>1, <2>1
<1>6. more = Append(seqs, frame)
  <2>1. /\ Append(seqs, frame) \in Seq(Seq(Cell)) /\ Len(Append(seqs, frame)) = n + 1
        /\ \A k \in 1..n : Append(seqs, frame)[k] = seqs[k]
        /\ Append(seqs, frame)[n + 1] = frame
    <3> HIDE DEF seqs, frame
    <3>1. QED
      BY <1>4, <1>5, AppendProperties
  <2>2. \A k \in 1..n : more[k] = seqs[k]
    BY <1>1, <1>2
  <2>3. more[n + 1] = frame /\ more = [k \in 1..(n + 1) |-> more[k]]
    BY <1>1, <1>2
  <2>4. Append(seqs, frame) = [k \in 1..(n + 1) |-> Append(seqs, frame)[k]]
    <3> DEFINE s == Append(seqs, frame)
    <3>1. s \in Seq(Seq(Cell)) /\ Len(s) = n + 1
      BY <2>1
    <3> HIDE DEF s, n
    <3>2. s = [k \in 1..(n + 1) |-> s[k]]
      BY <3>1
    <3>3. QED
      BY <3>2 DEF s
  <2> HIDE DEF seqs, more, frame, n
  <2>5. \A k \in 1..(n + 1) : more[k] = Append(seqs, frame)[k]
    <3>1. \A k \in 1..(n + 1) : k \in 1..n \/ k = n + 1
      BY <1>1
    <3>2. QED
      BY <2>1, <2>2, <2>3, <3>1
  <2>6. QED
    BY <2>3, <2>4, <2>5
<1>7. FlattenSeq(more) = FlattenSeq(seqs) \o frame
  <2> HIDE DEF seqs, frame, more
  <2>1. QED
    BY <1>4, <1>5, <1>6, FlattenAppend
<1>8. Frames = FlattenSeq(seqs) /\ Frames' = FlattenSeq(more)
  BY DEF Frames
<1>9. QED
  BY <1>2, <1>3, <1>4, <1>7, <1>8, FramesLaid

LEMMA InitKeeps ==
    ASSUME Init
    PROVE  IInv
<1>1. <<>> \in Seq(Cell) /\ <<>> \in Seq(Size) /\ Len(<<>>) = 0 /\ DOMAIN <<>> = 1..0
  BY EmptySeq
<1>2. TypeOK
  BY <1>1 DEF Init, TypeOK, FormatVersion
<1>3. IndexInv
  <2>1. <<>> = [k \in 1..0 |-> Entry(k)]
    OBVIOUS
  <2>2. QED
    BY <1>1, <2>1 DEF Init, IndexInv
<1>4. StreamInv
  <2>1. [k \in DOMAIN sizes |-> Frame(k, sizes[k])] = <<>>
    BY <1>1 DEF Init
  <2>2. FlattenSeq(<<>>) = <<>>
    BY <1>1 DEF FlattenSeq
  <2>3. Frames = <<>>
    BY <2>1, <2>2 DEF Frames
  <2>4. <<>> \o <<>> = <<>>
    BY <1>1, ConcatEmptySeq
  <2>5. QED
    BY <1>1, <2>3, <2>4 DEF Init, StreamInv
<1>5. QED
  BY <1>2, <1>3, <1>4 DEF IInv

\* An entry more keeps the entries as they are made.
LEMMA EntryAdded ==
    ASSUME EntriesMade, entries' = Append(entries, Entry(Len(entries) + 1))
    PROVE  EntriesMade' /\ Len(entries') = Len(entries) + 1
<1> DEFINE n == Len(entries)
           E == {Entry(k) : k \in Nat}
<1>1. n \in Nat /\ DOMAIN entries = 1..n /\ entries = [k \in 1..n |-> Entry(k)]
  BY DEF EntriesMade
<1>2. entries \in Seq(E) /\ Entry(n + 1) \in E
  BY <1>1
<1> HIDE DEF E
<1>3. /\ entries' \in Seq(E) /\ Len(entries') = n + 1
      /\ \A k \in 1..n : entries'[k] = entries[k]
      /\ entries'[n + 1] = Entry(n + 1)
  BY <1>2, AppendProperties
<1>4. \A k \in 1..n : entries[k] = Entry(k)
  BY <1>1
<1> HIDE DEF n
<1>5. \A k \in 1..(n + 1) : entries'[k] = Entry(k)
  <2>1. \A k \in 1..(n + 1) : k \in 1..n \/ k = n + 1
    BY <1>1
  <2>2. QED
    BY <1>3, <1>4, <2>1
<1>6. DOMAIN entries' = 1..(n + 1) /\ n + 1 \in Nat /\ entries' = [k \in DOMAIN entries' |-> entries'[k]]
  BY <1>1, <1>3
<1>7. entries' = [k \in DOMAIN entries' |-> Entry(k)]
  BY <1>5, <1>6
<1>8. QED
  BY <1>3, <1>6, <1>7 DEF EntriesMade, n

\* A frame more in the stream, which has all the frames before it.
LEMMA SinkKeeps ==
    ASSUME IInv, pc = "frames", NEW l \in Lens, NEW r \in RawLens, Sink([len |-> l, raw |-> r])
    PROVE  /\ sizes' \in Seq(Size) /\ pending' \in Seq(Cell)
           /\ Len(sizes') = Len(sizes) + 1 /\ out \o pending' = Frames'
<1>1. [len |-> l, raw |-> r] \in Size
  BY DEF Size
<1>2. /\ sizes' \in Seq(Size) /\ pending' \in Seq(Cell) /\ Len(sizes') = Len(sizes) + 1
      /\ Frames' = Frames \o pending'
  BY <1>1, SinkFrames DEF IInv
<1>3. out = Frames
  <2>1. out \o <<>> = Frames
    BY DEF IInv, StreamInv, Sink
  <2>2. QED
    BY <2>1, ConcatEmptySeq DEF IInv, TypeOK
<1>4. QED
  BY <1>2, <1>3

LEMMA PartKeeps ==
    ASSUME IInv, PartFrame
    PROVE  IInv'
<1>1. PICK l \in Lens, r \in RawLens : Sink([len |-> l, raw |-> r])
  BY DEF PartFrame
<1>2. /\ sizes' \in Seq(Size) /\ pending' \in Seq(Cell)
      /\ Len(sizes') = Len(sizes) + 1 /\ out \o pending' = Frames'
  BY <1>1, SinkKeeps DEF PartFrame
<1>3. Len(sizes) = Len(entries) /\ EntriesMade
  BY DEF IInv, IndexInv, EntriesMade, PartFrame
<1>4. EntriesMade' /\ Len(entries') = Len(entries) + 1
  <2>1. entries' = Append(entries, Entry(Len(entries) + 1))
    BY <1>2, <1>3 DEF PartFrame
  <2>2. QED
    BY <1>3, <2>1, EntryAdded
<1>5. TypeOK'
  BY <1>2 DEF IInv, TypeOK, PartFrame
<1>6. IndexInv'
  BY <1>2, <1>3, <1>4 DEF IndexInv, EntriesMade, PartFrame
<1>7. StreamInv'
  BY <1>2 DEF IInv, StreamInv, PartFrame
<1>8. QED
  BY <1>5, <1>6, <1>7 DEF IInv

LEMMA IndexKeeps ==
    ASSUME IInv, IndexFrame
    PROVE  IInv'
<1>1. PICK l \in Lens, r \in RawLens : Sink([len |-> l, raw |-> r])
  BY DEF IndexFrame
<1>2. /\ sizes' \in Seq(Size) /\ pending' \in Seq(Cell)
      /\ Len(sizes') = Len(sizes) + 1 /\ out \o pending' = Frames'
  BY <1>1, SinkKeeps DEF IndexFrame
<1>3. TypeOK'
  BY <1>2 DEF IInv, TypeOK, IndexFrame
<1>4. IndexInv'
  BY <1>2 DEF IInv, IndexInv, IndexFrame
<1>5. StreamInv'
  BY <1>2 DEF IInv, StreamInv, IndexFrame
<1>6. QED
  BY <1>3, <1>4, <1>5 DEF IInv

LEMMA WriteKeeps ==
    ASSUME IInv, Write
    PROVE  IInv'
<1>1. PICK n \in 1..Len(pending) :
         /\ out' = out \o SubSeq(pending, 1, n)
         /\ len' = len + n
         /\ pending' = SubSeq(pending, n + 1, Len(pending))
  BY DEF Write, Count
<1> DEFINE taken == SubSeq(pending, 1, n)
           left == SubSeq(pending, n + 1, Len(pending))
<1>2. /\ taken \in Seq(Cell) /\ left \in Seq(Cell) /\ Len(taken) = n /\ taken \o left = pending
  <2>1. n \in 0..Len(pending) /\ pending \in Seq(Cell)
    BY DEF IInv, TypeOK
  <2>2. QED
    BY <2>1, PiecesJoin
<1> HIDE DEF taken, left
<1>3. out \in Seq(Cell) /\ out' = out \o taken /\ pending' = left /\ Len(out) \in Nat /\ n \in Nat
  BY <1>1, LenProperties DEF IInv, TypeOK, taken, left
<1>4. out' \in Seq(Cell) /\ Len(out') = Len(out) + n
  <2>1. CellsJoined(out, taken, Len(out), n)
    BY <1>2, <1>3, CellConcat
  <2>2. QED
    BY <1>3, <2>1 DEF CellsJoined
<1>5. out' \o pending' = out \o pending
  <2>1. (out \o taken) \o left = out \o (taken \o left)
    <3>1. Regrouped(out, taken, left)
      BY <1>2, <1>3, Regroup
    <3>2. QED
      BY <3>1 DEF Regrouped
  <2>2. QED
    BY <1>2, <1>3, <2>1
<1>6. TypeOK'
  BY <1>1, <1>2, <1>3, <1>4 DEF IInv, TypeOK, Write
<1>7. IndexInv'
  BY DEF IInv, IndexInv, Write
<1>8. Frames' = Frames /\ WholeFile' = WholeFile
  BY DEF Frames, WholeFile, Write
<1>9. pc \in {"frames", "trailer", "flush"} /\ pc' = pc /\ disk' = disk
  BY DEF IInv, TypeOK, StreamInv, Write
<1>10. len' = Len(out')
  BY <1>1, <1>3, <1>4 DEF IInv, StreamInv
<1>11. StreamInv'
  BY <1>5, <1>8, <1>9, <1>10 DEF IInv, StreamInv
<1>12. QED
  BY <1>6, <1>7, <1>11 DEF IInv

LEMMA TrailerKeeps ==
    ASSUME IInv, Trailer
    PROVE  IInv'
<1>1. WholeFile = Frames \o SeekTable(sizes) /\ SeekTable(sizes) \in Seq(Cell)
  BY WholeLaid DEF IInv
<1>2. out = Frames
  <2>1. out \o <<>> = Frames
    BY DEF IInv, StreamInv, Trailer
  <2>2. QED
    BY <2>1, ConcatEmptySeq DEF IInv, TypeOK
<1>3. WholeFile' = WholeFile /\ out' \o pending' = WholeFile
  <2>1. WholeFile' = WholeFile
    BY DEF WholeFile, Trailer
  <2>2. QED
    BY <1>1, <1>2, <2>1 DEF Trailer
<1>4. TypeOK'
  BY <1>1 DEF IInv, TypeOK, Trailer
<1>5. IndexInv'
  BY DEF IInv, IndexInv, Trailer
<1>6. StreamInv'
  BY <1>3 DEF IInv, StreamInv, Trailer
<1>7. QED
  BY <1>4, <1>5, <1>6 DEF IInv

LEMMA FlushKeeps ==
    ASSUME IInv, Flush
    PROVE  IInv'
<1>1. WholeFile' = WholeFile
  BY DEF WholeFile, Flush
<1>2. TypeOK'
  BY DEF IInv, TypeOK, Flush
<1>3. IndexInv'
  BY DEF IInv, IndexInv, Flush
<1>4. StreamInv'
  BY <1>1 DEF IInv, StreamInv, Flush
<1>5. QED
  BY <1>2, <1>3, <1>4 DEF IInv

\* What went through Counting so far is the start of the whole file.
LEMMA OutIsAStart ==
    ASSUME IInv, pc \in {"frames", "trailer", "flush"}, NEW n \in 0..Len(out)
    PROVE  n \in 0..Len(WholeFile) /\ SubSeq(out, 1, n) = SubSeq(WholeFile, 1, n)
<1>1. out \in Seq(Cell) /\ pending \in Seq(Cell) /\ TypeOK
  BY DEF IInv, TypeOK
<1>2. /\ n \in 0..Len(out \o pending)
      /\ SubSeq(out \o pending, 1, n) = SubSeq(out, 1, n)
  BY <1>1, StartOfBoth
<1>3. CASE pc = "flush"
  BY <1>2, <1>3 DEF IInv, StreamInv
<1>4. CASE pc \in {"frames", "trailer"}
  <2>1. /\ WholeFile = Frames \o SeekTable(sizes) /\ SeekTable(sizes) \in Seq(Cell)
        /\ Frames \in Seq(Cell)
    BY <1>1, WholeLaid, FramesLaid
  <2>2. out \o pending = Frames
    BY <1>4 DEF IInv, StreamInv
  <2>3. n \in 0..Len(Frames) /\ SubSeq(Frames, 1, n) = SubSeq(out, 1, n)
    BY <1>2, <2>2
  <2>4. /\ n \in 0..Len(Frames \o SeekTable(sizes))
        /\ SubSeq(Frames \o SeekTable(sizes), 1, n) = SubSeq(Frames, 1, n)
    BY <2>1, <2>3, StartOfBoth
  <2>5. QED
    BY <2>1, <2>3, <2>4
<1>5. QED
  BY <1>3, <1>4

LEMMA StopsKeeps ==
    ASSUME IInv, Stops, pc \in {"frames", "trailer", "flush"}
    PROVE  IInv'
<1>1. PICK n \in 0..Len(out) : disk' = SubSeq(out, 1, n)
  BY DEF Stops
<1>2. n \in 0..Len(WholeFile) /\ disk' = SubSeq(WholeFile, 1, n)
  BY <1>1, OutIsAStart
<1>3. WholeFile' = WholeFile
  BY DEF WholeFile, Stops
<1>4. disk' \in Seq(Cell)
  BY <1>1, PiecesJoin DEF IInv, TypeOK
<1>5. TypeOK'
  <2>1. <<>> \in Seq(Cell)
    BY EmptySeq
  <2>2. QED
    BY <1>4, <2>1 DEF IInv, TypeOK, Stops
<1>6. IndexInv'
  BY DEF IInv, IndexInv, Stops
<1>7. StreamInv'
  BY <1>2, <1>3 DEF IInv, StreamInv, Stops
<1>8. QED
  BY <1>5, <1>6, <1>7 DEF IInv

LEMMA DamageKeeps ==
    ASSUME IInv, Damage
    PROVE  IInv'
<1>1. PICK i \in DOMAIN disk, n \in (0 .. 4) \cup {128, SeekTableMagic, SeekableMagic} :
         disk[i] # Number(n) /\ disk' = [disk EXCEPT ![i] = Number(n)]
  BY DEF Damage
<1>2. n \in Nat
  BY DEF SeekTableMagic, SeekableMagic
<1>3. Number(n) \in Cell /\ Value(Number(n)) = n
  BY <1>2, CellFacts
<1>4. disk \in Seq(Cell) /\ disk = out /\ pending = <<>>
  BY DEF IInv, TypeOK, StreamInv, Damage
<1>5. disk' \in Seq(Cell)
  BY <1>1, <1>3, <1>4
<1>6. TypeOK'
  BY <1>5 DEF IInv, TypeOK, Damage
<1>7. IndexInv'
  BY DEF IInv, IndexInv, Damage
<1>8. OneCellDiffers'
  <2>1. /\ DOMAIN disk' = DOMAIN out /\ i \in DOMAIN out
        /\ disk'[i] = Number(n) /\ out[i] # Number(n)
        /\ \A j \in DOMAIN out \ {i} : disk'[j] = out[j]
    BY <1>1, <1>4
  <2>2. out' = out
    BY DEF Damage
  <2>3. QED
    BY <1>3, <2>1, <2>2 DEF OneCellDiffers
<1>9. WholeFile' = WholeFile
  BY DEF WholeFile, Damage
<1>10. StreamInv'
  BY <1>8, <1>9 DEF IInv, StreamInv, Damage
<1>11. QED
  BY <1>6, <1>7, <1>10 DEF IInv

LEMMA StutterKeeps ==
    ASSUME IInv, UNCHANGED vars
    PROVE  IInv'
<1>1. WholeFile' = WholeFile /\ Frames' = Frames
  BY DEF WholeFile, Frames, vars
<1>2. TypeOK' /\ IndexInv'
  BY DEF IInv, TypeOK, IndexInv, vars
<1>3. OneCellDiffers => OneCellDiffers'
  BY DEF OneCellDiffers, vars
<1>4. StreamInv'
  BY <1>1, <1>3 DEF IInv, StreamInv, vars
<1>5. QED
  BY <1>2, <1>4 DEF IInv

LEMMA NextKeeps ==
    ASSUME IInv, [Next]_vars
    PROVE  IInv'
<1>1. CASE PartFrame
  BY <1>1, PartKeeps
<1>2. CASE IndexFrame
  BY <1>2, IndexKeeps
<1>3. CASE Write
  BY <1>3, WriteKeeps
<1>4. CASE Trailer
  BY <1>4, TrailerKeeps
<1>5. CASE Flush
  BY <1>5, FlushKeeps
<1>6. CASE TrailerTooLarge \/ FramesFail \/ FlushFails \/ Killed
  BY <1>6, StopsKeeps DEF TrailerTooLarge, FramesFail, FlushFails, Killed
<1>7. CASE WriteFails
  <2>1. pc \in {"frames", "trailer", "flush"}
    BY <1>7 DEF WriteFails, IInv, TypeOK, StreamInv
  <2>2. QED
    BY <1>7, <2>1, StopsKeeps DEF WriteFails
<1>8. CASE Damage
  BY <1>8, DamageKeeps
<1>9. CASE UNCHANGED vars
  BY <1>9, StutterKeeps
<1>10. QED
  BY <1>1, <1>2, <1>3, <1>4, <1>5, <1>6, <1>7, <1>8, <1>9 DEF Next

\* What is written is always the start of the whole file (write_file and Counting, file.rs).
THEOREM AlwaysTheStartOfTheFile == Spec => []IInv
<1>1. Init => IInv
  BY InitKeeps
<1>2. IInv /\ [Next]_vars => IInv'
  BY NextKeeps
<1>3. QED
  BY <1>1, <1>2, PTL DEF Spec

-----------------------------------------------------------------------------
(* What is read.                                                           *)

LEMMA WrittenReads ==
    ASSUME IInv
    PROVE  WrittenReadsBack
<1> SUFFICES ASSUME pc = "ok", version = FormatVersion, Decodable
             PROVE  LET file == Parse(disk)
                    IN /\ file.ok
                       /\ file.index = entries
                       /\ len = Len(disk)
                       /\ \A k \in DOMAIN entries :
                            LET part == PartJson(file, disk, k) IN part.ok /\ part.line = k
  BY DEF WrittenReadsBack
<1> DEFINE n == Len(sizes)
<1>1. TypeOK /\ IndexInv
  BY DEF IInv
<1>2. disk = out /\ len = Len(out) /\ out = WholeFile
  <2>1. disk = out /\ len = Len(out) /\ out \o <<>> = WholeFile
    BY DEF IInv, StreamInv
  <2>2. QED
    BY <1>1, <2>1, ConcatEmptySeq DEF TypeOK
<1>3. n = Len(entries) + 1 /\ DOMAIN entries = 1..Len(entries) /\ Len(entries) \in Nat
  BY <1>1 DEF IndexInv
<1>4. n \in 1..n /\ \A k \in DOMAIN entries : k \in 1..n
  <2> HIDE DEF n
  <2>1. QED
    BY <1>3
<1>5. AsWritten(WholeFile) /\ \A k \in 1..n : Slice(WholeFile, WholeSpans[k]) = Frame(k, sizes[k])
  BY <1>1, WholeSlices
<1>6. \A k \in 1..n : sizes[k].raw <= MaxRaw
  BY <1>1, SizesFacts DEF Decodable
<1>7. Parse(WholeFile) = [ok |-> TRUE, index |-> entries, frames |-> WholeSpans]
  <2>1. IndexIntact(WholeFile)
    BY <1>3, <1>4, <1>5, <1>6 DEF IndexIntact
  <2>2. QED
    BY <1>1, <1>5, <2>1, ManifestReads
<1> DEFINE file == Parse(WholeFile)
<1>8. file.ok /\ file.index = entries /\ file.frames = WholeSpans
  BY <1>7
<1> HIDE DEF file
<1>9. \A k \in DOMAIN entries :
         PartJson(file, WholeFile, k).ok /\ PartJson(file, WholeFile, k).line = k
  BY <1>1, <1>4, <1>5, <1>6, <1>8, PartReads
<1>10. QED
  BY <1>2, <1>8, <1>9 DEF file

LEMMA OnlyWholeRead ==
    ASSUME IInv
    PROVE  OnlyWholeFilesAreRead
<1> SUFFICES ASSUME pc # "damaged", Parse(disk).ok
             PROVE  disk = WholeFile /\ version = FormatVersion
  BY DEF OnlyWholeFilesAreRead
<1>1. TypeOK /\ IndexInv /\ WholeFile \in Seq(Cell) /\ Len(WholeFile) \in Nat
  BY WholeLaid, LenProperties DEF IInv
<1>2. \E n \in 0..Len(WholeFile) : disk = SubSeq(WholeFile, 1, n)
  <2>1. CASE pc \in {"frames", "trailer", "flush"}
    <3>1. disk = <<>>
      BY <2>1 DEF IInv, StreamInv
    <3>2. SubSeq(WholeFile, 1, 0) = <<>>
      <4>1. SubSeq(WholeFile, 1, 0) \in Seq(Cell) /\ Len(SubSeq(WholeFile, 1, 0)) = 0
        BY <1>1, PiecesJoin
      <4>2. QED
        BY <4>1, EmptySeq
    <3>3. QED
      BY <1>1, <3>1, <3>2
  <2>2. CASE pc = "ok"
    <3>1. disk = out /\ out \o <<>> = WholeFile
      BY <2>2 DEF IInv, StreamInv
    <3>2. disk = WholeFile
      BY <1>1, <3>1, ConcatEmptySeq DEF TypeOK
    <3>3. SubSeq(WholeFile, 1, Len(WholeFile)) = WholeFile
      BY <1>1, SubSeqFull
    <3>4. Len(WholeFile) \in 0..Len(WholeFile)
      BY <1>1
    <3>5. QED
      BY <3>2, <3>3, <3>4
  <2>3. CASE pc = "failed"
    BY <2>3 DEF IInv, StreamInv
  <2>4. QED
    BY <1>1, <2>1, <2>2, <2>3 DEF TypeOK
<1>3. QED
  BY <1>1, <1>2, PrefixRead

\* The cell that differs, and the frames and entries of a damaged file.
LEMMA DamageFacts ==
    ASSUME IInv, pc = "damaged"
    PROVE  /\ TypeOK /\ IndexInv /\ out = WholeFile /\ len = Len(WholeFile)
           /\ \E p : DamagedAt(disk, p)
<1>1. TypeOK /\ IndexInv /\ WholeFile \in Seq(Cell)
  BY WholeLaid DEF IInv
<1>2. out = WholeFile /\ len = Len(WholeFile)
  <2>1. len = Len(out) /\ out \o <<>> = WholeFile
    BY DEF IInv, StreamInv
  <2>2. QED
    BY <1>1, <2>1, ConcatEmptySeq DEF TypeOK
<1>3. OneCellDiffers
  BY DEF IInv, StreamInv
<1>4. DOMAIN out = 1..Len(WholeFile) /\ Len(disk) = Len(WholeFile) /\ disk \in Seq(Cell)
  <2>1. DOMAIN disk = DOMAIN out /\ disk \in Seq(Cell)
    BY <1>1, <1>3 DEF OneCellDiffers, TypeOK
  <2>2. QED
    BY <1>1, <1>2, <2>1, LenProperties
<1>5. PICK p \in DOMAIN out :
         /\ disk[p] = Number(Value(disk[p]))
         /\ \A j \in DOMAIN out \ {p} : disk[j] = out[j]
  BY <1>3 DEF OneCellDiffers
<1>6. DamagedAt(disk, p)
  BY <1>2, <1>4, <1>5 DEF DamagedAt
<1>7. QED
  BY <1>1, <1>2, <1>6

LEMMA NeverMisread ==
    ASSUME IInv
    PROVE  DamageNeverMisread
<1> SUFFICES ASSUME pc = "damaged", Parse(disk).ok
             PROVE  /\ Parse(disk).index = entries
                    /\ \A k \in DOMAIN entries :
                         PartJson(Parse(disk), disk, k).ok => PartJson(Parse(disk), disk, k).line = k
  BY DEF DamageNeverMisread
<1>1. TypeOK /\ IndexInv
  BY DEF IInv
<1>2. PICK p : DamagedAt(disk, p)
  BY DamageFacts
<1>3. Parse(disk).index = entries
  BY <1>1, <1>2, DamagedPlaced, ParseFinds
<1>4. \A k \in DOMAIN entries :
         PartJson(Parse(disk), disk, k).ok => PartJson(Parse(disk), disk, k).line = k
  BY <1>1, <1>2, DamageRead
<1>5. QED
  BY <1>3, <1>4

LEMMA StaysInItsPart ==
    ASSUME IInv
    PROVE  DamageStaysInItsPart
<1> SUFFICES ASSUME pc = "damaged", version = FormatVersion, Decodable
             PROVE  LET spans == Locate(out).spans
                        Intact(k) == Slice(disk, spans[k]) = Slice(out, spans[k])
                        tableAt == Last(spans).start + Last(spans).len
                        file == Parse(disk)
                    IN Intact(Len(spans))
                       /\ SubSeq(disk, tableAt + 1, len) = SubSeq(out, tableAt + 1, len) =>
                        /\ file.ok
                        /\ \A k \in DOMAIN entries : Intact(k) => PartJson(file, disk, k).ok
  BY DEF DamageStaysInItsPart
<1> DEFINE n == Len(sizes)
           l == Len(WholeFile)
<1>1. TypeOK /\ IndexInv /\ out = WholeFile /\ len = l
  BY DamageFacts
<1>2. disk \in Seq(Cell) /\ Len(disk) = l
  BY DamageFacts DEF DamagedAt
<1>3. n = Len(entries) + 1 /\ DOMAIN entries = 1..Len(entries) /\ Len(entries) \in Nat
  BY <1>1 DEF IndexInv
<1>4. n \in 1..n /\ n \in Nat /\ \A k \in DOMAIN entries : k \in 1..n
  <2> HIDE DEF n
  <2>1. QED
    BY <1>3
<1>5. /\ AsWritten(WholeFile)
      /\ \A k \in 1..n : Slice(WholeFile, WholeSpans[k]) = Frame(k, sizes[k])
  BY <1>1, WholeSlices
<1>6. Locate(WholeFile).spans = WholeSpans
  <2>1. Locate(WholeFile) = [ok |-> TRUE, spans |-> WholeSpans]
    BY <1>1, <1>5, TableReads, LocateIs
  <2>2. QED
    BY <2>1
<1>7. Len(WholeSpans) = n /\ Last(WholeSpans) = WholeSpans[n]
  BY <1>1, SpansCounted DEF Last
<1>8. WholeSpans[n].start + WholeSpans[n].len = TableAt
  <2>1. FrameEnds[n] = FrameEnds[n - 1] + sizes[n].len
    BY <1>1, <1>4, SizesFacts
  <2>2. QED
    BY <1>4, <2>1 DEF WholeSpans, TableAt
<1>9. \A k \in 1..n : sizes[k].raw <= MaxRaw
  BY <1>1, SizesFacts DEF Decodable
<1> SUFFICES ASSUME Slice(disk, WholeSpans[n]) = Slice(WholeFile, WholeSpans[n]),
                    SubSeq(disk, TableAt + 1, l) = SubSeq(WholeFile, TableAt + 1, l)
             PROVE  /\ Parse(disk).ok
                    /\ \A k \in DOMAIN entries :
                         Slice(disk, WholeSpans[k]) = Slice(WholeFile, WholeSpans[k]) =>
                             PartJson(Parse(disk), disk, k).ok
  BY <1>1, <1>6, <1>7, <1>8
<1>10. AsWritten(disk)
  <2>1. TableAt \in Nat /\ l \in Nat /\ l = TableAt + 2 * n + 5
    BY <1>1, SizesFacts, WholeLaid
  <2>2. ASSUME NEW p \in (TableAt + 1)..l
        PROVE  disk[p] = WholeFile[p]
    <3>1. WholeFile \in Seq(Cell)
      BY <1>1, WholeLaid
    <3> DEFINE q == p - TableAt
               whole == WholeFile
    <3> HIDE DEF l, whole
    <3>2. q \in 1..(l - (TableAt + 1) + 1) /\ (TableAt + 1) + q - 1 = p
      BY <2>1
    <3>3. \A i \in (TableAt + 1)..l : disk[i] \in Cell /\ whole[i] \in Cell
      <4>1. \A i \in (TableAt + 1)..l : i \in 1..l
        BY <2>1
      <4>2. QED
        BY <1>2, <3>1, <4>1, ElementOfSeq DEF whole, l
    <3>4. /\ SubSeq(disk, TableAt + 1, l)[q] = disk[(TableAt + 1) + q - 1]
          /\ SubSeq(whole, TableAt + 1, l)[q] = whole[(TableAt + 1) + q - 1]
      <4>1. TableAt + 1 \in Int /\ l \in Int
        BY <2>1
      <4>2. QED
        BY <3>2, <3>3, <4>1, SubSeqProperties
    <3>5. QED
      BY <3>2, <3>4 DEF whole
  <2>3. QED
    BY <1>2, <2>2 DEF AsWritten
<1>11. Slice(disk, WholeSpans[n]) = Frame(n, sizes[n])
  BY <1>4, <1>5
<1>12. Parse(disk) = [ok |-> TRUE, index |-> entries, frames |-> WholeSpans]
  <2>1. IndexIntact(disk)
    BY <1>3, <1>4, <1>9, <1>11 DEF IndexIntact
  <2>2. QED
    BY <1>1, <1>10, <2>1, ManifestReads
<1> DEFINE file == Parse(disk)
<1>13. file.ok /\ file.index = entries /\ file.frames = WholeSpans
  BY <1>12
<1> HIDE DEF file
<1>14. \A k \in DOMAIN entries :
          Slice(disk, WholeSpans[k]) = Slice(WholeFile, WholeSpans[k]) => PartJson(file, disk, k).ok
  BY <1>1, <1>4, <1>5, <1>9, <1>13, PartReads
<1>15. QED
  BY <1>13, <1>14 DEF file

\* A file of this version that write_file finished, with lines short enough to be decoded, reads back:
\* its index, its length and every part (file.rs, "How a read works").
THEOREM WrittenAlwaysReadsBack == Spec => []WrittenReadsBack
BY AlwaysTheStartOfTheFile, WrittenReads, PTL

\* What a failed or killed write leaves is never taken for a manifest, wherever the write stopped,
\* nor is a file of another version (ManifestFile::parse, Zstd::locate).
THEOREM OnlyWholeFilesAreEverRead == Spec => []OnlyWholeFilesAreRead
BY AlwaysTheStartOfTheFile, OnlyWholeRead, PTL

\* Damage to one cell is refused, or changes nothing that is read
\* (tests/zstd.rs, damage_anywhere_is_refused_rather_than_misread).
THEOREM DamageIsNeverMisread == Spec => []DamageNeverMisread
BY AlwaysTheStartOfTheFile, NeverMisread, PTL

\* Damage to the frame of a part costs that part only (ManifestFile::part_json).
THEOREM DamageAlwaysStaysInItsPart == Spec => []DamageStaysInItsPart
BY AlwaysTheStartOfTheFile, StaysInItsPart, PTL
=============================================================================
