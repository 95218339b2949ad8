--------------------------- MODULE AssemblyProofs ---------------------------
(***************************************************************************)
(* Assembly takes the steps of Cut, so what CutProofs proves of the cuts   *)
(* holds of the walk with its rows.  And the rows are right: what waits is *)
(* the rows that Cut counts, a part reads back to its own, and a search of *)
(* the index finds each directory.                                         *)
(***************************************************************************)
EXTENDS AssemblyInv, CutProofs

-----------------------------------------------------------------------------
(* Trees.                                                                  *)

LEMMA TreeRow ==
    ASSUME NEW rs, Tree(rs), NEW p \in 0..(Len(rs) - 1)
    PROVE  /\ Len(rs) \in Nat
           /\ rs[p + 1] \in RowType
           /\ rs[p + 1].depth \in Nat
           /\ rs[p + 1].dir \in BOOLEAN
<1>1. rs \in Seq(RowType)
  BY DEF Tree
<1>2. Len(rs) \in Nat
  BY <1>1, LenProperties
<1>3. p + 1 \in 1..Len(rs)
  BY <1>2
<1>4. rs[p + 1] \in RowType
  BY <1>1, <1>3, ElementOfSeq
<1>5. QED
  BY <1>2, <1>4 DEF RowType

\* A row and the next one.
LEMMA TreeNext ==
    ASSUME NEW rs, Tree(rs), NEW p \in 0..(Len(rs) - 2)
    PROVE  \/ rs[(p + 1) + 1].depth <= rs[p + 1].depth
           \/ rs[p + 1].dir /\ rs[(p + 1) + 1].depth = rs[p + 1].depth + 1
<1>1. Len(rs) \in Nat
  BY LenProperties DEF Tree
<1>2. p + 1 \in 1..(Len(rs) - 1)
  BY <1>1
<1>3. QED
  BY <1>2 DEF Tree

\* The directory of depth k above the row at p has its row at q.
IsAncestor(rs, p, k, q) ==
    /\ q \in 0..(p - 1)
    /\ rs[q + 1].depth = k
    /\ \A r \in (q + 1)..(p - 1) : rs[r + 1].depth > k

LEMMA OneAncestor ==
    ASSUME NEW rs, NEW p \in Nat, NEW k \in Nat, NEW q, IsAncestor(rs, p, k, q)
    PROVE  AncestorIn(rs, p, k) = q
<1> DEFINE A(a) == rs[a + 1].depth = k /\ \A r \in (a + 1)..(p - 1) : rs[r + 1].depth > k
           c == CHOOSE a \in 0..(p - 1) : A(a)
<1>1. q \in 0..(p - 1) /\ A(q)
  BY DEF IsAncestor
<1>2. c \in 0..(p - 1) /\ A(c)
  BY <1>1
<1> HIDE DEF c
<1>3. ~(c < q)
  <2>1. SUFFICES ASSUME c < q PROVE FALSE
    OBVIOUS
  <2>2. q \in (c + 1)..(p - 1)
    BY <1>1, <1>2, <2>1
  <2>3. rs[q + 1].depth > k /\ rs[q + 1].depth = k
    BY <1>1, <1>2, <2>2
  <2>4. QED
    BY <2>3
<1>4. ~(q < c)
  <2>1. SUFFICES ASSUME q < c PROVE FALSE
    OBVIOUS
  <2>2. c \in (q + 1)..(p - 1)
    BY <1>1, <1>2, <2>1
  <2>3. rs[c + 1].depth > k /\ rs[c + 1].depth = k
    BY <1>1, <1>2, <2>2
  <2>4. QED
    BY <2>3
<1>5. c = q
  BY <1>1, <1>2, <1>3, <1>4
<1>6. QED
  BY <1>5 DEF AncestorIn, c

\* Every directory above a row has one.
LEMMA AncestorExists ==
    ASSUME NEW rs, Tree(rs), NEW p \in 0..(Len(rs) - 1), NEW k \in 0..(rs[p + 1].depth - 1)
    PROVE  \E q : IsAncestor(rs, p, k, q) /\ rs[q + 1].dir
<1>1. Len(rs) \in Nat /\ Len(rs) - 1 \in Nat
  BY TreeRow
<1> DEFINE S == {n \in 0..(Len(rs) - 1) : \A j \in 0..(rs[n + 1].depth - 1) :
                     \E q : IsAncestor(rs, n, j, q) /\ rs[q + 1].dir}
<1>2. 0 \in S
  <2>1. rs # <<>> /\ 0 \in 0..(Len(rs) - 1)
    BY <1>1
  <2>2. rs[0 + 1].depth = 0
    BY <2>1 DEF Tree
  <2>3. QED
    BY <2>1, <2>2
<1>3. ASSUME NEW n \in 0..(Len(rs) - 1 - 1), n \in S
      PROVE  n + 1 \in S
  <2>1. n \in 0..(Len(rs) - 2) /\ n + 1 \in 0..(Len(rs) - 1) /\ n \in 0..(Len(rs) - 1)
    BY <1>1
  <2>2. rs[n + 1].depth \in Nat /\ rs[(n + 1) + 1].depth \in Nat
    BY <2>1, TreeRow
  <2>3. ASSUME NEW j \in 0..(rs[(n + 1) + 1].depth - 1)
        PROVE  \E q : IsAncestor(rs, n + 1, j, q) /\ rs[q + 1].dir
    <3>1. CASE j < rs[n + 1].depth
      <4>1. j \in 0..(rs[n + 1].depth - 1)
        BY <2>2, <3>1
      <4>2. PICK q : IsAncestor(rs, n, j, q) /\ rs[q + 1].dir
        BY <1>3, <4>1
      <4>3. q \in 0..((n + 1) - 1)
        BY <2>1, <4>2 DEF IsAncestor
      <4>4. ASSUME NEW r \in (q + 1)..((n + 1) - 1)
            PROVE  rs[r + 1].depth > j
        <5>1. r = n \/ r \in (q + 1)..(n - 1)
          BY <2>1, <4>3
        <5>2. QED
          BY <3>1, <4>2, <5>1, <2>2 DEF IsAncestor
      <4>5. IsAncestor(rs, n + 1, j, q)
        BY <4>2, <4>3, <4>4 DEF IsAncestor
      <4>6. QED
        BY <4>2, <4>5
    <3>2. CASE ~(j < rs[n + 1].depth)
      <4>1. rs[n + 1].dir /\ j = rs[n + 1].depth
        <5> DEFINE deep == rs[n + 1].depth
                   next == rs[(n + 1) + 1].depth
        <5>1. next <= deep \/ (rs[n + 1].dir /\ next = deep + 1)
          BY <2>1, TreeNext
        <5>2. deep \in Nat /\ next \in Nat /\ j \in 0..(next - 1) /\ ~(j < deep)
          BY <2>2, <3>2
        <5> HIDE DEF deep, next
        <5>3. rs[n + 1].dir /\ j = deep
          BY <5>1, <5>2
        <5>4. QED
          BY <5>3 DEF deep
      <4>2. IsAncestor(rs, n + 1, j, n)
        BY <2>1, <4>1 DEF IsAncestor
      <4>3. QED
        BY <4>1, <4>2
    <3>3. QED
      BY <3>1, <3>2
  <2>4. QED
    BY <2>1, <2>3
<1>4. p \in S
  <2> HIDE DEF S
  <2> DEFINE m == Len(rs) - 1
  <2>1. m \in Nat
    BY <1>1
  <2>2. \A n \in 0..(m - 1) : n \in S => n + 1 \in S
    BY <1>3
  <2>3. p \in 0..m
    OBVIOUS
  <2> HIDE DEF m
  <2>4. \A n \in 0..m : n \in S
    BY <1>2, <2>1, <2>2, InductionUpTo
  <2>5. QED
    BY <2>3, <2>4
<1>5. QED
  BY <1>4

LEMMA AncestorFacts ==
    ASSUME NEW rs, Tree(rs), NEW p \in 0..(Len(rs) - 1), NEW k \in 0..(rs[p + 1].depth - 1)
    PROVE  /\ IsAncestor(rs, p, k, AncestorIn(rs, p, k))
           /\ AncestorIn(rs, p, k) \in 0..(p - 1)
           /\ rs[AncestorIn(rs, p, k) + 1].dir
<1>1. rs[p + 1].depth \in Nat /\ p \in Nat /\ k \in Nat
  BY TreeRow
<1>2. PICK q : IsAncestor(rs, p, k, q) /\ rs[q + 1].dir
  BY AncestorExists
<1>3. AncestorIn(rs, p, k) = q
  BY <1>1, <1>2, OneAncestor
<1>4. q \in 0..(p - 1)
  BY <1>2 DEF IsAncestor
<1>5. QED
  BY <1>2, <1>3, <1>4

\* While the rows after p are deeper than k, the directory of depth k above them
\* is the one above p, or the row at p.
LEMMA AncestorAlong ==
    ASSUME NEW rs, Tree(rs), NEW p \in 0..(Len(rs) - 1), NEW q \in (p + 1)..(Len(rs) - 1),
           NEW k \in 0..rs[p + 1].depth, \A r \in (p + 1)..q : rs[r + 1].depth > k
    PROVE  AncestorIn(rs, q, k) = IF k = rs[p + 1].depth THEN p ELSE AncestorIn(rs, p, k)
<1>1. /\ rs[p + 1].depth \in Nat /\ p \in Nat /\ k \in Nat /\ q \in Nat /\ Len(rs) \in Nat
      /\ \A r \in (p + 1)..(q - 1) : rs[r + 1].depth > k
  BY TreeRow
<1>2. CASE k = rs[p + 1].depth
  <2>1. IsAncestor(rs, q, k, p)
    BY <1>1, <1>2 DEF IsAncestor
  <2>2. QED
    BY <1>1, <1>2, <2>1, OneAncestor
<1>3. CASE k # rs[p + 1].depth
  <2> DEFINE a == AncestorIn(rs, p, k)
  <2>1. k \in 0..(rs[p + 1].depth - 1)
    BY <1>1, <1>3
  <2>2. IsAncestor(rs, p, k, a)
    BY <2>1, AncestorFacts
  <2> HIDE DEF a
  <2>3. a \in 0..(p - 1) /\ rs[a + 1].depth = k
    BY <2>2 DEF IsAncestor
  <2>4. ASSUME NEW r \in (a + 1)..(q - 1)
        PROVE  rs[r + 1].depth > k
    <3>1. r \in (a + 1)..(p - 1) \/ r = p \/ r \in (p + 1)..(q - 1)
      BY <1>1, <2>3
    <3>2. \A n \in (a + 1)..(p - 1) : rs[n + 1].depth > k
      BY <2>2 DEF IsAncestor
    <3>3. \A n \in (p + 1)..(q - 1) : rs[n + 1].depth > k
      BY <1>1
    <3>4. rs[p + 1].depth > k
      BY <1>1, <1>3
    <3>5. QED
      BY <3>1, <3>2, <3>3, <3>4
  <2>5. IsAncestor(rs, q, k, a)
    BY <1>1, <2>3, <2>4 DEF IsAncestor
  <2>6. QED
    BY <1>1, <1>3, <2>5, OneAncestor DEF a
<1>4. QED
  BY <1>2, <1>3

LEMMA PathFacts ==
    ASSUME NEW rs, Tree(rs), NEW p \in 0..(Len(rs) - 1)
    PROVE  /\ FrontOf(rs, p) \in Seq(Seq(Nat))
           /\ Len(FrontOf(rs, p)) = rs[p + 1].depth
           /\ \A d \in 1..rs[p + 1].depth : FrontOf(rs, p)[d] = <<AncestorIn(rs, p, d - 1)>>
           /\ PathOf(rs, p) \in Seq(Seq(Nat))
           /\ Len(PathOf(rs, p)) = rs[p + 1].depth + 1
           /\ \A d \in 1..rs[p + 1].depth : PathOf(rs, p)[d] = <<AncestorIn(rs, p, d - 1)>>
           /\ PathOf(rs, p)[rs[p + 1].depth + 1] = <<p>>
<1> DEFINE D == rs[p + 1].depth
           F == FrontOf(rs, p)
<1>1. D \in Nat /\ p \in Nat
  BY TreeRow
<1>2. ASSUME NEW d \in 1..D
      PROVE  <<AncestorIn(rs, p, d - 1)>> \in Seq(Nat)
  <2>1. d - 1 \in 0..(D - 1)
    BY <1>1
  <2>2. AncestorIn(rs, p, d - 1) \in 0..(p - 1)
    BY <2>1, AncestorFacts
  <2>3. AncestorIn(rs, p, d - 1) \in Nat
    BY <2>2
  <2>4. QED
    BY <2>3
<1>3. F = [d \in 1..D |-> <<AncestorIn(rs, p, d - 1)>>]
  BY DEF FrontOf
<1> HIDE DEF D, F
<1>4. F \in Seq(Seq(Nat)) /\ Len(F) = D
  <2>1. F \in [1..D -> Seq(Nat)]
    BY <1>2, <1>3
  <2>2. QED
    BY <1>1, <2>1
<1>5. <<p>> \in Seq(Nat)
  BY <1>1
<1>6. /\ Append(F, <<p>>) \in Seq(Seq(Nat))
      /\ Len(Append(F, <<p>>)) = D + 1
      /\ \A d \in 1..D : Append(F, <<p>>)[d] = F[d]
      /\ Append(F, <<p>>)[D + 1] = <<p>>
  BY <1>1, <1>4, <1>5
<1>7. \A d \in 1..D : F[d] = <<AncestorIn(rs, p, d - 1)>>
  BY <1>3
<1>8. PathOf(rs, p) = Append(F, <<p>>)
  BY DEF PathOf, F
<1>9. QED
  BY <1>4, <1>6, <1>7, <1>8 DEF D, F

\* Rows that come later change no path.
LEMMA SamePaths ==
    ASSUME NEW rs, Tree(rs), NEW rt, Tree(rt), Len(rs) <= Len(rt),
           \A i \in 1..Len(rs) : rt[i] = rs[i],
           NEW p \in 0..(Len(rs) - 1)
    PROVE  FrontOf(rt, p) = FrontOf(rs, p) /\ PathOf(rt, p) = PathOf(rs, p)
<1>1. Len(rs) \in Nat /\ Len(rt) \in Nat /\ rs[p + 1].depth \in Nat /\ p \in Nat
  BY TreeRow, LenProperties DEF Tree
<1>2. \A r \in 0..p : rt[r + 1] = rs[r + 1]
  BY <1>1
<1>3. ASSUME NEW d \in 1..rs[p + 1].depth
      PROVE  AncestorIn(rt, p, d - 1) = AncestorIn(rs, p, d - 1)
  <2> DEFINE a == AncestorIn(rs, p, d - 1)
  <2>1. d - 1 \in 0..(rs[p + 1].depth - 1) /\ d - 1 \in Nat
    BY <1>1
  <2>2. IsAncestor(rs, p, d - 1, a)
    BY <2>1, AncestorFacts
  <2> HIDE DEF a
  <2>3. IsAncestor(rt, p, d - 1, a)
    BY <1>1, <1>2, <2>2 DEF IsAncestor
  <2>4. QED
    BY <1>1, <2>1, <2>3, OneAncestor DEF a
<1>4. rt[p + 1].depth = rs[p + 1].depth
  BY <1>2, <1>1
<1>5. FrontOf(rt, p) = FrontOf(rs, p)
  BY <1>3, <1>4 DEF FrontOf
<1>6. QED
  BY <1>5 DEF PathOf

-----------------------------------------------------------------------------
(* The rows among the items of a scan.                                     *)

One(items, n) == IF IsRow(items[n]) THEN 1 ELSE 0

SeenIs(items, seen) ==
    /\ seen[0] = 0
    /\ \A n \in 1..Len(items) : seen[n] = seen[n - 1] + One(items, n)
    /\ \A n \in 0..Len(items) : seen[n] \in Nat

LEMMA SeenFacts ==
    ASSUME NEW items \in Seq(ItemType)
    PROVE  SeenIs(items, Seen(items))
<1> DEFINE N == Len(items)
           g == [x \in (1..N) \X Nat |-> x[2] + One(items, x[1])]
           Is(t) == t = [n \in 0..N |-> IF n = 0 THEN 0
                                        ELSE t[n - 1] + (IF IsRow(items[n]) THEN 1 ELSE 0)]
           seen == CHOOSE t : Is(t)
<1>1. N \in Nat
  BY LenProperties
<1>2. \A n : One(items, n) \in Nat
  BY DEF One
<1>3. IsStep(N, Nat, g)
  BY <1>2 DEF IsStep
<1>4. PICK t \in [0..N -> Nat] : \A n \in 0..N : t[n] = ValueAt(0, g, t, n)
  <2> HIDE DEF g, N
  <2>1. HasValues(N, Nat, 0, g)
    BY <1>1, <1>3, RecursionExists
  <2>2. QED
    BY <2>1 DEF HasValues
<1>5. ASSUME NEW n \in 0..N
      PROVE  t[n] = IF n = 0 THEN 0 ELSE t[n - 1] + (IF IsRow(items[n]) THEN 1 ELSE 0)
  <2>1. CASE n = 0
    BY <1>4, <2>1 DEF ValueAt
  <2>2. CASE n # 0
    <3>1. n - 1 \in 0..N /\ n \in 1..N
      BY <1>1, <2>2
    <3>2. t[n] = g[<<n, t[n - 1]>>] /\ <<n, t[n - 1]>> \in (1..N) \X Nat
      BY <1>4, <2>2, <3>1 DEF ValueAt
    <3>3. t[n] = t[n - 1] + One(items, n)
      BY <3>2
    <3>4. QED
      BY <2>2, <3>3 DEF One
  <2>3. QED
    BY <2>1, <2>2
<1>6. t = [n \in 0..N |-> t[n]]
  OBVIOUS
<1>7. Is(t)
  BY <1>5, <1>6
<1>8. Is(seen)
  BY <1>7
<1>9. Seen(items) = seen
  BY DEF Seen
<1> HIDE DEF seen
<1>10. seen[0] = 0 /\ \A n \in 1..N : seen[n] = seen[n - 1] + One(items, n)
  <2>1. ASSUME NEW n \in 0..N
        PROVE  seen[n] = IF n = 0 THEN 0 ELSE seen[n - 1] + (IF IsRow(items[n]) THEN 1 ELSE 0)
    BY <1>8
  <2> HIDE DEF Is
  <2>2. seen[0] = 0
    BY <1>1, <2>1
  <2>3. ASSUME NEW n \in 1..N PROVE seen[n] = seen[n - 1] + One(items, n)
    <3>1. n \in 0..N /\ n # 0
      BY <1>1
    <3>2. QED
      BY <2>1, <3>1 DEF One
  <2>4. QED
    BY <2>2, <2>3
<1>11. \A n \in 0..N : seen[n] \in Nat
  <2> DEFINE S == {n \in 0..N : seen[n] \in Nat}
  <2>1. 0 \in S
    BY <1>1, <1>10
  <2>2. ASSUME NEW n \in 0..(N - 1), n \in S PROVE n + 1 \in S
    <3>1. n + 1 \in 1..N /\ (n + 1) - 1 = n
      BY <1>1
    <3>2. seen[n + 1] = seen[n] + One(items, n + 1)
      BY <1>10, <3>1
    <3>3. QED
      BY <1>1, <1>2, <2>2, <3>1, <3>2
  <2>3. \A n \in 0..N : n \in S
    <3> HIDE DEF S, N
    <3>1. QED
      BY <1>1, <2>1, <2>2, InductionUpTo
  <2>4. QED
    BY <2>3
<1>12. QED
  BY <1>9, <1>10, <1>11 DEF SeenIs

\* They do not get fewer.
LEMMA SeenGrows ==
    ASSUME NEW items \in Seq(ItemType), NEW m \in 0..Len(items), NEW n \in m..Len(items)
    PROVE  Seen(items)[m] <= Seen(items)[n]
<1> DEFINE seen == Seen(items)
           N == Len(items)
           S == {k \in 0..N : m <= k => seen[m] <= seen[k]}
<1>1. N \in Nat /\ SeenIs(items, seen)
  BY LenProperties, SeenFacts
<1> HIDE DEF seen
<1>2. 0 \in S
  BY <1>1 DEF SeenIs
<1>3. ASSUME NEW k \in 0..(N - 1), k \in S PROVE k + 1 \in S
  <2>1. k + 1 \in 1..N /\ (k + 1) - 1 = k /\ k \in 0..N /\ k + 1 \in 0..N
    BY <1>1
  <2>2. seen[k + 1] = seen[k] + One(items, k + 1) /\ seen[k] \in Nat /\ seen[k + 1] \in Nat /\ seen[m] \in Nat
    BY <1>1, <2>1 DEF SeenIs
  <2>3. seen[k] <= seen[k + 1]
    BY <2>2 DEF One
  <2>4. m <= k + 1 => seen[m] <= seen[k + 1]
    <3>1. CASE m = k + 1
      BY <2>2, <3>1
    <3>2. CASE m <= k
      BY <1>3, <2>2, <2>3, <3>2
    <3>3. QED
      BY <1>1, <2>1, <3>1, <3>2
  <2>5. QED
    BY <2>1, <2>4
<1>4. \A k \in 0..N : k \in S
  <2> HIDE DEF S, N
  <2>1. QED
    BY <1>1, <1>2, <1>3, InductionUpTo
<1>5. QED
  BY <1>1, <1>4 DEF seen

\* Items that come later change none of it.
LEMMA SeenSame ==
    ASSUME NEW items \in Seq(ItemType), NEW more \in Seq(ItemType), Len(items) <= Len(more),
           \A n \in 1..Len(items) : more[n] = items[n]
    PROVE  \A n \in 0..Len(items) : Seen(more)[n] = Seen(items)[n]
<1> DEFINE s == Seen(items)
           t == Seen(more)
<1>1. Len(items) \in Nat /\ Len(more) \in Nat /\ SeenIs(items, s) /\ SeenIs(more, t)
  BY LenProperties, SeenFacts
<1> HIDE DEF s, t
<1>2. ASSUME NEW n \in 1..Len(items), t[n - 1] = s[n - 1] PROVE t[n] = s[n]
  <2>1. n \in 1..Len(more)
    BY <1>1
  <2>2. One(more, n) = One(items, n)
    BY DEF One
  <2>3. QED
    BY <1>1, <1>2, <2>1, <2>2 DEF SeenIs
<1>3. t[0] = s[0]
  BY <1>1 DEF SeenIs
<1>4. \A n \in 0..Len(items) : t[n] = s[n]
  <2>1. GoAlike(Len(items), t, s)
    BY <1>2, <1>3 DEF GoAlike
  <2>2. Alike(Len(items), t, s)
    BY <1>1, <2>1, RecursionIsOne
  <2>3. QED
    BY <2>2 DEF Alike
<1>5. QED
  BY <1>4 DEF s, t

-----------------------------------------------------------------------------
(* The rows of ranges.                                                     *)

CountsIs(ranges, counts) ==
    /\ counts[0] = 0
    /\ \A n \in 1..Len(ranges) : counts[n] = counts[n - 1] + ranges[n].count
    /\ \A n \in 0..Len(ranges) : counts[n] \in Nat

LEMMA CountsFacts ==
    ASSUME NEW ranges \in Seq(RangeType)
    PROVE  CountsIs(ranges, Counts(ranges))
<1> DEFINE N == Len(ranges)
           g == [x \in (1..N) \X Nat |-> x[2] + ranges[x[1]].count]
           Is(t) == t = [n \in 0..N |-> IF n = 0 THEN 0 ELSE t[n - 1] + ranges[n].count]
           counts == CHOOSE t : Is(t)
<1>1. N \in Nat
  BY LenProperties
<1>2. \A n \in 1..N : ranges[n].count \in Nat
  <2>1. \A n \in 1..N : ranges[n] \in RangeType
    BY ElementOfSeq
  <2>2. QED
    BY <2>1 DEF RangeType
<1>3. IsStep(N, Nat, g)
  BY <1>2 DEF IsStep
<1>4. PICK t \in [0..N -> Nat] : \A n \in 0..N : t[n] = ValueAt(0, g, t, n)
  <2> HIDE DEF g, N
  <2>1. HasValues(N, Nat, 0, g)
    BY <1>1, <1>3, RecursionExists
  <2>2. QED
    BY <2>1 DEF HasValues
<1>5. ASSUME NEW n \in 0..N
      PROVE  t[n] = IF n = 0 THEN 0 ELSE t[n - 1] + ranges[n].count
  <2>1. CASE n = 0
    BY <1>4, <2>1 DEF ValueAt
  <2>2. CASE n # 0
    <3>1. n - 1 \in 0..N /\ n \in 1..N
      BY <1>1, <2>2
    <3>2. t[n] = g[<<n, t[n - 1]>>] /\ <<n, t[n - 1]>> \in (1..N) \X Nat
      BY <1>4, <2>2, <3>1 DEF ValueAt
    <3>3. QED
      BY <2>2, <3>2
  <2>3. QED
    BY <2>1, <2>2
<1>6. t = [n \in 0..N |-> t[n]]
  OBVIOUS
<1>7. Is(t)
  BY <1>5, <1>6
<1>8. Is(counts)
  BY <1>7
<1>9. Counts(ranges) = counts
  BY DEF Counts
<1> HIDE DEF counts
<1>10. counts[0] = 0 /\ \A n \in 1..N : counts[n] = counts[n - 1] + ranges[n].count
  <2>1. ASSUME NEW n \in 0..N
        PROVE  counts[n] = IF n = 0 THEN 0 ELSE counts[n - 1] + ranges[n].count
    BY <1>8
  <2> HIDE DEF Is
  <2>2. counts[0] = 0
    BY <1>1, <2>1
  <2>3. ASSUME NEW n \in 1..N PROVE counts[n] = counts[n - 1] + ranges[n].count
    <3>1. n \in 0..N /\ n # 0
      BY <1>1
    <3>2. QED
      BY <2>1, <3>1
  <2>4. QED
    BY <2>2, <2>3
<1>11. \A n \in 0..N : counts[n] \in Nat
  <2> DEFINE S == {n \in 0..N : counts[n] \in Nat}
  <2>1. 0 \in S
    BY <1>1, <1>10
  <2>2. ASSUME NEW n \in 0..(N - 1), n \in S PROVE n + 1 \in S
    <3>1. n + 1 \in 1..N /\ (n + 1) - 1 = n
      BY <1>1
    <3>2. counts[n + 1] = counts[n] + ranges[n + 1].count
      BY <1>10, <3>1
    <3>3. QED
      BY <1>1, <1>2, <2>2, <3>1, <3>2
  <2>3. \A n \in 0..N : n \in S
    <3> HIDE DEF S, N
    <3>1. QED
      BY <1>1, <2>1, <2>2, InductionUpTo
  <2>4. QED
    BY <2>3
<1>12. QED
  BY <1>9, <1>10, <1>11 DEF CountsIs

\* The counts of a run of ranges are the differences of those of all.
CountsAs(ranges, some, m) ==
    /\ m + Len(some) <= Len(ranges)
    /\ \A n \in 1..Len(some) : some[n].count = ranges[m + n].count

Shifted(ranges, some, m) ==
    \A n \in 0..Len(some) : Counts(some)[n] = Counts(ranges)[m + n] - Counts(ranges)[m]

LEMMA CountsShift ==
    ASSUME NEW ranges \in Seq(RangeType), NEW some \in Seq(RangeType), NEW m \in Nat,
           CountsAs(ranges, some, m)
    PROVE  Shifted(ranges, some, m)
<1> USE DEF CountsAs, Shifted
<1> DEFINE c == Counts(ranges)
           s == Counts(some)
           N == Len(some)
           u == [n \in 0..N |-> c[m + n] - c[m]]
<1>1. N \in Nat /\ Len(ranges) \in Nat /\ CountsIs(ranges, c) /\ CountsIs(some, s)
  BY LenProperties, CountsFacts
<1> HIDE DEF c, s
<1>2. m \in 0..Len(ranges) /\ \A n \in 0..N : m + n \in 0..Len(ranges)
  BY <1>1
<1>3. c[m] \in Nat /\ \A n \in 0..N : c[m + n] \in Nat
  BY <1>1, <1>2 DEF CountsIs
<1>4. s[0] = u[0]
  <2>1. m + 0 = m
    OBVIOUS
  <2>2. QED
    BY <1>1, <1>3, <2>1 DEF CountsIs
<1>5. ASSUME NEW n \in 1..N, s[n - 1] = u[n - 1] PROVE s[n] = u[n]
  <2>1. n - 1 \in 0..N /\ n \in 0..N /\ m + n \in 1..Len(ranges) /\ (m + n) - 1 = m + (n - 1)
    BY <1>1
  <2>2. c[m + n] = c[m + (n - 1)] + ranges[m + n].count
    BY <1>1, <2>1 DEF CountsIs
  <2>3. s[n] = s[n - 1] + some[n].count /\ some[n].count = ranges[m + n].count
    BY <1>1 DEF CountsIs
  <2>4. some[n].count \in Nat
    <3>1. some[n] \in RangeType
      BY <1>1, ElementOfSeq
    <3>2. QED
      BY <3>1 DEF RangeType
  <2>5. u[n - 1] = c[m + (n - 1)] - c[m] /\ u[n] = c[m + n] - c[m]
    BY <2>1
  <2>6. c[m + (n - 1)] \in Nat
    BY <1>3, <2>1
  <2> DEFINE x == c[m + (n - 1)]
             y == c[m]
             w == some[n].count
  <2>7. /\ x \in Nat /\ y \in Nat /\ w \in Nat
        /\ c[m + n] = x + w /\ s[n] = s[n - 1] + w
        /\ s[n - 1] = x - y /\ u[n] = c[m + n] - y
    BY <1>3, <1>5, <2>2, <2>3, <2>4, <2>5, <2>6
  <2> HIDE DEF x, y, w, u
  <2>8. QED
    BY <2>7
<1>6. \A n \in 0..N : s[n] = u[n]
  <2> HIDE DEF u, N
  <2>1. GoAlike(N, s, u)
    BY <1>4, <1>5 DEF GoAlike
  <2>2. Alike(N, s, u)
    BY <1>1, <2>1, RecursionIsOne
  <2>3. QED
    BY <2>2 DEF Alike
<1>7. QED
  BY <1>6 DEF s, c

LEMMA RangesTypes ==
    ASSUME NEW found, NEW rs, NEW ranges, NEW p \in Nat, NEW q \in Nat, RangesAre(found, rs, ranges, p, q)
    PROVE  /\ ranges \in Seq(RangeType)
           /\ Len(ranges) \in Nat
           /\ CountsIs(ranges, Counts(ranges))
           /\ p <= q
           /\ \A k \in 1..Len(ranges) : ranges[k] \in RangeType
           /\ \A k \in 1..Len(ranges) : RangeIs(found, rs, ranges[k], p + Counts(ranges)[k - 1])
<1>1. ranges \in Seq(RangeType) /\ Counts(ranges)[Len(ranges)] = q - p
  BY DEF RangesAre
<1>2. Len(ranges) \in Nat /\ DOMAIN ranges = 1..Len(ranges) /\ CountsIs(ranges, Counts(ranges))
  BY <1>1, LenProperties, CountsFacts
<1>3. Counts(ranges)[Len(ranges)] \in Nat
  BY <1>2 DEF CountsIs
<1>4. \A k \in 1..Len(ranges) : ranges[k] \in RangeType
  BY <1>1, ElementOfSeq
<1>5. QED
  BY <1>1, <1>2, <1>3, <1>4 DEF RangesAre

LEMMA NoRanges ==
    ASSUME NEW found, NEW rs, NEW p \in Nat
    PROVE  RangesAre(found, rs, <<>>, p, p)
<1>1. <<>> \in Seq(RangeType) /\ Len(<<>>) = 0 /\ DOMAIN <<>> = {}
  OBVIOUS
<1>2. Counts(<<>>)[0] = 0
  BY <1>1, CountsFacts DEF CountsIs
<1>3. QED
  BY <1>1, <1>2 DEF RangesAre

\* A run of ranges.
LEMMA SomeRanges ==
    ASSUME NEW found, NEW rs, NEW ranges, NEW p \in Nat, NEW q \in Nat, RangesAre(found, rs, ranges, p, q),
           NEW i \in 1..(Len(ranges) + 1), NEW j \in (i - 1)..Len(ranges)
    PROVE  RangesAre(found, rs, SubSeq(ranges, i, j),
                     p + Counts(ranges)[i - 1], p + Counts(ranges)[j])
<1> DEFINE c == Counts(ranges)
           some == SubSeq(ranges, i, j)
           s == Counts(some)
           m == i - 1
<1>1. /\ ranges \in Seq(RangeType) /\ Len(ranges) \in Nat /\ CountsIs(ranges, c)
      /\ \A k \in 1..Len(ranges) : RangeIs(found, rs, ranges[k], p + c[k - 1])
  BY RangesTypes
<1>2. m \in Nat /\ m + Len(some) <= Len(ranges) /\ Len(some) = j - m /\ some \in Seq(RangeType)
      /\ \A n \in 1..Len(some) : some[n] = ranges[m + n]
  <2>1. some \in Seq(RangeType)
    BY <1>1
  <2>2. Len(some) = j - i + 1
    BY <1>1
  <2>3. \A n \in 1..(j - i + 1) : some[n] = ranges[i + n - 1]
    BY <1>1
  <2>4. \A n \in 1..(j - i + 1) : i + n - 1 = m + n
    BY <1>1
  <2>5. QED
    BY <1>1, <2>1, <2>2, <2>3, <2>4
<1> HIDE DEF some, m, c, s
<1>3. \A n \in 0..Len(some) : s[n] = c[m + n] - c[m]
  <2>1. CountsAs(ranges, some, m)
    BY <1>2 DEF CountsAs
  <2>2. Shifted(ranges, some, m)
    BY <1>1, <1>2, <2>1, CountsShift
  <2>3. QED
    BY <2>2 DEF Shifted, s, c
<1>4. Len(some) \in Nat /\ DOMAIN some = 1..Len(some)
  BY <1>2, LenProperties
<1>5. \A n \in 0..Len(some) : m + n \in 0..Len(ranges) /\ c[m + n] \in Nat /\ c[m] \in Nat
  <2>1. \A n \in 0..Len(some) : m + n \in 0..Len(ranges)
    BY <1>1, <1>2, <1>4
  <2>2. m \in 0..Len(ranges)
    BY <1>1, <1>2, <1>4
  <2>3. QED
    BY <1>1, <2>1, <2>2 DEF CountsIs
<1>6. s[Len(some)] = (p + c[j]) - (p + c[m])
  <2>1. Len(some) \in 0..Len(some) /\ m + Len(some) = j
    BY <1>2, <1>4
  <2>2. s[Len(some)] = c[j] - c[m] /\ c[j] \in Nat /\ c[m] \in Nat
    BY <1>3, <1>5, <2>1
  <2>3. QED
    BY <2>2
<1>7. ASSUME NEW n \in 1..Len(some)
      PROVE  RangeIs(found, rs, some[n], (p + c[m]) + s[n - 1])
  <2>1. n - 1 \in 0..Len(some) /\ m + n \in 1..Len(ranges) /\ (m + n) - 1 = m + (n - 1)
    BY <1>1, <1>2, <1>4
  <2>2. s[n - 1] = c[m + (n - 1)] - c[m] /\ c[m + (n - 1)] \in Nat /\ c[m] \in Nat
    BY <1>3, <1>5, <2>1
  <2>3. (p + c[m]) + s[n - 1] = p + c[(m + n) - 1]
    BY <2>1, <2>2
  <2>4. QED
    BY <1>1, <1>2, <2>1, <2>3
<1>8. RangesAre(found, rs, some, p + c[m], p + c[j])
  BY <1>2, <1>4, <1>6, <1>7 DEF RangesAre, s
<1>9. QED
  BY <1>8 DEF some, c, m

\* One more range.
LEMMA RangesAppend ==
    ASSUME NEW found, NEW rs, NEW ranges, NEW p \in Nat, NEW q \in Nat, RangesAre(found, rs, ranges, p, q),
           NEW range \in RangeType, RangeIs(found, rs, range, q)
    PROVE  RangesAre(found, rs, Append(ranges, range), p, q + range.count)
<1> DEFINE c == Counts(ranges)
           more == Append(ranges, range)
           s == Counts(more)
           N == Len(ranges)
<1>1. /\ ranges \in Seq(RangeType) /\ N \in Nat /\ CountsIs(ranges, c)
      /\ \A k \in 1..N : RangeIs(found, rs, ranges[k], p + c[k - 1])
  BY RangesTypes
<1>2. c[N] = q - p
  BY DEF RangesAre
<1>3. /\ more \in Seq(RangeType) /\ Len(more) = N + 1 /\ more[N + 1] = range
      /\ \A n \in 1..N : more[n] = ranges[n]
      /\ DOMAIN more = 1..(N + 1)
  BY <1>1
<1>4. CountsIs(more, s)
  BY <1>3, CountsFacts
<1>5. range.count \in Nat
  BY DEF RangeType
<1> HIDE DEF c, s, more, N
<1>6. \A n \in 0..N : s[n] = c[n]
  <2>1. ASSUME NEW n \in 1..N, s[n - 1] = c[n - 1] PROVE s[n] = c[n]
    <3>1. n \in 1..Len(more) /\ n \in 1..Len(ranges)
      BY <1>1, <1>3 DEF N
    <3>2. QED
      BY <1>1, <1>3, <1>4, <2>1, <3>1 DEF CountsIs
  <2>2. s[0] = c[0]
    BY <1>1, <1>4 DEF CountsIs
  <2>3. GoAlike(N, s, c)
    BY <2>1, <2>2 DEF GoAlike
  <2>4. Alike(N, s, c)
    BY <1>1, <2>3, RecursionIsOne
  <2>5. QED
    BY <2>4 DEF Alike
<1>7. s[N + 1] = (q + range.count) - p
  <2>1. N + 1 \in 1..Len(more) /\ (N + 1) - 1 = N /\ N \in 0..N
    BY <1>1, <1>3
  <2>2. s[N + 1] = s[N] + range.count
    BY <1>3, <1>4, <2>1 DEF CountsIs
  <2>3. QED
    BY <1>2, <1>5, <1>6, <2>1, <2>2
<1>8. ASSUME NEW n \in 1..(N + 1)
      PROVE  RangeIs(found, rs, more[n], p + s[n - 1])
  <2>1. CASE n = N + 1
    <3>1. n - 1 = N /\ N \in 0..N
      BY <1>1, <2>1
    <3>2. p + s[n - 1] = q
      BY <1>2, <1>6, <3>1
    <3>3. QED
      BY <1>3, <2>1, <3>2
  <2>2. CASE n \in 1..N
    <3>1. n - 1 \in 0..N
      BY <1>1, <2>2
    <3>2. QED
      BY <1>1, <1>3, <1>6, <2>2, <3>1
  <2>3. QED
    BY <1>1, <2>1, <2>2
<1>9. RangesAre(found, rs, more, p, q + range.count)
  BY <1>3, <1>7, <1>8 DEF RangesAre, s
<1>10. QED
  BY <1>9 DEF more

\* One range in front.
LEMMA RangesCons ==
    ASSUME NEW found, NEW rs, NEW ranges, NEW p \in Nat, NEW q \in Nat, RangesAre(found, rs, ranges, p, q),
           NEW range \in RangeType, NEW o \in Nat, o + range.count = p, RangeIs(found, rs, range, o)
    PROVE  RangesAre(found, rs, <<range>> \o ranges, o, q)
<1> DEFINE c == Counts(ranges)
           more == <<range>> \o ranges
           s == Counts(more)
           N == Len(ranges)
<1>1. /\ ranges \in Seq(RangeType) /\ N \in Nat /\ CountsIs(ranges, c)
      /\ \A k \in 1..N : RangeIs(found, rs, ranges[k], p + c[k - 1])
  BY RangesTypes
<1>2. c[N] = q - p
  BY DEF RangesAre
<1>3. /\ more \in Seq(RangeType) /\ Len(more) = N + 1 /\ more[1] = range
      /\ \A n \in 1..N : more[1 + n] = ranges[n]
      /\ DOMAIN more = 1..(N + 1)
  <2>1. <<range>> \in Seq(RangeType) /\ Len(<<range>>) = 1 /\ <<range>>[1] = range
    OBVIOUS
  <2>2. more \in Seq(RangeType) /\ Len(more) = 1 + N
    BY <1>1, <2>1
  <2>3. more[1] = range
    BY <1>1, <2>1
  <2>4. \A n \in 1..N : more[1 + n] = ranges[n]
    BY <1>1, <2>1
  <2>5. DOMAIN more = 1..Len(more)
    BY <2>2
  <2>6. QED
    BY <1>1, <2>2, <2>3, <2>4, <2>5
<1>4. CountsIs(more, s)
  BY <1>3, CountsFacts
<1>5. range.count \in Nat
  BY DEF RangeType
<1>6. \A n \in 0..N : c[n] = s[1 + n] - s[1]
  <2>1. CountsAs(more, ranges, 1)
    BY <1>1, <1>3 DEF CountsAs
  <2> HIDE DEF more
  <2>2. Shifted(more, ranges, 1)
    BY <1>1, <1>3, <2>1, CountsShift
  <2>3. QED
    BY <2>2 DEF Shifted
<1> HIDE DEF c, s, more, N
<1>7. s[0] = 0 /\ s[1] = range.count
  <2>1. 1 \in 1..Len(more) /\ 1 - 1 = 0
    BY <1>1, <1>3
  <2>2. s[0] = 0 /\ s[1] = s[0] + more[1].count
    BY <1>4, <2>1 DEF CountsIs
  <2>3. QED
    BY <1>3, <1>5, <2>2
<1>8. \A n \in 0..N : s[1 + n] \in Nat
  <2>1. \A n \in 0..N : 1 + n \in 0..Len(more)
    BY <1>1, <1>3
  <2>2. QED
    BY <1>4, <2>1 DEF CountsIs
<1>9. s[N + 1] = q - o
  <2>1. N \in 0..N /\ N + 1 = 1 + N
    BY <1>1
  <2>2. c[N] = s[N + 1] - range.count /\ s[N + 1] \in Nat
    BY <1>6, <1>7, <1>8, <2>1
  <2>3. QED
    BY <1>2, <1>5, <2>2
<1>10. ASSUME NEW n \in 1..(N + 1)
       PROVE  RangeIs(found, rs, more[n], o + s[n - 1])
  <2>1. CASE n = 1
    <3>1. o + s[n - 1] = o
      BY <1>7, <2>1
    <3>2. QED
      BY <1>3, <2>1, <3>1
  <2>2. CASE n # 1
    <3> DEFINE m == n - 1
    <3>1. m \in 1..N /\ n = 1 + m /\ m - 1 \in 0..N /\ 1 + (m - 1) = m
      BY <1>1, <2>2
    <3> HIDE DEF m
    <3>2. c[m - 1] = s[m] - range.count /\ s[m] \in Nat
      BY <1>6, <1>7, <1>8, <3>1
    <3>3. p + c[m - 1] = o + s[m]
      BY <1>5, <3>2
    <3>4. RangeIs(found, rs, ranges[m], o + s[m])
      BY <1>1, <3>1, <3>3 DEF N
    <3>5. QED
      BY <1>3, <3>1, <3>4 DEF m
  <2>3. QED
    BY <2>1, <2>2
<1>11. RangesAre(found, rs, more, o, q)
  BY <1>3, <1>9, <1>10 DEF RangesAre, s
<1>12. QED
  BY <1>11 DEF more

-----------------------------------------------------------------------------
(* Draining.                                                               *)

LEMMA RangeFacts ==
    ASSUME NEW found \in Seq(Seq(ItemType)), NEW rs, NEW range, NEW p \in Nat, RangeIs(found, rs, range, p)
    PROVE  /\ range \in RangeType
           /\ range.rows \in DOMAIN found /\ range.rows \in Nat
           /\ range.from \in Nat /\ range.to \in Nat /\ range.depth \in Nat /\ range.count \in Nat
           /\ range.from <= range.to /\ range.to <= Len(found[range.rows])
           /\ found[range.rows] \in Seq(ItemType)
           /\ SeenIs(found[range.rows], Seen(found[range.rows]))
           /\ Seen(found[range.rows])[range.from] \in Nat
           /\ Seen(found[range.rows])[range.to] \in Nat
           /\ range.count = Seen(found[range.rows])[range.to] - Seen(found[range.rows])[range.from]
<1>1. range \in RangeType /\ range.rows \in DOMAIN found /\ range.from <= range.to
      /\ range.to <= Len(found[range.rows])
      /\ range.count = Seen(found[range.rows])[range.to] - Seen(found[range.rows])[range.from]
  BY DEF RangeIs
<1>2. range.rows \in Nat /\ range.from \in Nat /\ range.to \in Nat /\ range.depth \in Nat /\ range.count \in Nat
  BY <1>1 DEF RangeType
<1>3. found[range.rows] \in Seq(ItemType)
  BY <1>1, ElementOfSeq
<1>4. SeenIs(found[range.rows], Seen(found[range.rows]))
  BY <1>3, SeenFacts
<1>5. Len(found[range.rows]) \in Nat
  BY <1>3, LenProperties
<1>6. range.from \in 0..Len(found[range.rows]) /\ range.to \in 0..Len(found[range.rows])
  BY <1>1, <1>2, <1>5
<1>7. QED
  BY <1>1, <1>2, <1>3, <1>4, <1>6 DEF SeenIs

\* The first n rows end somewhere in the range.
LEMMA RowsEnd ==
    ASSUME NEW found \in Seq(Seq(ItemType)), NEW rs, NEW range, NEW p \in Nat, RangeIs(found, rs, range, p),
           NEW n \in Nat, 0 < n, n < range.count
    PROVE  /\ EndOfRows(found, range, n) \in range.from..range.to
           /\ Seen(found[range.rows])[EndOfRows(found, range, n)]
                  - Seen(found[range.rows])[range.from] = n
<1> DEFINE items == found[range.rows]
           seen == Seen(items)
           from == range.from
           to == range.to
           Ends_(at) == /\ seen[at] - seen[from] = n
                        /\ at > from => IsRow(items[at])
<1>1. /\ from \in Nat /\ to \in Nat /\ from <= to /\ to <= Len(items)
      /\ items \in Seq(ItemType) /\ SeenIs(items, seen) /\ Len(items) \in Nat
      /\ range.count = seen[to] - seen[from] /\ seen[from] \in Nat /\ seen[to] \in Nat
  BY RangeFacts, LenProperties
<1> HIDE DEF items, seen, from, to
<1>2. \E at \in from..to : Ends_(at)
  <2> SUFFICES ASSUME \A at \in from..to : ~Ends_(at) PROVE FALSE
    OBVIOUS
  <2> DEFINE S == {m \in 0..(to - from) : seen[from + m] - seen[from] < n}
             N == to - from
  <2>1. N \in Nat
    BY <1>1
  <2>2. 0 \in S
    <3>1. seen[from + 0] = seen[from]
      BY <1>1
    <3>2. QED
      BY <1>1, <3>1
  <2>3. ASSUME NEW m \in 0..(N - 1), m \in S PROVE m + 1 \in S
    <3>1. /\ from + m \in 0..Len(items) /\ from + (m + 1) \in 1..Len(items)
          /\ (from + (m + 1)) - 1 = from + m /\ from + (m + 1) \in from..to /\ m + 1 \in 0..N
          /\ from + (m + 1) > from
      BY <1>1, <2>1
    <3>2. seen[from + (m + 1)] = seen[from + m] + One(items, from + (m + 1)) /\ seen[from + m] \in Nat
      BY <1>1, <3>1 DEF SeenIs
    <3>3. seen[from + m] - seen[from] < n
      BY <2>3
    <3>4. CASE IsRow(items[from + (m + 1)])
      <4>1. seen[from + (m + 1)] - seen[from] # n
        BY <3>1, <3>4
      <4>2. seen[from + (m + 1)] = seen[from + m] + 1
        BY <3>2, <3>4 DEF One
      <4>3. seen[from + (m + 1)] - seen[from] < n
        <5> DEFINE a == seen[from + (m + 1)]
                   b == seen[from + m]
                   c == seen[from]
        <5>1. a = b + 1 /\ b \in Nat /\ c \in Nat /\ b - c < n /\ a - c # n
          BY <1>1, <3>2, <3>3, <4>1, <4>2
        <5> HIDE DEF a, b, c
        <5>2. a - c < n
          BY <5>1
        <5>3. QED
          BY <5>2 DEF a, c
      <4>4. QED
        BY <3>1, <4>3
    <3>5. CASE ~IsRow(items[from + (m + 1)])
      <4>1. seen[from + (m + 1)] = seen[from + m]
        BY <3>2, <3>5 DEF One
      <4>2. QED
        BY <3>1, <3>3, <4>1
    <3>6. QED
      BY <3>4, <3>5
  <2>4. N \in S
    <3> HIDE DEF S, N
    <3>1. \A m \in 0..N : m \in S
      BY <2>1, <2>2, <2>3, InductionUpTo
    <3>2. QED
      BY <2>1, <3>1
  <2>5. from + N = to
    BY <1>1
  <2>6. seen[to] - seen[from] < n
    BY <2>4, <2>5
  <2>7. QED
    BY <1>1, <2>6
<1>3. EndOfRows(found, range, n) = CHOOSE at \in from..to : Ends_(at)
  BY DEF EndOfRows, items, seen, from, to
<1>4. EndOfRows(found, range, n) \in from..to /\ Ends_(EndOfRows(found, range, n))
  BY <1>2, <1>3
<1>5. QED
  BY <1>4 DEF items, seen, from, to

\* split_off_front: the front is the first n rows, the rest the others.
LEMMA SplitRange ==
    ASSUME NEW found \in Seq(Seq(ItemType)), NEW rs, NEW range, NEW p \in Nat, RangeIs(found, rs, range, p),
           NEW n \in Nat, 0 < n, n < range.count
    PROVE  LET split == SplitOffFront(found, range, n)
           IN  /\ split.front \in RangeType /\ split.rest \in RangeType
               /\ split.front.count = n /\ split.rest.count = range.count - n
               /\ RangeIs(found, rs, split.front, p)
               /\ RangeIs(found, rs, split.rest, p + n)
<1> DEFINE items == found[range.rows]
           seen == Seen(items)
           at == EndOfRows(found, range, n)
           front == [range EXCEPT !.to = at, !.count = n]
           rest == [range EXCEPT !.from = at, !.count = @ - n]
<1>1. SplitOffFront(found, range, n) = [front |-> front, rest |-> rest]
  BY DEF SplitOffFront
<1>2. /\ range \in RangeType
      /\ range.rows \in DOMAIN found /\ range.rows \in Nat
      /\ range.from \in Nat /\ range.to \in Nat /\ range.depth \in Nat /\ range.count \in Nat
      /\ range.from <= range.to /\ range.to <= Len(items)
      /\ items \in Seq(ItemType) /\ SeenIs(items, seen) /\ Len(items) \in Nat
      /\ range.count = seen[range.to] - seen[range.from]
      /\ seen[range.from] \in Nat /\ seen[range.to] \in Nat
  BY RangeFacts, LenProperties
<1>3. at \in range.from..range.to /\ seen[at] - seen[range.from] = n
  BY RowsEnd
<1>4. \A k \in (range.from + 1)..range.to : IsRow(items[k]) =>
          /\ items[k].name = p + seen[k - 1] - seen[range.from]
          /\ rs[items[k].name + 1].depth = range.depth
  BY DEF RangeIs
<1>5. /\ front.rows = range.rows /\ front.from = range.from /\ front.to = at
      /\ front.depth = range.depth /\ front.count = n
      /\ rest.rows = range.rows /\ rest.from = at /\ rest.to = range.to
      /\ rest.depth = range.depth /\ rest.count = range.count - n
  BY <1>2 DEF RangeType
<1>6. at \in Nat /\ range.count - n \in Nat
  <2> DEFINE from == range.from
             to == range.to
             count == range.count
  <2>1. from \in Nat /\ to \in Nat /\ count \in Nat /\ n < count /\ at \in from..to
    BY <1>2, <1>3
  <2> HIDE DEF from, to, count, at
  <2>2. at \in Nat /\ count - n \in Nat
    BY <2>1
  <2>3. QED
    BY <2>2 DEF count
<1>7. front \in RangeType /\ rest \in RangeType
  BY <1>2, <1>6 DEF RangeType
<1>8. at \in 0..Len(items) /\ seen[at] \in Nat
  <2>1. at \in 0..Len(items)
    <3> DEFINE from == range.from
               to == range.to
               length == Len(items)
    <3>1. from \in Nat /\ to \in Nat /\ length \in Nat /\ to <= length /\ at \in from..to
      BY <1>2, <1>3
    <3> HIDE DEF from, to, length, at
    <3>2. at \in 0..length
      BY <3>1
    <3>3. QED
      BY <3>2 DEF length
  <2>2. QED
    BY <1>2, <2>1 DEF SeenIs
<1> HIDE DEF at, front, rest, items, seen
<1>9. RangeIs(found, rs, front, p)
  <2>1. front.from <= front.to /\ front.to <= Len(items) /\ front.count = seen[front.to] - seen[front.from]
    BY <1>2, <1>3, <1>5
  <2>2. \A k \in (front.from + 1)..front.to : IsRow(items[k]) =>
          /\ items[k].name = p + seen[k - 1] - seen[front.from]
          /\ rs[items[k].name + 1].depth = front.depth
    <3>1. \A k \in (front.from + 1)..front.to : k \in (range.from + 1)..range.to
      <4> DEFINE from == range.from
                 to == range.to
      <4>1. from \in Nat /\ to \in Nat /\ at \in from..to /\ front.from = from /\ front.to = at
        BY <1>2, <1>3, <1>5
      <4> HIDE DEF from, to
      <4>2. \A k \in (from + 1)..at : k \in (from + 1)..to
        BY <4>1
      <4>3. QED
        BY <4>1, <4>2 DEF to, from
    <3>2. QED
      BY <1>4, <1>5, <3>1
  <2>3. items = found[front.rows] /\ front.rows \in DOMAIN found
    BY <1>2, <1>5 DEF items
  <2>4. QED
    BY <1>7, <2>1, <2>2, <2>3 DEF RangeIs, seen
<1>10. RangeIs(found, rs, rest, p + n)
  <2>1. rest.from <= rest.to /\ rest.to <= Len(items) /\ rest.count = seen[rest.to] - seen[rest.from]
    <3> DEFINE a == seen[at]
               f == seen[range.from]
               t == seen[range.to]
    <3>1. a \in Nat /\ f \in Nat /\ t \in Nat /\ a - f = n /\ range.count = t - f
      BY <1>2, <1>3, <1>8
    <3> HIDE DEF a, f, t
    <3>2. range.count - n = t - a
      BY <3>1
    <3>3. rest.count = t - a
      BY <1>5, <3>2
    <3>4. QED
      BY <1>2, <1>3, <1>5, <3>3 DEF t, a
  <2>2. ASSUME NEW k \in (rest.from + 1)..rest.to, IsRow(items[k])
        PROVE  /\ items[k].name = (p + n) + seen[k - 1] - seen[rest.from]
               /\ rs[items[k].name + 1].depth = rest.depth
    <3>1. k \in (range.from + 1)..range.to /\ k - 1 \in 0..Len(items)
      <4> DEFINE f == range.from
                 t == range.to
                 l == Len(items)
      <4>1. f \in Nat /\ t \in Nat /\ l \in Nat /\ at \in f..t /\ t <= l /\ k \in (at + 1)..t
        BY <1>2, <1>3, <1>5
      <4> HIDE DEF f, t, l
      <4>2. k \in (f + 1)..t /\ k - 1 \in 0..l
        BY <4>1
      <4>3. QED
        BY <4>2 DEF f, t, l
    <3>2. items[k].name = p + seen[k - 1] - seen[range.from] /\ rs[items[k].name + 1].depth = range.depth
      BY <1>4, <2>2, <3>1
    <3>3. seen[k - 1] \in Nat
      BY <1>2, <3>1 DEF SeenIs
    <3>4. p + seen[k - 1] - seen[range.from] = (p + n) + seen[k - 1] - seen[at]
      <4> DEFINE a == seen[at]
                 f == seen[range.from]
                 b == seen[k - 1]
      <4>1. a \in Nat /\ f \in Nat /\ b \in Nat /\ a - f = n
        BY <1>2, <1>3, <1>8, <3>3
      <4> HIDE DEF a, f, b
      <4>2. p + b - f = (p + n) + b - a
        BY <4>1
      <4>3. QED
        BY <4>2 DEF a, f, b
    <3>5. QED
      BY <1>5, <3>2, <3>4
  <2>3. items = found[rest.rows] /\ rest.rows \in DOMAIN found
    BY <1>2, <1>5 DEF items
  <2>4. QED
    BY <1>7, <2>1, <2>2, <2>3 DEF RangeIs, seen
<1>11. QED
  BY <1>1, <1>5, <1>7, <1>9, <1>10

\* seal's loop: what is drained is the first n rows, and what stays the others.
LEMMA DrainRanges ==
    ASSUME NEW found \in Seq(Seq(ItemType)), NEW rs, NEW ranges, NEW p \in Nat, NEW q \in Nat,
           RangesAre(found, rs, ranges, p, q), NEW n \in 1..(q - p)
    PROVE  /\ RangesAre(found, rs, Drain(found, ranges, n).sources, p, p + n)
           /\ RangesAre(found, rs, Drain(found, ranges, n).rest, p + n, q)
<1> DEFINE c == Counts(ranges)
           N == Len(ranges)
           Whole_(k) == c[k] <= n /\ (k < N => c[k + 1] > n)
           whole == CHOOSE k \in 0..N : Whole_(k)
           left == n - c[whole]
           split == SplitOffFront(found, ranges[whole + 1], left)
<1>1. /\ ranges \in Seq(RangeType) /\ N \in Nat /\ CountsIs(ranges, c) /\ p <= q
      /\ \A k \in 1..N : ranges[k] \in RangeType
      /\ \A k \in 1..N : RangeIs(found, rs, ranges[k], p + c[k - 1])
  BY RangesTypes
<1>2. c[N] = q - p /\ n \in Nat /\ n <= q - p /\ 0 < n
  BY <1>1 DEF RangesAre
<1> HIDE DEF c
<1>3. c[0] = 0 /\ \A k \in 0..N : c[k] \in Nat
  BY <1>1 DEF CountsIs
<1>4. \E k \in 0..N : Whole_(k)
  <2> SUFFICES ASSUME \A k \in 0..N : ~Whole_(k) PROVE FALSE
    OBVIOUS
  <2> DEFINE S == {k \in 0..N : c[k] <= n}
  <2>1. 0 \in S
    BY <1>1, <1>2, <1>3
  <2>2. ASSUME NEW k \in 0..(N - 1), k \in S PROVE k + 1 \in S
    <3>1. k \in 0..N /\ k + 1 \in 0..N /\ k < N
      BY <1>1
    <3>2. ~(c[k + 1] > n)
      BY <2>2, <3>1
    <3>3. QED
      BY <1>2, <1>3, <3>1, <3>2
  <2>3. N \in S
    <3> HIDE DEF S, N
    <3>1. \A k \in 0..N : k \in S
      BY <1>1, <2>1, <2>2, InductionUpTo
    <3>2. QED
      BY <1>1, <3>1
  <2>4. QED
    BY <1>1, <2>3
<1>5. whole \in 0..N /\ c[whole] <= n /\ (whole < N => c[whole + 1] > n)
  BY <1>4
<1>6. Drain(found, ranges, n) =
          IF left = 0
          THEN [sources |-> SubSeq(ranges, 1, whole),
                rest |-> SubSeq(ranges, whole + 1, Len(ranges))]
          ELSE [sources |-> Append(SubSeq(ranges, 1, whole), split.front),
                rest |-> <<split.rest>> \o SubSeq(ranges, whole + 2, Len(ranges))]
  BY DEF Drain, c
<1> HIDE DEF whole, N
<1>7. RangesAre(found, rs, SubSeq(ranges, 1, whole), p, p + c[whole])
  <2>1. 1 \in 1..(Len(ranges) + 1) /\ whole \in (1 - 1)..Len(ranges) /\ 1 - 1 = 0
    BY <1>1, <1>5 DEF N
  <2>2. RangesAre(found, rs, SubSeq(ranges, 1, whole), p + c[1 - 1], p + c[whole])
    BY <2>1, SomeRanges DEF c
  <2>3. p + c[1 - 1] = p
    BY <1>3, <2>1
  <2>4. QED
    BY <2>2, <2>3
<1>8. CASE left = 0
  <2>1. c[whole] = n
    BY <1>2, <1>3, <1>5, <1>8
  <2>2. RangesAre(found, rs, SubSeq(ranges, whole + 1, N), p + n, q)
    <3>1. whole + 1 \in 1..(Len(ranges) + 1) /\ N \in ((whole + 1) - 1)..Len(ranges) /\ (whole + 1) - 1 = whole
      BY <1>1, <1>5 DEF N
    <3>2. RangesAre(found, rs, SubSeq(ranges, whole + 1, N), p + c[(whole + 1) - 1], p + c[N])
      BY <3>1, SomeRanges DEF c
    <3>3. p + c[N] = q
      BY <1>1, <1>2
    <3>4. QED
      BY <2>1, <3>1, <3>2, <3>3
  <2>3. QED
    BY <1>6, <1>7, <1>8, <2>1, <2>2 DEF N
<1>9. CASE left # 0
  <2>1. left \in Nat /\ 0 < left /\ c[whole] + left = n /\ c[whole] \in Nat
    BY <1>2, <1>3, <1>5, <1>9
  <2>2. whole < N /\ whole + 1 \in 1..N /\ (whole + 1) - 1 = whole /\ whole \in Nat
    <3>1. whole # N
      BY <1>2, <2>1
    <3>2. QED
      BY <1>1, <1>5, <3>1
  <2> DEFINE range == ranges[whole + 1]
             next == whole + 1
  <2>3. range \in RangeType /\ RangeIs(found, rs, range, p + c[whole])
    BY <1>1, <2>2 DEF N
  <2>4. c[next] = c[whole] + range.count /\ range.count \in Nat /\ c[next] > n
    BY <1>1, <1>5, <2>2, <2>3 DEF CountsIs, RangeType, N
  <2> HIDE DEF left
  <2>5. left < range.count /\ p + c[whole] \in Nat
    BY <1>2, <2>1, <2>4
  <2> HIDE DEF range
  <2>6. /\ split.front \in RangeType /\ split.rest \in RangeType
        /\ split.front.count = left /\ split.rest.count = range.count - left
        /\ RangeIs(found, rs, split.front, p + c[whole])
        /\ RangeIs(found, rs, split.rest, (p + c[whole]) + left)
    BY <2>1, <2>3, <2>5, SplitRange DEF range
  <2> HIDE DEF split
  <2>7. RangesAre(found, rs, Append(SubSeq(ranges, 1, whole), split.front), p, p + n)
    <3>1. RangesAre(found, rs, Append(SubSeq(ranges, 1, whole), split.front), p,
                    (p + c[whole]) + split.front.count)
      BY <1>7, <2>5, <2>6, RangesAppend
    <3>2. (p + c[whole]) + split.front.count = p + n
      BY <2>1, <2>6
    <3>3. QED
      BY <3>1, <3>2
  <2>8. RangesAre(found, rs, SubSeq(ranges, whole + 2, N), p + c[next], q)
    <3>1. whole + 2 \in 1..(Len(ranges) + 1) /\ N \in ((whole + 2) - 1)..Len(ranges) /\ (whole + 2) - 1 = next
      BY <1>1, <2>2 DEF N
    <3>2. RangesAre(found, rs, SubSeq(ranges, whole + 2, N), p + c[(whole + 2) - 1], p + c[N])
      BY <3>1, SomeRanges DEF c
    <3>3. p + c[N] = q
      BY <1>1, <1>2
    <3>4. QED
      BY <3>1, <3>2, <3>3
  <2>9. RangesAre(found, rs, <<split.rest>> \o SubSeq(ranges, whole + 2, N), p + n, q)
    <3>1. p + n \in Nat /\ p + c[next] \in Nat /\ (p + n) + split.rest.count = p + c[next]
          /\ (p + c[whole]) + left = p + n
      <4> DEFINE a == c[whole]
                 b == c[next]
                 r == range.count
                 s == split.rest.count
      <4>1. a \in Nat /\ r \in Nat /\ left \in Nat /\ n \in Nat
            /\ a + left = n /\ b = a + r /\ s = r - left
        BY <1>2, <2>1, <2>4, <2>6
      <4> HIDE DEF a, b, r, s
      <4>2. p + n \in Nat /\ p + b \in Nat /\ (p + n) + s = p + b /\ (p + a) + left = p + n
        BY <4>1
      <4>3. QED
        BY <4>2 DEF a, b, s
    <3>2. QED
      BY <2>6, <2>8, <3>1, RangesCons
  <2>10. QED
    BY <1>6, <1>9, <2>7, <2>9 DEF N, left
<1>10. QED
  BY <1>8, <1>9

-----------------------------------------------------------------------------
(* More items and more rows.                                               *)

\* Scans only get more items, and there come more scans.
MoreItems(found, more) ==
    /\ found \in Seq(Seq(ItemType)) /\ more \in Seq(Seq(ItemType))
    /\ Len(found) <= Len(more)
    /\ \A s \in 1..Len(found) :
           /\ Len(found[s]) <= Len(more[s])
           /\ \A n \in 1..Len(found[s]) : more[s][n] = found[s][n]

MoreRows(rs, rt) ==
    /\ rs \in Seq(RowType) /\ rt \in Seq(RowType)
    /\ Len(rs) <= Len(rt)
    /\ \A i \in 1..Len(rs) : rt[i] = rs[i]

LEMMA ScanFacts ==
    ASSUME NEW found, NEW rs \in Seq(RowType), ScansAre(found, rs),
           NEW s \in 1..Len(found), NEW n \in 1..Len(found[s])
    PROVE  /\ found \in Seq(Seq(ItemType)) /\ found[s] \in Seq(ItemType)
           /\ found[s][n] \in ItemType
           /\ found[s][n].name \in Nat
           /\ found[s][n].kind \in Kinds \union {"skipped"}
           /\ found[s][n] = Item(found[s][n].kind, found[s][n].name)
           /\ IsRow(found[s][n]) =>
                  /\ found[s][n].name + 1 \in 1..Len(rs)
                  /\ found[s][n].kind = "directory" <=> rs[found[s][n].name + 1].dir
<1>1. found \in Seq(Seq(ItemType))
  BY DEF ScansAre
<1>2. found[s] \in Seq(ItemType)
  BY <1>1, ElementOfSeq
<1>3. found[s][n] \in ItemType
  BY <1>2, ElementOfSeq
<1>4. /\ found[s][n].name \in Nat
      /\ found[s][n].kind \in Kinds \union {"skipped"}
      /\ found[s][n] = Item(found[s][n].kind, found[s][n].name)
  BY <1>3 DEF ItemType, Item
<1>5. s \in DOMAIN found /\ n \in DOMAIN found[s]
  BY <1>1, <1>2
<1>6. IsRow(found[s][n]) =>
          /\ found[s][n].name < Len(rs)
          /\ found[s][n].kind = "directory" <=> rs[found[s][n].name + 1].dir
  BY <1>5 DEF ScansAre
<1>7. Len(rs) \in Nat
  BY LenProperties
<1>8. QED
  BY <1>1, <1>2, <1>3, <1>4, <1>6, <1>7

LEMMA RangeMore ==
    ASSUME NEW found, NEW rs, NEW more, NEW rt, ScansAre(found, rs), MoreItems(found, more), MoreRows(rs, rt),
           NEW range, NEW p \in Nat, RangeIs(found, rs, range, p)
    PROVE  RangeIs(more, rt, range, p)
<1> DEFINE items == found[range.rows]
           later == more[range.rows]
           seen == Seen(items)
           new == Seen(later)
<1>1. /\ range \in RangeType /\ range.rows \in 1..Len(found)
      /\ range.from \in Nat /\ range.to \in Nat
      /\ range.from <= range.to /\ range.to <= Len(items)
      /\ items \in Seq(ItemType) /\ Len(items) \in Nat
  <2>1. found \in Seq(Seq(ItemType))
    BY DEF ScansAre
  <2>2. DOMAIN found = 1..Len(found)
    BY <2>1
  <2>3. QED
    BY <2>1, <2>2, RangeFacts, LenProperties
<1>2. /\ range.rows \in DOMAIN more
      /\ later \in Seq(ItemType)
      /\ Len(items) <= Len(later) /\ Len(later) \in Nat
      /\ \A n \in 1..Len(items) : later[n] = items[n]
  <2>1. more \in Seq(Seq(ItemType)) /\ range.rows \in 1..Len(more)
    <3>1. Len(found) \in Nat /\ Len(more) \in Nat
      BY LenProperties DEF MoreItems
    <3>2. QED
      BY <1>1, <3>1 DEF MoreItems
  <2>2. later \in Seq(ItemType) /\ Len(later) \in Nat
    BY <2>1, ElementOfSeq, LenProperties
  <2>3. range.rows \in DOMAIN more
    BY <2>1, LenProperties
  <2>4. Len(items) <= Len(later) /\ \A n \in 1..Len(items) : later[n] = items[n]
    BY <1>1 DEF MoreItems
  <2>5. QED
    BY <2>2, <2>3, <2>4
<1>3. \A n \in 0..Len(items) : new[n] = seen[n]
  BY <1>1, <1>2, SeenSame
<1>4. /\ range.count = seen[range.to] - seen[range.from]
      /\ \A n \in (range.from + 1)..range.to :
             IsRow(items[n]) =>
                 /\ items[n].name = p + seen[n - 1] - seen[range.from]
                 /\ rs[items[n].name + 1].depth = range.depth
  BY DEF RangeIs
<1>5. ASSUME NEW n \in (range.from + 1)..range.to, IsRow(later[n])
      PROVE  /\ later[n].name = p + new[n - 1] - new[range.from]
             /\ rt[later[n].name + 1].depth = range.depth
  <2>1. /\ n \in 1..Len(items) /\ n - 1 \in 0..Len(items) /\ range.from \in 0..Len(items)
    BY <1>1
  <2>2. later[n] = items[n]
    BY <1>2, <2>1
  <2>3. items[n].name + 1 \in 1..Len(rs)
    <3>1. rs \in Seq(RowType)
      BY DEF MoreRows
    <3>2. IsRow(items[n])
      BY <1>5, <2>2
    <3>3. QED
      BY <1>1, <2>1, <3>1, <3>2, ScanFacts
  <2>4. rt[items[n].name + 1] = rs[items[n].name + 1]
    BY <2>3 DEF MoreRows
  <2>5. new[n - 1] = seen[n - 1] /\ new[range.from] = seen[range.from]
    BY <1>3, <2>1
  <2> HIDE DEF items, later, seen, new
  <2>6. IsRow(items[n])
    BY <1>5, <2>2
  <2>7. QED
    BY <1>4, <2>2, <2>4, <2>5, <2>6
<1>6. new[range.to] = seen[range.to] /\ new[range.from] = seen[range.from] /\ range.to <= Len(later)
  <2>1. range.to \in 0..Len(items) /\ range.from \in 0..Len(items)
    BY <1>1
  <2>2. QED
    BY <1>1, <1>2, <1>3, <2>1
<1>7. range.count = new[range.to] - new[range.from]
  BY <1>4, <1>6
<1>8. QED
  BY <1>1, <1>2, <1>5, <1>6, <1>7 DEF RangeIs

LEMMA RangesMore ==
    ASSUME NEW found, NEW rs, NEW more, NEW rt, ScansAre(found, rs), MoreItems(found, more), MoreRows(rs, rt),
           NEW ranges, NEW p \in Nat, NEW q \in Nat, RangesAre(found, rs, ranges, p, q)
    PROVE  RangesAre(more, rt, ranges, p, q)
<1>1. ranges \in Seq(RangeType) /\ Counts(ranges)[Len(ranges)] = q - p
  BY DEF RangesAre
<1>2. ASSUME NEW k \in DOMAIN ranges
      PROVE  RangeIs(more, rt, ranges[k], p + Counts(ranges)[k - 1])
  <2>1. k \in 1..Len(ranges) /\ Len(ranges) \in Nat
    BY <1>1
  <2>2. CountsIs(ranges, Counts(ranges)) /\ RangeIs(found, rs, ranges[k], p + Counts(ranges)[k - 1])
    BY <2>1, RangesTypes
  <2>3. k - 1 \in 0..Len(ranges)
    BY <2>1
  <2>4. Counts(ranges)[k - 1] \in Nat
    BY <2>2, <2>3 DEF CountsIs
  <2>5. p + Counts(ranges)[k - 1] \in Nat
    BY <2>4
  <2>6. QED
    BY <2>2, <2>5, RangeMore
<1>3. QED
  BY <1>1, <1>2 DEF RangesAre

\* The next item of a scan is a row.
Comes(more, rt, scan, index, depth, q) ==
    /\ more \in Seq(Seq(ItemType))
    /\ scan \in DOMAIN more
    /\ index + 1 = Len(more[scan])
    /\ IsRow(more[scan][index + 1])
    /\ more[scan][index + 1].name = q
    /\ rt[q + 1].depth = depth

\* It is a range of its own.
LEMMA OneRow ==
    ASSUME NEW more, NEW rt, NEW scan, NEW index \in Nat, NEW depth \in Nat, NEW q \in Nat,
           Comes(more, rt, scan, index, depth, q)
    PROVE  /\ RangeOf(scan, index, depth) \in RangeType
           /\ RangeOf(scan, index, depth).count = 1
           /\ RangeIs(more, rt, RangeOf(scan, index, depth), q)
<1> DEFINE items == more[scan]
           seen == Seen(items)
           range == RangeOf(scan, index, depth)
<1>1. more \in Seq(Seq(ItemType)) /\ scan \in DOMAIN more /\ scan \in Nat
      /\ items \in Seq(ItemType) /\ Len(items) = index + 1
  <2>1. more \in Seq(Seq(ItemType)) /\ scan \in DOMAIN more /\ Len(items) = index + 1
    BY DEF Comes
  <2>2. scan \in 1..Len(more)
    BY <2>1
  <2>3. QED
    BY <2>1, <2>2, ElementOfSeq
<1>2. SeenIs(items, seen)
  BY <1>1, SeenFacts
<1>3. /\ range.rows = scan /\ range.from = index /\ range.to = index + 1
      /\ range.depth = depth /\ range.count = 1
      /\ range \in RangeType
  BY <1>1 DEF RangeOf, RangeType
<1> HIDE DEF seen, range
<1>4. index + 1 \in 1..Len(items) /\ (index + 1) - 1 = index /\ index \in 0..Len(items)
  BY <1>1
<1>5. seen[index + 1] = seen[index] + 1 /\ seen[index] \in Nat
  <2>1. seen[index + 1] = seen[index] + One(items, index + 1) /\ seen[index] \in Nat
    BY <1>2, <1>4 DEF SeenIs
  <2>2. IsRow(items[index + 1])
    BY DEF Comes
  <2>3. QED
    BY <2>1, <2>2 DEF One
<1>6. ASSUME NEW n \in (range.from + 1)..range.to
      PROVE  /\ items[n].name = q + seen[n - 1] - seen[range.from]
             /\ rt[items[n].name + 1].depth = range.depth
  <2>1. n = index + 1 /\ n - 1 = index
    BY <1>3
  <2>2. items[n].name = q /\ rt[q + 1].depth = depth
    BY <2>1 DEF Comes
  <2>3. q + seen[n - 1] - seen[range.from] = q
    <3> DEFINE a == seen[index]
    <3>1. a \in Nat /\ seen[n - 1] = a /\ seen[range.from] = a
      BY <1>3, <1>5, <2>1
    <3> HIDE DEF a
    <3>2. q + a - a = q
      BY <3>1
    <3>3. QED
      BY <3>1, <3>2
  <2>4. QED
    BY <1>3, <2>2, <2>3
<1>7. range.count = seen[range.to] - seen[range.from]
  BY <1>3, <1>5
<1>8. RangeIs(more, rt, range, q)
  BY <1>1, <1>3, <1>6, <1>7 DEF RangeIs, seen
<1>9. QED
  BY <1>3, <1>8 DEF range

Longer(range, to) == [range EXCEPT !.to = to, !.count = @ + 1]

LEMMA LongerFacts ==
    ASSUME NEW range \in RangeType, NEW to \in Nat
    PROVE  /\ Longer(range, to) \in RangeType
           /\ Longer(range, to).rows = range.rows
           /\ Longer(range, to).from = range.from
           /\ Longer(range, to).to = to
           /\ Longer(range, to).depth = range.depth
           /\ Longer(range, to).count = range.count + 1
<1>1. range.rows \in Nat /\ range.from \in Nat /\ range.depth \in Nat /\ range.count \in Nat
  BY DEF RangeType
<1>2. range.count + 1 \in Nat
  BY <1>1
<1>3. QED
  BY <1>1, <1>2 DEF RangeType, Longer

\* Or the range right before it goes on.
LEMMA GoesOnRow ==
    ASSUME NEW more, NEW rt, NEW scan, NEW index \in Nat, NEW depth \in Nat, NEW q \in Nat,
           Comes(more, rt, scan, index, depth, q),
           NEW range, NEW p \in Nat, RangeIs(more, rt, range, p), p + range.count = q,
           GoesOn(range, scan, index, depth)
    PROVE  /\ Longer(range, index + 1) \in RangeType
           /\ Longer(range, index + 1).count = range.count + 1
           /\ RangeIs(more, rt, Longer(range, index + 1), p)
<1> DEFINE items == more[scan]
           seen == Seen(items)
           longer == Longer(range, index + 1)
<1>1. more \in Seq(Seq(ItemType)) /\ scan \in DOMAIN more /\ Len(items) = index + 1
  BY DEF Comes
<1>2. range.rows = scan /\ range.to = index /\ range.depth = depth
  BY DEF GoesOn
<1>3. /\ range \in RangeType /\ range.from \in Nat /\ range.count \in Nat
      /\ range.from <= index
      /\ items \in Seq(ItemType) /\ SeenIs(items, seen)
      /\ range.count = seen[index] - seen[range.from]
  BY <1>1, <1>2, RangeFacts
<1>4. /\ longer.rows = scan /\ longer.from = range.from /\ longer.to = index + 1
      /\ longer.depth = depth /\ longer.count = range.count + 1
      /\ longer \in RangeType
  <2>1. index + 1 \in Nat
    OBVIOUS
  <2>2. QED
    BY <1>2, <1>3, <2>1, LongerFacts
<1>5. index + 1 \in 1..Len(items) /\ (index + 1) - 1 = index /\ index \in 0..Len(items)
      /\ range.from \in 0..Len(items)
  BY <1>1, <1>3
<1>6. /\ \A n \in (range.from + 1)..range.to :
             IsRow(items[n]) =>
                 /\ items[n].name = p + seen[n - 1] - seen[range.from]
                 /\ rt[items[n].name + 1].depth = range.depth
  BY <1>2 DEF RangeIs
<1> HIDE DEF seen, longer
<1>7. seen[index + 1] = seen[index] + 1 /\ seen[index] \in Nat /\ seen[range.from] \in Nat
  <2>1. seen[index + 1] = seen[index] + One(items, index + 1) /\ seen[index] \in Nat /\ seen[range.from] \in Nat
    BY <1>3, <1>5 DEF SeenIs
  <2>2. IsRow(items[index + 1])
    BY DEF Comes
  <2>3. QED
    BY <2>1, <2>2 DEF One
<1>8. ASSUME NEW n \in (longer.from + 1)..longer.to, IsRow(items[n])
      PROVE  /\ items[n].name = p + seen[n - 1] - seen[longer.from]
             /\ rt[items[n].name + 1].depth = longer.depth
  <2>1. CASE n = index + 1
    <3>1. n - 1 = index
      BY <2>1
    <3>2. items[n].name = q /\ rt[q + 1].depth = depth
      BY <2>1 DEF Comes
    <3>3. p + seen[n - 1] - seen[longer.from] = q
      <4> DEFINE a == seen[index]
                 b == seen[range.from]
                 c == range.count
      <4>1. a \in Nat /\ b \in Nat /\ c \in Nat /\ c = a - b /\ p + c = q
            /\ seen[n - 1] = a /\ seen[longer.from] = b
        BY <1>3, <1>4, <1>7, <3>1
      <4> HIDE DEF a, b, c
      <4>2. p + a - b = q
        BY <4>1
      <4>3. QED
        BY <4>1, <4>2
    <3>4. QED
      BY <1>4, <3>2, <3>3
  <2>2. CASE n # index + 1
    <3>1. n \in (range.from + 1)..range.to
      BY <1>2, <1>3, <1>4, <2>2
    <3>2. QED
      BY <1>2, <1>4, <1>6, <1>8, <3>1
  <2>3. QED
    BY <2>1, <2>2
<1>9. longer.count = seen[longer.to] - seen[longer.from]
  <2> DEFINE a == seen[index]
             b == seen[range.from]
             c == range.count
  <2>1. a \in Nat /\ b \in Nat /\ c = a - b /\ seen[longer.to] = a + 1 /\ seen[longer.from] = b
        /\ longer.count = c + 1
    BY <1>3, <1>4, <1>7
  <2> HIDE DEF a, b, c
  <2>2. c + 1 = (a + 1) - b
    BY <2>1
  <2>3. QED
    BY <2>1, <2>2
<1>10. longer.from <= longer.to /\ longer.to <= Len(items)
  BY <1>1, <1>3, <1>4
<1>11. RangeIs(more, rt, longer, p)
  BY <1>1, <1>4, <1>8, <1>9, <1>10 DEF RangeIs, seen
<1>12. QED
  BY <1>4, <1>11 DEF longer

\* extend_waiting: the ranges have the next row too.
LEMMA ExtendedRanges ==
    ASSUME NEW more, NEW rt, base \in Nat, position \in Nat, Top - 1 \in Nat,
           RangesAre(more, rt, waiting, base, position),
           Len(scans[reading[Top]]) \in Nat,
           Comes(more, rt, reading[Top], Len(scans[reading[Top]]), Top - 1, position)
    PROVE  RangesAre(more, rt, Extended, base, position + 1)
<1> DEFINE scan == reading[Top]
           index == Len(scans[scan])
           depth == Top - 1
           goes == waiting # <<>> /\ GoesOn(Last(waiting), scan, index, depth)
           N == Len(waiting)
           c == Counts(waiting)
<1>0. depth \in Nat /\ index \in Nat
  OBVIOUS
<1>1. Comes(more, rt, scan, index, depth, position)
  OBVIOUS
<1>2. Extended = IF goes
                 THEN Front(waiting) \o
                          <<Longer(Last(waiting), index + 1)>>
                 ELSE Append(waiting, RangeOf(scan, index, depth))
  BY DEF Extended, Longer
<1>3. waiting \in Seq(RangeType) /\ N \in Nat /\ CountsIs(waiting, c)
  BY RangesTypes
<1> HIDE DEF scan, index, depth
<1>4. CASE ~goes
  <2>1. Extended = Append(waiting, RangeOf(scan, index, depth))
    BY <1>2, <1>4
  <2>2. /\ RangeOf(scan, index, depth) \in RangeType
        /\ RangeOf(scan, index, depth).count = 1
        /\ RangeIs(more, rt, RangeOf(scan, index, depth), position)
    BY <1>0, <1>1, OneRow
  <2> DEFINE range == RangeOf(scan, index, depth)
  <2> HIDE DEF range
  <2>3. RangesAre(more, rt, Append(waiting, range), base, position + range.count)
    BY <2>2, RangesAppend DEF range
  <2>4. QED
    BY <2>1, <2>2, <2>3 DEF range
<1>5. CASE goes
  <2> DEFINE front == SubSeq(waiting, 1, N - 1)
             range == waiting[N]
             longer == Longer(range, index + 1)
             o == base + c[N - 1]
  <2>1. N \in 1..N /\ N - 1 \in 0..N /\ N - 1 \in Nat
    BY <1>3, <1>5
  <2>2. /\ Extended = Append(front, longer)
        /\ GoesOn(range, scan, index, depth)
    <3>1. Last(waiting) = range /\ Front(waiting) = front
      BY <1>5 DEF Last, Front
    <3>2. Extended = front \o <<longer>>
      BY <1>2, <1>5, <3>1
    <3>3. front \in Seq(RangeType)
      BY <1>3, <2>1
    <3>4. longer \in RangeType
      <4>1. range \in RangeType
        BY <1>3, <2>1, ElementOfSeq
      <4>2. QED
        <5>1. index + 1 \in Nat
          BY <1>0
        <5>2. QED
          BY <4>1, <5>1, LongerFacts
    <3> HIDE DEF front, longer
    <3>5. front \o <<longer>> = Append(front, longer)
      BY <3>3, <3>4
    <3>6. QED
      BY <1>5, <3>1, <3>2, <3>5
  <2>3. c[N - 1] \in Nat /\ o \in Nat /\ c[N] = c[N - 1] + range.count /\ range.count \in Nat /\ c[0] = 0
        /\ base + c[0] = base
    <3>1. range \in RangeType
      BY <1>3, <2>1, ElementOfSeq
    <3>2. range.count \in Nat
      BY <3>1 DEF RangeType
    <3>3. c[N - 1] \in Nat /\ c[0] = 0
      BY <1>3, <2>1 DEF CountsIs
    <3>4. c[N] = c[N - 1] + waiting[N].count
      BY <1>3, <2>1 DEF CountsIs
    <3>5. QED
      BY <3>2, <3>3, <3>4
  <2>4. RangeIs(more, rt, range, o)
    BY <2>1, RangesTypes
  <2>5. o + range.count = position
    <3>1. c[N] = position - base
      BY DEF RangesAre
    <3> DEFINE a == c[N - 1]
               b == range.count
    <3>2. a \in Nat /\ b \in Nat /\ a + b = position - base
      BY <2>3, <3>1
    <3> HIDE DEF a, b
    <3>3. (base + a) + b = position
      BY <3>2
    <3>4. QED
      BY <3>3 DEF a, b
  <2>6. RangesAre(more, rt, front, base, o)
    <3>1. 1 \in 1..(N + 1) /\ N - 1 \in (1 - 1)..N /\ 1 - 1 = 0
      BY <1>3, <2>1
    <3>2. RangesAre(more, rt, front, base + c[1 - 1], o)
      BY <3>1, SomeRanges
    <3>3. QED
      BY <2>3, <3>1, <3>2
  <2> HIDE DEF front, range, o, c, N
  <2>7. /\ longer \in RangeType /\ longer.count = range.count + 1
        /\ RangeIs(more, rt, longer, o)
    <3>1. GoesOn(range, scan, index, depth)
      BY <2>2
    <3> HIDE <1>2, <1>3, <1>4, <1>5, <2>1, <2>2
    <3>2. QED
      BY <1>0, <1>1, <2>3, <2>4, <2>5, <3>1, GoesOnRow
  <2> HIDE DEF longer
  <2>8. RangesAre(more, rt, Append(front, longer), base, o + longer.count)
    BY <2>3, <2>6, <2>7, RangesAppend
  <2>9. o + longer.count = position + 1
    BY <2>3, <2>5, <2>7
  <2>10. QED
    BY <2>2, <2>8, <2>9
<1>6. QED
  BY <1>4, <1>5

-----------------------------------------------------------------------------
(* Parts.                                                                  *)

LEMMA PartFields ==
    ASSUME NEW part \in PartTypes
    PROVE  /\ part.stem \in Seq(Seq(Nat)) /\ Len(part.stem) \in Nat
           /\ part.directories \in Seq(TableRowType) /\ Len(part.directories) \in Nat
           /\ part.files \in Seq(TableRowType) /\ Len(part.files) \in Nat
           /\ part.symlinks \in Seq(TableRowType) /\ Len(part.symlinks) \in Nat
           /\ part.nodes \in Seq(Nat) /\ Len(part.nodes) \in Nat
BY LenProperties DEF PartTypes

LEMMA TableRowFacts ==
    ASSUME NEW parent \in Nat, NEW item, item.name \in Nat
    PROVE  /\ Row(parent, item) \in TableRowType
           /\ Row(parent, item).parent = parent
           /\ Row(parent, item).name = <<item.name>>
BY DEF TableRowType, Row

\* The row that push adds for the row at q.
RowOf(part, kind, q, depth) == Row(part.nodes[depth + 1], Item(kind, q))

LEMMA RowOfFacts ==
    ASSUME NEW part, NEW kind, NEW q \in Nat, NEW depth, part.nodes[depth + 1] \in Nat
    PROVE  /\ RowOf(part, kind, q, depth) \in TableRowType
           /\ RowOf(part, kind, q, depth).parent = part.nodes[depth + 1]
           /\ RowOf(part, kind, q, depth).name = <<q>>
<1> DEFINE node == part.nodes[depth + 1]
<1>1. node \in Nat
  OBVIOUS
<1> HIDE DEF node
<1> DEFINE item == Item(kind, q)
<1>2. item.name = q
  BY DEF Item
<1> HIDE DEF item
<1>3. /\ Row(node, item) \in TableRowType
      /\ Row(node, item).parent = node
      /\ Row(node, item).name = <<q>>
  BY <1>1, <1>2, TableRowFacts
<1>4. QED
  BY <1>3 DEF RowOf, node, item

DirectoriesWith(part, q, depth) ==
    [part EXCEPT
        !.directories = Append(@, RowOf(part, "directory", q, depth)),
        !.nodes = NodesWith(@, depth, DirectoryNode(part, Len(part.directories)))]

FilesWith(part, q, depth) ==
    [part EXCEPT !.files = Append(@, RowOf(part, "file", q, depth))]

SymlinksWith(part, q, depth) ==
    [part EXCEPT !.symlinks = Append(@, RowOf(part, "symlink", q, depth))]

LEMMA PushIs ==
    ASSUME NEW part, NEW q, NEW depth
    PROVE  /\ Push(part, Item("directory", q), depth) = DirectoriesWith(part, q, depth)
           /\ Push(part, Item("file", q), depth) = FilesWith(part, q, depth)
           /\ Push(part, Item("symlink", q), depth) = SymlinksWith(part, q, depth)
           /\ Push(part, Item("skipped", q), depth) = part
<1>1. \A kind : Item(kind, q).kind = kind
  BY DEF Item
<1>2. Push(part, Item("directory", q), depth) = DirectoriesWith(part, q, depth)
  BY <1>1 DEF Push, DirectoriesWith, RowOf
<1>3. Push(part, Item("file", q), depth) = FilesWith(part, q, depth)
  BY <1>1 DEF Push, FilesWith, RowOf
<1>4. Push(part, Item("symlink", q), depth) = SymlinksWith(part, q, depth)
  BY <1>1 DEF Push, SymlinksWith, RowOf
<1>5. Push(part, Item("skipped", q), depth) = part
  BY <1>1 DEF Push
<1>6. QED
  BY <1>2, <1>3, <1>4, <1>5

LEMMA FilesFields ==
    ASSUME NEW part \in PartTypes, NEW q \in Nat, NEW depth \in Nat, part.nodes[depth + 1] \in Nat
    PROVE  /\ FilesWith(part, q, depth) \in PartTypes
           /\ FilesWith(part, q, depth).stem = part.stem
           /\ FilesWith(part, q, depth).directories = part.directories
           /\ FilesWith(part, q, depth).files = Append(part.files, RowOf(part, "file", q, depth))
           /\ FilesWith(part, q, depth).symlinks = part.symlinks
           /\ FilesWith(part, q, depth).nodes = part.nodes
<1>1. RowOf(part, "file", q, depth) \in TableRowType
  BY RowOfFacts
<1>2. Append(part.files, RowOf(part, "file", q, depth)) \in Seq(TableRowType)
  BY <1>1, PartFields
<1>3. QED
  BY <1>2 DEF FilesWith, PartTypes

LEMMA SymlinksFields ==
    ASSUME NEW part \in PartTypes, NEW q \in Nat, NEW depth \in Nat, part.nodes[depth + 1] \in Nat
    PROVE  /\ SymlinksWith(part, q, depth) \in PartTypes
           /\ SymlinksWith(part, q, depth).stem = part.stem
           /\ SymlinksWith(part, q, depth).directories = part.directories
           /\ SymlinksWith(part, q, depth).files = part.files
           /\ SymlinksWith(part, q, depth).symlinks
                  = Append(part.symlinks, RowOf(part, "symlink", q, depth))
           /\ SymlinksWith(part, q, depth).nodes = part.nodes
<1>1. RowOf(part, "symlink", q, depth) \in TableRowType
  BY RowOfFacts
<1>2. Append(part.symlinks, RowOf(part, "symlink", q, depth)) \in Seq(TableRowType)
  BY <1>1, PartFields
<1>3. QED
  BY <1>2 DEF SymlinksWith, PartTypes

LEMMA NodesFacts ==
    ASSUME NEW nodes \in Seq(Nat), NEW depth \in Nat, depth + 1 \in DOMAIN nodes, NEW node \in Nat
    PROVE  /\ NodesWith(nodes, depth, node) \in Seq(Nat)
           /\ Len(NodesWith(nodes, depth, node)) = depth + 2
           /\ \A d \in 0..depth : NodesWith(nodes, depth, node)[d + 1] = nodes[d + 1]
           /\ NodesWith(nodes, depth, node)[depth + 2] = node
<1> DEFINE some == SubSeq(nodes, 1, depth + 1)
<1>1. depth + 1 <= Len(nodes) /\ Len(nodes) \in Nat
  BY LenProperties
<1>2. some \in Seq(Nat) /\ Len(some) = depth + 1 /\ \A k \in 1..(depth + 1) : some[k] = nodes[k]
  BY <1>1
<1> HIDE DEF some
<1>3. Append(some, node) \in Seq(Nat) /\ Len(Append(some, node)) = depth + 2
      /\ Append(some, node)[depth + 2] = node
      /\ \A k \in 1..(depth + 1) : Append(some, node)[k] = some[k]
  BY <1>2
<1>4. NodesWith(nodes, depth, node) = Append(some, node)
  BY DEF NodesWith, some
<1>5. \A d \in 0..depth : d + 1 \in 1..(depth + 1)
  OBVIOUS
<1>6. QED
  BY <1>2, <1>3, <1>4, <1>5

LEMMA DirectoriesFields ==
    ASSUME NEW part \in PartTypes, NEW q \in Nat, NEW depth \in Nat, depth + 1 \in DOMAIN part.nodes
    PROVE  LET node == DirectoryNode(part, Len(part.directories))
           IN  /\ DirectoriesWith(part, q, depth) \in PartTypes
               /\ node = Len(part.stem) + Len(part.directories) + 1
               /\ DirectoriesWith(part, q, depth).stem = part.stem
               /\ DirectoriesWith(part, q, depth).directories
                      = Append(part.directories, RowOf(part, "directory", q, depth))
               /\ DirectoriesWith(part, q, depth).files = part.files
               /\ DirectoriesWith(part, q, depth).symlinks = part.symlinks
               /\ DirectoriesWith(part, q, depth).nodes = NodesWith(part.nodes, depth, node)
<1> DEFINE node == DirectoryNode(part, Len(part.directories))
<1>1. part.nodes[depth + 1] \in Nat
  BY PartFields, ElementOfSeq
<1>2. RowOf(part, "directory", q, depth) \in TableRowType
  BY <1>1, RowOfFacts
<1>3. Append(part.directories, RowOf(part, "directory", q, depth)) \in Seq(TableRowType)
  BY <1>2, PartFields
<1>4. node = Len(part.stem) + Len(part.directories) + 1 /\ node \in Nat
  <2> DEFINE a == Len(part.stem)
             b == Len(part.directories)
  <2>1. a \in Nat /\ b \in Nat /\ node = 1 + a + b
    BY PartFields DEF DirectoryNode
  <2> HIDE DEF a, b, node
  <2>2. node = a + b + 1 /\ node \in Nat
    BY <2>1
  <2>3. QED
    BY <2>2 DEF a, b
<1> HIDE DEF node
<1>5. NodesWith(part.nodes, depth, node) \in Seq(Nat)
  BY <1>4, PartFields, NodesFacts
<1>6. QED
  BY <1>3, <1>4, <1>5 DEF DirectoriesWith, PartTypes, node

-----------------------------------------------------------------------------
(* Tables that grow.                                                       *)

\* The later part has the nodes of the earlier one, at the same places.
Keeps(rs, part, later) ==
    \A n \in Nodes(part) : n \in Nodes(later) /\ Leads(rs, later, n) = Leads(rs, part, n)

LEMMA KeepsSame ==
    ASSUME NEW rs, NEW part, NEW later, later.stem = part.stem, later.directories = part.directories
    PROVE  Keeps(rs, part, later)
BY DEF Keeps, Nodes, Leads

LEMMA KeepsMore ==
    ASSUME NEW rs, NEW part \in PartTypes, NEW later, later.stem = part.stem,
           NEW row \in TableRowType, later.directories = Append(part.directories, row)
    PROVE  Keeps(rs, part, later)
<1>1. Len(part.stem) \in Nat /\ Len(part.directories) \in Nat /\ part.directories \in Seq(TableRowType)
  BY PartFields
<1>2. Len(later.directories) = Len(part.directories) + 1
      /\ \A k \in 1..Len(part.directories) : later.directories[k] = part.directories[k]
  BY <1>1
<1>3. ASSUME NEW n \in Nodes(part)
      PROVE  n \in Nodes(later) /\ Leads(rs, later, n) = Leads(rs, part, n)
  <2> DEFINE a == Len(part.stem)
             b == Len(part.directories)
  <2>1. n \in 0..(a + b) /\ a \in Nat /\ b \in Nat
    BY <1>1 DEF Nodes
  <2>2. n \in Nodes(later)
    <3>1. Nodes(later) = 0..(a + (b + 1))
      BY <1>2 DEF Nodes
    <3> HIDE DEF a, b
    <3>2. QED
      BY <2>1, <3>1
  <2>3. CASE n <= Len(part.stem)
    BY <2>2, <2>3 DEF Leads
  <2>4. CASE ~(n <= Len(part.stem))
    <3>1. n - Len(part.stem) \in 1..Len(part.directories)
      <4>1. ~(n <= a)
        BY <2>4
      <4> HIDE DEF a, b
      <4>2. n - a \in 1..b
        BY <2>1, <4>1
      <4>3. QED
        BY <4>2 DEF a, b
    <3>2. later.directories[n - Len(part.stem)] = part.directories[n - Len(part.stem)]
      BY <1>2, <3>1
    <3>3. QED
      BY <2>2, <2>4, <3>2 DEF Leads
  <2>5. QED
    BY <2>3, <2>4
<1>4. QED
  BY <1>3 DEF Keeps

LEMMA TableStays ==
    ASSUME NEW found, NEW rs, NEW part, NEW later, Keeps(rs, part, later),
           NEW table, NEW kind, NEW first \in Nat, NEW q \in Nat,
           TableIs(found, rs, part, table, kind, first, q)
    PROVE  TableIs(found, rs, later, table, kind, first, q + 1)
<1>1. ASSUME NEW k \in DOMAIN table
      PROVE  \E p \in first..((q + 1) - 1) :
                /\ table[k].name = <<p>>
                /\ Named(found, kind, p)
                /\ table[k].parent \in Nodes(later)
                /\ Leads(rs, later, table[k].parent) = FrontOf(rs, p)
  <2>1. PICK p \in first..(q - 1) :
            /\ table[k].name = <<p>>
            /\ Named(found, kind, p)
            /\ table[k].parent \in Nodes(part)
            /\ Leads(rs, part, table[k].parent) = FrontOf(rs, p)
    BY DEF TableIs
  <2>2. p \in first..((q + 1) - 1)
    OBVIOUS
  <2>3. QED
    BY <2>1, <2>2 DEF Keeps
<1>2. \A k, l \in DOMAIN table : k < l => table[k].name[1] < table[l].name[1]
  BY DEF TableIs
<1>3. QED
  BY <1>1, <1>2 DEF TableIs

LEMMA TableAppends ==
    ASSUME NEW found, NEW rs, NEW part, NEW later, Keeps(rs, part, later),
           NEW table \in Seq(TableRowType), NEW kind, NEW first \in Nat, NEW q \in Nat, first <= q,
           TableIs(found, rs, part, table, kind, first, q),
           NEW row \in TableRowType, row.name = <<q>>, Named(found, kind, q),
           row.parent \in Nodes(part), Leads(rs, part, row.parent) = FrontOf(rs, q)
    PROVE  TableIs(found, rs, later, Append(table, row), kind, first, q + 1)
<1> DEFINE more == Append(table, row)
           N == Len(table)
<1>1. N \in Nat /\ more \in Seq(TableRowType) /\ DOMAIN more = 1..(N + 1) /\ DOMAIN table = 1..N
      /\ more[N + 1] = row /\ \A k \in 1..N : more[k] = table[k]
  BY LenProperties
<1> HIDE DEF more, N
<1>2. TableIs(found, rs, later, table, kind, first, q + 1)
  BY TableStays
<1>3. ASSUME NEW k \in DOMAIN more
      PROVE  \E p \in first..((q + 1) - 1) :
                /\ more[k].name = <<p>>
                /\ Named(found, kind, p)
                /\ more[k].parent \in Nodes(later)
                /\ Leads(rs, later, more[k].parent) = FrontOf(rs, p)
  <2>1. CASE k = N + 1
    <3>1. more[k] = row /\ q \in first..((q + 1) - 1)
      BY <1>1, <2>1
    <3>2. row.parent \in Nodes(later) /\ Leads(rs, later, row.parent) = FrontOf(rs, q)
      BY DEF Keeps
    <3>3. QED
      BY <3>1, <3>2
  <2>2. CASE k # N + 1
    <3>1. k \in DOMAIN table /\ more[k] = table[k]
      BY <1>1, <2>2
    <3>2. QED
      BY <1>2, <3>1 DEF TableIs
  <2>3. QED
    BY <2>1, <2>2
<1>4. ASSUME NEW k \in DOMAIN more, NEW l \in DOMAIN more, k < l
      PROVE  more[k].name[1] < more[l].name[1]
  <2>1. k \in 1..N /\ k \in DOMAIN table /\ more[k] = table[k]
    BY <1>1, <1>4
  <2>2. CASE l = N + 1
    <3>1. PICK p \in first..(q - 1) : table[k].name = <<p>>
      BY <2>1 DEF TableIs
    <3>2. more[k].name[1] = p /\ more[l].name[1] = q
      BY <1>1, <2>1, <2>2, <3>1
    <3>3. QED
      BY <3>2
  <2>3. CASE l # N + 1
    <3>1. l \in DOMAIN table /\ more[l] = table[l]
      BY <1>1, <2>3
    <3>2. QED
      BY <1>4, <2>1, <3>1 DEF TableIs
  <2>4. QED
    BY <2>2, <2>3
<1>5. QED
  BY <1>3, <1>4 DEF TableIs, more

LEMMA HasMore ==
    ASSUME NEW table \in Seq(TableRowType), NEW row \in TableRowType
    PROVE  /\ \A p : HasRow(table, p) => HasRow(Append(table, row), p)
           /\ \A p : row.name = <<p>> => HasRow(Append(table, row), p)
<1> DEFINE more == Append(table, row)
           N == Len(table)
<1>1. N \in Nat /\ DOMAIN more = 1..(N + 1) /\ DOMAIN table = 1..N
      /\ more[N + 1] = row /\ \A k \in 1..N : more[k] = table[k]
  BY LenProperties
<1>2. N + 1 \in DOMAIN more /\ DOMAIN table \subseteq DOMAIN more
  BY <1>1
<1> HIDE DEF more, N
<1>3. ASSUME NEW p, HasRow(table, p) PROVE HasRow(more, p)
  <2>1. PICK k \in DOMAIN table : table[k].name = <<p>>
    BY <1>3 DEF HasRow
  <2>2. k \in DOMAIN more /\ more[k] = table[k]
    BY <1>1, <1>2, <2>1
  <2>3. QED
    BY <2>1, <2>2 DEF HasRow
<1>4. ASSUME NEW p, row.name = <<p>> PROVE HasRow(more, p)
  BY <1>1, <1>2, <1>4 DEF HasRow
<1>5. QED
  BY <1>3, <1>4 DEF more

-----------------------------------------------------------------------------
(* Sequences.                                                              *)

LEMMA TreeLength ==
    ASSUME NEW rs, Tree(rs)
    PROVE  Len(rs) \in Nat /\ rs \in Seq(RowType)
BY LenProperties DEF Tree

LEMMA SubSeqOfAppend ==
    ASSUME NEW s \in Seq(Seq(Nat)), NEW e \in Seq(Nat), NEW d \in 0..Len(s)
    PROVE  SubSeq(Append(s, e), 1, d) = SubSeq(s, 1, d)
OBVIOUS

-----------------------------------------------------------------------------
(* Pushing.                                                                *)

\* A part of the rows from first up to q, ready for the row at q.
Made(found, rs, part, first, q) ==
    /\ PartIs(found, rs, part, first, q)
    /\ q < Len(rs) => Ready(rs, part, q)

LEMMA EmptyIsMade ==
    ASSUME NEW found, NEW rs, Tree(rs), NEW first \in 0..(Len(rs) - 1)
    PROVE  Made(found, rs, EmptyPart(FrontOf(rs, first)), first, first)
<1> DEFINE stem == FrontOf(rs, first)
           D == rs[first + 1].depth
           part == EmptyPart(stem)
<1>1. stem \in Seq(Seq(Nat)) /\ Len(stem) = D /\ D \in Nat
  BY PathFacts, TreeRow
<1>2. first \in Nat
  OBVIOUS
<1> HIDE DEF stem, D
<1>3. /\ part.stem = stem /\ part.directories = <<>> /\ part.files = <<>> /\ part.symlinks = <<>>
      /\ part.nodes = [k \in 1..(D + 1) |-> k - 1]
  BY <1>1 DEF EmptyPart
<1>4. part \in PartTypes
  <2>1. [k \in 1..(D + 1) |-> k - 1] \in Seq(Nat)
    <3>1. \A k \in 1..(D + 1) : k - 1 \in Nat
      OBVIOUS
    <3>2. [k \in 1..(D + 1) |-> k - 1] \in [1..(D + 1) -> Nat]
      BY <3>1
    <3>3. D + 1 \in Nat
      BY <1>1
    <3>4. QED
      BY <3>2, <3>3, SeqDef
  <2>2. <<>> \in Seq(TableRowType)
    OBVIOUS
  <2>3. [k \in 1..(Len(stem) + 1) |-> k - 1] \in Seq(Nat)
    BY <1>1, <2>1
  <2>4. QED
    BY <1>1, <2>2, <2>3 DEF EmptyPart, PartTypes
<1> HIDE DEF part
<1>5. \A kind, table : table = <<>> => TableIs(found, rs, part, table, kind, first, first)
  BY DEF TableIs
<1>6. PartIs(found, rs, part, first, first)
  <2>1. first..(first - 1) = {}
    BY <1>2
  <2>2. \A k \in DOMAIN part.directories : part.directories[k].parent < Len(part.stem) + k
    BY <1>3
  <2>3. QED
    BY <1>3, <1>4, <1>5, <2>1, <2>2 DEF PartIs, stem
<1>7. Ready(rs, part, first)
  <2>1. ASSUME NEW d \in 0..D
        PROVE  /\ d + 1 \in DOMAIN part.nodes
               /\ part.nodes[d + 1] \in Nodes(part)
               /\ Leads(rs, part, part.nodes[d + 1]) = SubSeq(stem, 1, d)
    <3>1. d + 1 \in 1..(D + 1) /\ (d + 1) - 1 = d
      BY <1>1
    <3>2. d + 1 \in DOMAIN part.nodes /\ part.nodes[d + 1] = d
      BY <1>3, <3>1
    <3>3. d \in Nodes(part)
      <4>1. Len(part.directories) = 0 /\ Len(part.stem) = D
        BY <1>1, <1>3
      <4>2. QED
        BY <1>1, <4>1 DEF Nodes
    <3>4. Leads(rs, part, d) = SubSeq(stem, 1, d)
      BY <1>1, <1>3 DEF Leads
    <3>5. QED
      BY <3>2, <3>3, <3>4
  <2>2. QED
    BY <2>1 DEF Ready, stem, D
<1>8. QED
  BY <1>6, <1>7 DEF Made, part, stem

\* What a handler knows when it pushes the row at q.
Pushable(found, rs, part, first, q, kind) ==
    /\ PartIs(found, rs, part, first, q)
    /\ Ready(rs, part, q)
    /\ Named(found, kind, q)

\* The row it adds, and the node it is below.
ParentIs(rs, part, kind, q, depth) ==
    LET row == RowOf(part, kind, q, depth)
    IN  /\ part \in PartTypes
        /\ depth \in Nat
        /\ depth + 1 \in DOMAIN part.nodes
        /\ part.nodes[depth + 1] \in Nat
        /\ row \in TableRowType
        /\ row.name = <<q>>
        /\ row.parent \in Nodes(part)
        /\ Leads(rs, part, row.parent) = FrontOf(rs, q)

LEMMA ParentFacts ==
    ASSUME NEW found, NEW rs, Tree(rs), NEW first \in Nat, NEW q \in first..(Len(rs) - 1), NEW kind,
           NEW part, Pushable(found, rs, part, first, q, kind), NEW D, D = rs[q + 1].depth
    PROVE  ParentIs(rs, part, kind, q, D)
<1> DEFINE row == RowOf(part, kind, q, D)
<1>1. q \in 0..(Len(rs) - 1) /\ q \in Nat
  BY TreeLength
<1>2. D \in Nat /\ FrontOf(rs, q) \in Seq(Seq(Nat)) /\ Len(FrontOf(rs, q)) = D
  BY <1>1, TreeRow, PathFacts
<1>3. part \in PartTypes
  BY DEF Pushable, PartIs
<1>4. /\ D + 1 \in DOMAIN part.nodes
      /\ part.nodes[D + 1] \in Nodes(part)
      /\ Leads(rs, part, part.nodes[D + 1]) = SubSeq(FrontOf(rs, q), 1, D)
  <2>1. D \in 0..rs[q + 1].depth
    BY <1>2
  <2>2. QED
    BY <2>1 DEF Pushable, Ready
<1>5. part.nodes[D + 1] \in Nat
  BY <1>3, <1>4, PartFields, ElementOfSeq
<1>6. row \in TableRowType /\ row.parent = part.nodes[D + 1] /\ row.name = <<q>>
  <2> HIDE <1>2, <1>3, <1>4
  <2>1. QED
    BY <1>1, <1>5, RowOfFacts DEF row
<1>7. SubSeq(FrontOf(rs, q), 1, D) = FrontOf(rs, q)
  BY <1>2
<1> HIDE DEF row
<1>8. row.parent \in Nodes(part) /\ Leads(rs, part, row.parent) = FrontOf(rs, q)
  BY <1>4, <1>6, <1>7
<1>9. QED
  BY <1>2, <1>3, <1>4, <1>5, <1>6, <1>8 DEF row, ParentIs

\* The directories above the next row, as far as they are above this one.
LEMMA FrontAlong ==
    ASSUME NEW rs, Tree(rs), NEW q \in 0..(Len(rs) - 2)
    PROVE  /\ rs[(q + 1) + 1].depth <= rs[q + 1].depth
                  => \A d \in 0..rs[(q + 1) + 1].depth :
                         SubSeq(FrontOf(rs, q + 1), 1, d) = SubSeq(FrontOf(rs, q), 1, d)
           /\ rs[(q + 1) + 1].depth = rs[q + 1].depth + 1
                  => FrontOf(rs, q + 1) = PathOf(rs, q)
<1> DEFINE D == rs[q + 1].depth
           E == rs[(q + 1) + 1].depth
           F == FrontOf(rs, q)
           G == FrontOf(rs, q + 1)
           P == PathOf(rs, q)
<1>1. Len(rs) \in Nat /\ q \in 0..(Len(rs) - 1) /\ q + 1 \in 0..(Len(rs) - 1)
      /\ q + 1 \in (q + 1)..(Len(rs) - 1)
  BY TreeLength
<1>2. D \in Nat /\ E \in Nat
  BY <1>1, TreeRow
<1>3. /\ F \in Seq(Seq(Nat)) /\ Len(F) = D /\ P \in Seq(Seq(Nat)) /\ Len(P) = D + 1
      /\ \A d \in 1..D : F[d] = <<AncestorIn(rs, q, d - 1)>>
      /\ \A d \in 1..D : P[d] = <<AncestorIn(rs, q, d - 1)>>
      /\ P[D + 1] = <<q>>
      /\ G \in Seq(Seq(Nat)) /\ Len(G) = E
      /\ \A d \in 1..E : G[d] = <<AncestorIn(rs, q + 1, d - 1)>>
  <2>1. /\ F \in Seq(Seq(Nat)) /\ Len(F) = D /\ P \in Seq(Seq(Nat)) /\ Len(P) = D + 1
        /\ \A d \in 1..D : F[d] = <<AncestorIn(rs, q, d - 1)>>
        /\ \A d \in 1..D : P[d] = <<AncestorIn(rs, q, d - 1)>>
        /\ P[D + 1] = <<q>>
    BY <1>1, PathFacts
  <2>2. G \in Seq(Seq(Nat)) /\ Len(G) = E /\ \A d \in 1..E : G[d] = <<AncestorIn(rs, q + 1, d - 1)>>
    BY <1>1, PathFacts
  <2>3. QED
    BY <2>1, <2>2
<1>4. ASSUME NEW k \in 0..D, E > k
      PROVE  AncestorIn(rs, q + 1, k) = IF k = D THEN q ELSE AncestorIn(rs, q, k)
  <2>1. \A r \in (q + 1)..(q + 1) : rs[r + 1].depth > k
    BY <1>4
  <2>2. QED
    BY <1>1, <2>1, AncestorAlong
<1> HIDE DEF D, E, F, G, P
<1>5. ASSUME E <= D, NEW d \in 0..E PROVE SubSeq(G, 1, d) = SubSeq(F, 1, d)
  <2>1. \A i \in 1..d : G[i] = F[i]
    <3>1. SUFFICES ASSUME NEW i \in 1..d PROVE G[i] = F[i]
      OBVIOUS
    <3>2. i \in 1..E /\ i \in 1..D /\ i - 1 \in 0..D /\ E > i - 1 /\ i - 1 # D
      BY <1>2, <1>5
    <3>3. QED
      BY <1>3, <1>4, <3>2
  <2>2. Len(SubSeq(G, 1, d)) = d /\ Len(SubSeq(F, 1, d)) = d
        /\ SubSeq(G, 1, d) \in Seq(Seq(Nat)) /\ SubSeq(F, 1, d) \in Seq(Seq(Nat))
        /\ \A i \in 1..d : SubSeq(G, 1, d)[i] = G[i] /\ SubSeq(F, 1, d)[i] = F[i]
    <3>1. d \in Nat /\ d <= E /\ d <= D
      BY <1>2, <1>5
    <3>2. G \in Seq(Seq(Nat)) /\ d <= Len(G) /\ F \in Seq(Seq(Nat)) /\ d <= Len(F)
      BY <1>3, <3>1
    <3>3. ASSUME NEW s \in Seq(Seq(Nat)), d <= Len(s)
          PROVE  /\ Len(SubSeq(s, 1, d)) = d /\ SubSeq(s, 1, d) \in Seq(Seq(Nat))
                 /\ \A i \in 1..d : SubSeq(s, 1, d)[i] = s[i]
      <4> HIDE <1>1, <1>2, <1>3, <1>4
      <4>1. QED
        BY <3>1, <3>3
    <3>4. QED
      BY <3>2, <3>3
  <2>3. QED
    BY <2>1, <2>2, SeqEqual
<1>6. ASSUME E = D + 1 PROVE G = P
  <2>1. \A i \in 1..(D + 1) : G[i] = P[i]
    <3>1. SUFFICES ASSUME NEW i \in 1..(D + 1) PROVE G[i] = P[i]
      OBVIOUS
    <3>2. i \in 1..E /\ i - 1 \in 0..D /\ E > i - 1
      BY <1>2, <1>6
    <3>3. CASE i = D + 1
      <4>1. i - 1 = D
        BY <1>2, <3>3
      <4>2. QED
        BY <1>3, <1>4, <3>2, <3>3, <4>1
    <3>4. CASE i # D + 1
      <4>1. i \in 1..D /\ i - 1 # D
        BY <1>2, <3>4
      <4>2. QED
        BY <1>3, <1>4, <3>2, <4>1
    <3>5. QED
      BY <3>3, <3>4
  <2>2. QED
    BY <1>3, <1>6, <2>1, SeqEqual
<1>7. QED
  BY <1>5, <1>6 DEF D, E, F, G, P

\* Each row is in one of the tables.
LEMMA AllHaveRows ==
    ASSUME NEW first \in Nat, NEW q \in Nat, first <= q,
           NEW a, NEW b, NEW c, NEW x, NEW y, NEW z,
           \A p \in first..(q - 1) : HasRow(a, p) \/ HasRow(b, p) \/ HasRow(c, p),
           \A p : HasRow(a, p) => HasRow(x, p),
           \A p : HasRow(b, p) => HasRow(y, p),
           \A p : HasRow(c, p) => HasRow(z, p),
           HasRow(x, q) \/ HasRow(y, q) \/ HasRow(z, q)
    PROVE  \A p \in first..((q + 1) - 1) : HasRow(x, p) \/ HasRow(y, p) \/ HasRow(z, p)
<1>1. SUFFICES ASSUME NEW p \in first..((q + 1) - 1)
               PROVE  HasRow(x, p) \/ HasRow(y, p) \/ HasRow(z, p)
  OBVIOUS
<1>2. p = q \/ p \in first..(q - 1)
  OBVIOUS
<1>3. QED
  BY <1>2

\* A leaf is ready for what comes next: the next row is not below it.
LEMMA ReadyAfterLeaf ==
    ASSUME NEW rs, Tree(rs), NEW q \in 0..(Len(rs) - 2), ~rs[q + 1].dir,
           NEW part, NEW later, Ready(rs, part, q), Keeps(rs, part, later), later.nodes = part.nodes
    PROVE  Ready(rs, later, q + 1)
<1> DEFINE D == rs[q + 1].depth
           E == rs[(q + 1) + 1].depth
<1>1. E <= D
  BY TreeNext
<1>2. D \in Nat /\ E \in Nat
  <2>1. q \in 0..(Len(rs) - 1) /\ q + 1 \in 0..(Len(rs) - 1)
    BY TreeLength
  <2>2. QED
    BY <2>1, TreeRow
<1>3. ASSUME NEW d \in 0..E
      PROVE  /\ d + 1 \in DOMAIN later.nodes
             /\ later.nodes[d + 1] \in Nodes(later)
             /\ Leads(rs, later, later.nodes[d + 1]) = SubSeq(FrontOf(rs, q + 1), 1, d)
  <2>1. d \in 0..D
    BY <1>1, <1>2
  <2>2. /\ d + 1 \in DOMAIN part.nodes
        /\ part.nodes[d + 1] \in Nodes(part)
        /\ Leads(rs, part, part.nodes[d + 1]) = SubSeq(FrontOf(rs, q), 1, d)
    BY <2>1 DEF Ready
  <2>3. SubSeq(FrontOf(rs, q + 1), 1, d) = SubSeq(FrontOf(rs, q), 1, d)
    BY <1>1, FrontAlong
  <2>4. QED
    BY <2>2, <2>3 DEF Keeps
<1>4. QED
  BY <1>3 DEF Ready

LEMMA PushFile ==
    ASSUME NEW found, NEW rs, Tree(rs), NEW first \in Nat, NEW q \in first..(Len(rs) - 1),
           NEW part, Pushable(found, rs, part, first, q, "file"), ~rs[q + 1].dir
    PROVE  Made(found, rs, FilesWith(part, q, rs[q + 1].depth), first, q + 1)
<1> DEFINE D == rs[q + 1].depth
           row == RowOf(part, "file", q, D)
           later == FilesWith(part, q, D)
<1>1. q \in Nat /\ q \in 0..(Len(rs) - 1) /\ first <= q /\ Len(rs) \in Nat
  BY TreeLength
<1>2. /\ part \in PartTypes /\ D \in Nat /\ part.nodes[D + 1] \in Nat
      /\ row \in TableRowType /\ row.name = <<q>>
      /\ row.parent \in Nodes(part) /\ Leads(rs, part, row.parent) = FrontOf(rs, q)
  <2>1. D = rs[q + 1].depth
    OBVIOUS
  <2> HIDE DEF D
  <2>2. Pushable(found, rs, part, first, q, "file")
    OBVIOUS
  <2>3. ParentIs(rs, part, "file", q, D)
    BY <2>1, <2>2, ParentFacts
  <2>4. QED
    BY <2>3 DEF row, ParentIs
<1>3. PartIs(found, rs, part, first, q) /\ Ready(rs, part, q) /\ Named(found, "file", q)
  BY DEF Pushable
<1> HIDE DEF D
<1>4. /\ later \in PartTypes /\ later.stem = part.stem /\ later.directories = part.directories
      /\ later.files = Append(part.files, row)
      /\ later.symlinks = part.symlinks /\ later.nodes = part.nodes
  BY <1>1, <1>2, FilesFields
<1> HIDE DEF later, row
<1>5. Keeps(rs, part, later)
  BY <1>4, KeepsSame
<1>6. part.files \in Seq(TableRowType)
  BY <1>2, PartFields
<1>7. /\ TableIs(found, rs, later, later.directories, "directory", first, q + 1)
      /\ TableIs(found, rs, later, later.symlinks, "symlink", first, q + 1)
  BY <1>1, <1>3, <1>4, <1>5, TableStays DEF PartIs
<1>8. TableIs(found, rs, later, later.files, "file", first, q + 1)
  <2>1. TableIs(found, rs, part, part.files, "file", first, q)
    BY <1>3 DEF PartIs
  <2>2. TableIs(found, rs, later, Append(part.files, row), "file", first, q + 1)
    BY <1>1, <1>2, <1>3, <1>5, <1>6, <2>1, TableAppends
  <2>3. QED
    BY <1>4, <2>2
<1>9. \A p \in first..((q + 1) - 1) :
          HasRow(later.directories, p) \/ HasRow(later.files, p) \/ HasRow(later.symlinks, p)
  <2>1. /\ \A p : HasRow(part.files, p) => HasRow(later.files, p)
        /\ HasRow(later.files, q)
    BY <1>2, <1>4, <1>6, HasMore
  <2>2. \A p \in first..(q - 1) :
            HasRow(part.directories, p) \/ HasRow(part.files, p) \/ HasRow(part.symlinks, p)
    BY <1>3 DEF PartIs
  <2>3. QED
    BY <1>1, <1>4, <2>1, <2>2, AllHaveRows
<1>10. PartIs(found, rs, later, first, q + 1)
  BY <1>3, <1>4, <1>7, <1>8, <1>9 DEF PartIs
<1>11. ASSUME q + 1 < Len(rs) PROVE Ready(rs, later, q + 1)
  <2>1. q \in 0..(Len(rs) - 2)
    BY <1>1, <1>11
  <2>2. QED
    BY <1>3, <1>4, <1>5, <2>1, ReadyAfterLeaf
<1>12. QED
  BY <1>10, <1>11 DEF Made, later, D

LEMMA PushSymlink ==
    ASSUME NEW found, NEW rs, Tree(rs), NEW first \in Nat, NEW q \in first..(Len(rs) - 1),
           NEW part, Pushable(found, rs, part, first, q, "symlink"), ~rs[q + 1].dir
    PROVE  Made(found, rs, SymlinksWith(part, q, rs[q + 1].depth), first, q + 1)
<1> DEFINE D == rs[q + 1].depth
           row == RowOf(part, "symlink", q, D)
           later == SymlinksWith(part, q, D)
<1>1. q \in Nat /\ q \in 0..(Len(rs) - 1) /\ first <= q /\ Len(rs) \in Nat
  BY TreeLength
<1>2. /\ part \in PartTypes /\ D \in Nat /\ part.nodes[D + 1] \in Nat
      /\ row \in TableRowType /\ row.name = <<q>>
      /\ row.parent \in Nodes(part) /\ Leads(rs, part, row.parent) = FrontOf(rs, q)
  <2>1. D = rs[q + 1].depth
    OBVIOUS
  <2> HIDE DEF D
  <2>2. Pushable(found, rs, part, first, q, "symlink")
    OBVIOUS
  <2>3. ParentIs(rs, part, "symlink", q, D)
    BY <2>1, <2>2, ParentFacts
  <2>4. QED
    BY <2>3 DEF row, ParentIs
<1>3. PartIs(found, rs, part, first, q) /\ Ready(rs, part, q) /\ Named(found, "symlink", q)
  BY DEF Pushable
<1> HIDE DEF D
<1>4. /\ later \in PartTypes /\ later.stem = part.stem /\ later.directories = part.directories
      /\ later.files = part.files
      /\ later.symlinks = Append(part.symlinks, row) /\ later.nodes = part.nodes
  BY <1>1, <1>2, SymlinksFields
<1> HIDE DEF later, row
<1>5. Keeps(rs, part, later)
  BY <1>4, KeepsSame
<1>6. part.symlinks \in Seq(TableRowType)
  BY <1>2, PartFields
<1>7. /\ TableIs(found, rs, later, later.directories, "directory", first, q + 1)
      /\ TableIs(found, rs, later, later.files, "file", first, q + 1)
  BY <1>1, <1>3, <1>4, <1>5, TableStays DEF PartIs
<1>8. TableIs(found, rs, later, later.symlinks, "symlink", first, q + 1)
  <2>1. TableIs(found, rs, part, part.symlinks, "symlink", first, q)
    BY <1>3 DEF PartIs
  <2>2. TableIs(found, rs, later, Append(part.symlinks, row), "symlink", first, q + 1)
    BY <1>1, <1>2, <1>3, <1>5, <1>6, <2>1, TableAppends
  <2>3. QED
    BY <1>4, <2>2
<1>9. \A p \in first..((q + 1) - 1) :
          HasRow(later.directories, p) \/ HasRow(later.files, p) \/ HasRow(later.symlinks, p)
  <2>1. /\ \A p : HasRow(part.symlinks, p) => HasRow(later.symlinks, p)
        /\ HasRow(later.symlinks, q)
    BY <1>2, <1>4, <1>6, HasMore
  <2>2. \A p \in first..(q - 1) :
            HasRow(part.directories, p) \/ HasRow(part.files, p) \/ HasRow(part.symlinks, p)
    BY <1>3 DEF PartIs
  <2>3. QED
    BY <1>1, <1>4, <2>1, <2>2, AllHaveRows
<1>10. PartIs(found, rs, later, first, q + 1)
  BY <1>3, <1>4, <1>7, <1>8, <1>9 DEF PartIs
<1>11. ASSUME q + 1 < Len(rs) PROVE Ready(rs, later, q + 1)
  <2>1. q \in 0..(Len(rs) - 2)
    BY <1>1, <1>11
  <2>2. QED
    BY <1>3, <1>4, <1>5, <2>1, ReadyAfterLeaf
<1>12. QED
  BY <1>10, <1>11 DEF Made, later, D

LEMMA PushDirectory ==
    ASSUME NEW found, NEW rs, Tree(rs), NEW first \in Nat, NEW q \in first..(Len(rs) - 1),
           NEW part, Pushable(found, rs, part, first, q, "directory")
    PROVE  Made(found, rs, DirectoriesWith(part, q, rs[q + 1].depth), first, q + 1)
<1> DEFINE D == rs[q + 1].depth
           row == RowOf(part, "directory", q, D)
           later == DirectoriesWith(part, q, D)
           S == Len(part.stem)
           K == Len(part.directories)
           node == DirectoryNode(part, K)
<1>1. q \in Nat /\ q \in 0..(Len(rs) - 1) /\ first <= q /\ Len(rs) \in Nat
  BY TreeLength
<1>2. /\ part \in PartTypes /\ D \in Nat /\ part.nodes[D + 1] \in Nat /\ D + 1 \in DOMAIN part.nodes
      /\ row \in TableRowType /\ row.name = <<q>>
      /\ row.parent \in Nodes(part) /\ Leads(rs, part, row.parent) = FrontOf(rs, q)
  <2>1. D = rs[q + 1].depth
    OBVIOUS
  <2> HIDE DEF D
  <2>2. Pushable(found, rs, part, first, q, "directory")
    OBVIOUS
  <2>3. ParentIs(rs, part, "directory", q, D)
    BY <2>1, <2>2, ParentFacts
  <2>4. QED
    BY <2>3 DEF row, ParentIs
<1>3. PartIs(found, rs, part, first, q) /\ Ready(rs, part, q) /\ Named(found, "directory", q)
  BY DEF Pushable
<1>0. /\ part.directories \in Seq(TableRowType) /\ part.nodes \in Seq(Nat)
      /\ S \in Nat /\ K \in Nat
  BY <1>2, PartFields
<1> HIDE DEF D
<1>4. /\ later \in PartTypes /\ node = S + K + 1
      /\ later.stem = part.stem
      /\ later.directories = Append(part.directories, row)
      /\ later.files = part.files
      /\ later.symlinks = part.symlinks /\ later.nodes = NodesWith(part.nodes, D, node)
  <2>1. part \in PartTypes /\ q \in Nat /\ D \in Nat /\ D + 1 \in DOMAIN part.nodes
    BY <1>1, <1>2
  <2>2. QED
    BY <2>1, DirectoriesFields
<1>5. DOMAIN part.directories = 1..K
  BY <1>0
<1>6. /\ Len(Append(part.directories, row)) = K + 1
      /\ DOMAIN Append(part.directories, row) = 1..(K + 1)
      /\ Append(part.directories, row)[K + 1] = row
      /\ \A k \in 1..K : Append(part.directories, row)[k] = part.directories[k]
  BY <1>0, <1>2
<1> HIDE DEF later, row, node, S, K
<1>7. Keeps(rs, part, later)
  BY <1>2, <1>4, KeepsMore
<1>8. /\ TableIs(found, rs, later, later.files, "file", first, q + 1)
      /\ TableIs(found, rs, later, later.symlinks, "symlink", first, q + 1)
  BY <1>1, <1>3, <1>4, <1>7, TableStays DEF PartIs
<1>9. TableIs(found, rs, later, later.directories, "directory", first, q + 1)
  <2>1. TableIs(found, rs, part, part.directories, "directory", first, q)
    BY <1>3 DEF PartIs
  <2>2. TableIs(found, rs, later, Append(part.directories, row), "directory", first, q + 1)
    BY <1>0, <1>1, <1>2, <1>3, <1>7, <2>1, TableAppends
  <2>3. QED
    BY <1>4, <2>2
<1>10. \A p \in first..((q + 1) - 1) :
          HasRow(later.directories, p) \/ HasRow(later.files, p) \/ HasRow(later.symlinks, p)
  <2>1. /\ \A p : HasRow(part.directories, p) => HasRow(later.directories, p)
        /\ HasRow(later.directories, q)
    BY <1>0, <1>2, <1>4, HasMore, SMTT(30)
  <2>2. \A p \in first..(q - 1) :
            HasRow(part.directories, p) \/ HasRow(part.files, p) \/ HasRow(part.symlinks, p)
    BY <1>3 DEF PartIs
  <2>3. QED
    BY <1>1, <1>4, <2>1, <2>2, AllHaveRows
<1>11. \A k \in DOMAIN later.directories : later.directories[k].parent < Len(later.stem) + k
  <2>1. SUFFICES ASSUME NEW k \in 1..(K + 1)
                 PROVE  Append(part.directories, row)[k].parent < S + k
    BY <1>4, <1>6 DEF S
  <2>2. CASE k = K + 1
    <3>1. row.parent \in 0..(S + K)
      BY <1>2 DEF Nodes, S, K
    <3>2. row.parent < S + (K + 1)
      BY <1>0, <3>1
    <3>3. QED
      BY <1>6, <2>2, <3>2
  <2>3. CASE k # K + 1
    <3>1. k \in 1..K
      BY <1>0, <2>3
    <3>2. part.directories[k].parent < S + k
      BY <1>3, <1>5, <3>1 DEF PartIs, S
    <3>3. QED
      BY <1>6, <3>1, <3>2
  <2>4. QED
    BY <2>2, <2>3
<1>12. PartIs(found, rs, later, first, q + 1)
  BY <1>3, <1>4, <1>8, <1>9, <1>10, <1>11 DEF PartIs
<1>13. ASSUME q + 1 < Len(rs) PROVE Ready(rs, later, q + 1)
  <2> DEFINE E == rs[(q + 1) + 1].depth
  <2>1. q \in 0..(Len(rs) - 2) /\ q + 1 \in 0..(Len(rs) - 1)
    BY <1>1, <1>13
  <2>2. E <= D \/ E = D + 1
    BY <2>1, TreeNext DEF D
  <2>3. E \in Nat
    BY <2>1, TreeRow
  <2>4. node \in Nat
    BY <1>0, <1>4
  <2>5. /\ later.nodes \in Seq(Nat) /\ Len(later.nodes) = D + 2
        /\ \A d \in 0..D : later.nodes[d + 1] = part.nodes[d + 1]
        /\ later.nodes[D + 2] = node
    <3> DEFINE nodes == part.nodes
    <3>1. nodes \in Seq(Nat) /\ D + 1 \in DOMAIN nodes /\ D \in Nat /\ later.nodes = NodesWith(nodes, D, node)
          /\ later.nodes \in Seq(Nat)
      BY <1>0, <1>2, <1>4, PartFields
    <3> HIDE DEF nodes
    <3>2. /\ NodesWith(nodes, D, node) \in Seq(Nat)
          /\ Len(NodesWith(nodes, D, node)) = D + 2
          /\ \A d \in 0..D : NodesWith(nodes, D, node)[d + 1] = nodes[d + 1]
          /\ NodesWith(nodes, D, node)[D + 2] = node
      BY <2>4, <3>1, NodesFacts
    <3>3. QED
      BY <3>1, <3>2 DEF nodes
  <2>6. node \in Nodes(later) /\ Leads(rs, later, node) = PathOf(rs, q)
    <3>1. Nodes(later) = 0..(S + (K + 1))
      BY <1>4, <1>6 DEF Nodes, S
    <3>2. node \in Nodes(later) /\ ~(node <= S) /\ node - S = K + 1
      BY <1>0, <1>4, <3>1
    <3>3. later.directories[K + 1] = row
      BY <1>4, <1>6
    <3>4. row.name[1] = q
      BY <1>2
    <3>5. Len(later.stem) = S
      BY <1>4 DEF S
    <3>6. Leads(rs, later, node) = PathOf(rs, later.directories[node - S].name[1])
      BY <3>2, <3>5 DEF Leads
    <3>7. QED
      BY <3>2, <3>3, <3>4, <3>6
  <2> HIDE DEF E
  <2>7. ASSUME NEW d \in 0..E
        PROVE  /\ d + 1 \in DOMAIN later.nodes
               /\ later.nodes[d + 1] \in Nodes(later)
               /\ Leads(rs, later, later.nodes[d + 1]) = SubSeq(FrontOf(rs, q + 1), 1, d)
    <3>1. d + 1 \in DOMAIN later.nodes
      <4>1. DOMAIN later.nodes = 1..(D + 2)
        BY <2>5
      <4>2. d + 1 \in 1..(D + 2)
        BY <1>2, <2>2, <2>3
      <4>3. QED
        BY <4>1, <4>2
    <3>2. CASE d <= D
      <4>1. d \in 0..D
        BY <1>2, <2>3, <3>2
      <4>2. /\ part.nodes[d + 1] \in Nodes(part)
            /\ Leads(rs, part, part.nodes[d + 1]) = SubSeq(FrontOf(rs, q), 1, d)
        BY <1>3, <4>1 DEF Ready, D
      <4>3. SubSeq(FrontOf(rs, q + 1), 1, d) = SubSeq(FrontOf(rs, q), 1, d)
        <5>1. CASE E <= D
          BY <2>1, <5>1, FrontAlong DEF D, E
        <5>2. CASE E = D + 1
          <6>1. FrontOf(rs, q + 1) = PathOf(rs, q)
            BY <2>1, <5>2, FrontAlong DEF D, E
          <6>2. FrontOf(rs, q) \in Seq(Seq(Nat)) /\ Len(FrontOf(rs, q)) = D
            BY <1>1, PathFacts DEF D
          <6>3. SubSeq(Append(FrontOf(rs, q), <<q>>), 1, d) = SubSeq(FrontOf(rs, q), 1, d)
            <7>1. <<q>> \in Seq(Nat)
              BY <1>1
            <7>2. QED
              BY <4>1, <6>2, <7>1, SubSeqOfAppend
          <6>4. QED
            BY <6>1, <6>3 DEF PathOf
        <5>3. QED
          BY <2>2, <5>1, <5>2
      <4>4. later.nodes[d + 1] = part.nodes[d + 1]
        BY <2>5, <4>1
      <4>5. QED
        BY <1>7, <3>1, <4>2, <4>3, <4>4 DEF Keeps
    <3>3. CASE ~(d <= D)
      <4>1. d = D + 1 /\ E = D + 1 /\ d + 1 = D + 2
        BY <1>2, <2>2, <2>3, <3>3
      <4>2. FrontOf(rs, q + 1) = PathOf(rs, q)
        BY <2>1, <4>1, FrontAlong DEF D, E
      <4>3. PathOf(rs, q) \in Seq(Seq(Nat)) /\ Len(PathOf(rs, q)) = D + 1
        BY <1>1, PathFacts DEF D
      <4>4. SubSeq(PathOf(rs, q), 1, D + 1) = PathOf(rs, q)
        BY <1>2, <4>3
      <4>5. QED
        BY <2>5, <2>6, <3>1, <4>1, <4>2, <4>4
    <3>4. QED
      BY <3>2, <3>3
  <2>8. QED
    BY <2>7 DEF Ready, E
<1>14. QED
  BY <1>12, <1>13 DEF Made, later, D

-----------------------------------------------------------------------------
(* Recursive functions whose steps are defined where they are needed.      *)

\* Each step keeps the values in S.
StepKeeps(N, V, g, S) ==
    \A n \in 1..N : \A v \in V : <<n - 1, v>> \in S => g[<<n, v>>] \in V /\ <<n, g[<<n, v>>]>> \in S

HasValuesIn(N, V, v0, g, S) ==
    \E t \in [0..N -> V] :
        \A n \in 0..N : t[n] = ValueAt(v0, g, t, n) /\ <<n, t[n]>> \in S

LEMMA RecursionKeeps ==
    ASSUME NEW N \in Nat, NEW V, NEW v0 \in V, NEW g, NEW S, <<0, v0>> \in S, StepKeeps(N, V, g, S)
    PROVE  HasValuesIn(N, V, v0, g, S)
<1> DEFINE h == [x \in (1..N) \X V |->
                    IF g[x] \in V /\ <<x[1], g[x]>> \in S THEN g[x] ELSE x[2]]
<1>1. IsStep(N, V, h)
  BY DEF IsStep
<1>2. \A n \in 1..N : \A v \in V :
          <<n - 1, v>> \in S => h[<<n, v>>] = g[<<n, v>>] /\ <<n, h[<<n, v>>]>> \in S
  <2>1. SUFFICES ASSUME NEW n \in 1..N, NEW v \in V, <<n - 1, v>> \in S
                 PROVE  h[<<n, v>>] = g[<<n, v>>] /\ <<n, h[<<n, v>>]>> \in S
    OBVIOUS
  <2>2. <<n, v>> \in (1..N) \X V /\ <<n, v>>[1] = n
    OBVIOUS
  <2>3. g[<<n, v>>] \in V /\ <<n, g[<<n, v>>]>> \in S
    BY <2>1 DEF StepKeeps
  <2>4. h[<<n, v>>] = g[<<n, v>>]
    BY <2>2, <2>3
  <2>5. QED
    BY <2>3, <2>4
<1> HIDE DEF h
<1>3. PICK t \in [0..N -> V] : \A n \in 0..N : t[n] = ValueAt(v0, h, t, n)
  <2>1. HasValues(N, V, v0, h)
    BY <1>1, RecursionExists
  <2>2. QED
    BY <2>1 DEF HasValues
<1> DEFINE T == {n \in 0..N : <<n, t[n]>> \in S}
<1>4. 0 \in T
  <2>1. 0 \in 0..N
    OBVIOUS
  <2>2. t[0] = ValueAt(v0, h, t, 0)
    BY <1>3, <2>1
  <2>3. t[0] = v0
    BY <2>2 DEF ValueAt
  <2>4. QED
    BY <2>1, <2>3
<1>5. ASSUME NEW n \in 0..(N - 1), n \in T PROVE n + 1 \in T
  <2>1. n + 1 \in 1..N /\ n + 1 \in 0..N /\ (n + 1) - 1 = n /\ n + 1 # 0 /\ n \in 0..N
    OBVIOUS
  <2>2. t[n] \in V /\ <<n, t[n]>> \in S
    BY <1>3, <1>5, <2>1
  <2>3. t[n + 1] = h[<<n + 1, t[n]>>]
    BY <1>3, <2>1 DEF ValueAt
  <2>4. <<n + 1, h[<<n + 1, t[n]>>]>> \in S
    BY <1>2, <2>1, <2>2
  <2>5. QED
    BY <2>1, <2>3, <2>4
<1>6. \A n \in 0..N : n \in T
  <2> HIDE DEF T
  <2>1. QED
    BY <1>4, <1>5, InductionUpTo
<1>7. ASSUME NEW n \in 0..N PROVE t[n] = ValueAt(v0, g, t, n)
  <2>1. CASE n = 0
    BY <1>3, <2>1 DEF ValueAt
  <2>2. CASE n # 0
    <3>1. n \in 1..N /\ n - 1 \in 0..N
      BY <2>2
    <3>2. t[n - 1] \in V /\ <<n - 1, t[n - 1]>> \in S
      BY <1>3, <1>6, <3>1
    <3>3. h[<<n, t[n - 1]>>] = g[<<n, t[n - 1]>>]
      BY <1>2, <3>1, <3>2
    <3>4. QED
      BY <1>3, <2>2, <3>3 DEF ValueAt
  <2>3. QED
    BY <2>1, <2>2
<1>8. QED
  BY <1>6, <1>7 DEF HasValuesIn

-----------------------------------------------------------------------------
(* Pushing a range.                                                        *)

\* One item of a range: a row is pushed, and what is skipped changes nothing.
LEMMA PushItem ==
    ASSUME NEW found, NEW rs, Tree(rs), ScansAre(found, rs),
           NEW first \in Nat, NEW q \in Nat, first <= q,
           NEW s \in 1..Len(found), NEW n \in 1..Len(found[s]),
           NEW part, Made(found, rs, part, first, q), NEW depth,
           IsRow(found[s][n]) => found[s][n].name = q /\ rs[q + 1].depth = depth
    PROVE  Made(found, rs, Push(part, found[s][n], depth), first, q + One(found[s], n))
<1> DEFINE item == found[s][n]
<1>1. rs \in Seq(RowType) /\ Len(rs) \in Nat
  BY TreeLength
<1>2. /\ item = Item(item.kind, item.name)
      /\ item.kind \in {"directory", "file", "symlink", "skipped"}
      /\ IsRow(item) => item.name + 1 \in 1..Len(rs) /\ (item.kind = "directory" <=> rs[item.name + 1].dir)
      /\ found \in Seq(Seq(ItemType)) /\ found[s] \in Seq(ItemType)
  BY <1>1, ScanFacts DEF Kinds
<1>3. s \in DOMAIN found /\ n \in DOMAIN found[s]
  BY <1>2
<1> HIDE DEF item
<1>4. CASE ~IsRow(item)
  <2>1. item.kind = "skipped" /\ One(found[s], n) = 0
    BY <1>4 DEF IsRow, One, item
  <2>2. Push(part, item, depth) = part
    BY <1>2, <2>1, PushIs
  <2>3. QED
    BY <2>1, <2>2 DEF item
<1>5. CASE IsRow(item)
  <2>1. item.name = q /\ rs[q + 1].depth = depth /\ One(found[s], n) = 1
    BY <1>5 DEF item, One
  <2>2. q \in first..(Len(rs) - 1) /\ q < Len(rs)
    BY <1>1, <1>2, <1>5, <2>1
  <2>3. Named(found, item.kind, q)
    BY <1>2, <1>3, <2>1 DEF Named, item
  <2>4. Pushable(found, rs, part, first, q, item.kind)
    BY <2>2, <2>3 DEF Pushable, Made
  <2>5. item = Item(item.kind, q)
    BY <1>2, <2>1
  <2>6. CASE item.kind = "directory"
    <3>1. Made(found, rs, DirectoriesWith(part, q, depth), first, q + 1)
      BY <2>1, <2>2, <2>4, <2>6, PushDirectory
    <3>2. Push(part, item, depth) = DirectoriesWith(part, q, depth)
      BY <2>5, <2>6, PushIs
    <3>3. QED
      BY <2>1, <3>1, <3>2 DEF item
  <2>7. CASE item.kind = "file"
    <3>1. ~rs[q + 1].dir
      BY <1>2, <1>5, <2>1, <2>7
    <3>2. Made(found, rs, FilesWith(part, q, depth), first, q + 1)
      BY <2>1, <2>2, <2>4, <2>7, <3>1, PushFile
    <3>3. Push(part, item, depth) = FilesWith(part, q, depth)
      BY <2>5, <2>7, PushIs
    <3>4. QED
      BY <2>1, <3>2, <3>3 DEF item
  <2>8. CASE item.kind = "symlink"
    <3>1. ~rs[q + 1].dir
      BY <1>2, <1>5, <2>1, <2>8
    <3>2. Made(found, rs, SymlinksWith(part, q, depth), first, q + 1)
      BY <2>1, <2>2, <2>4, <2>8, <3>1, PushSymlink
    <3>3. Push(part, item, depth) = SymlinksWith(part, q, depth)
      BY <2>5, <2>8, PushIs
    <3>4. QED
      BY <2>1, <3>2, <3>3 DEF item
  <2>9. QED
    BY <1>2, <1>5, <2>6, <2>7, <2>8 DEF IsRow
<1>6. QED
  BY <1>4, <1>5

LEMMA MadeIsPart ==
    ASSUME NEW found, NEW rs, NEW part, NEW first, NEW q, Made(found, rs, part, first, q)
    PROVE  part \in PartTypes
BY DEF Made, PartIs

LEMMA ItemOfSub ==
    ASSUME NEW t \in Seq(ItemType), NEW a \in 1..Len(t), NEW b \in 0..Len(t), NEW k \in 1..(b - a + 1)
    PROVE  SubSeq(t, a, b)[k] = t[a + k - 1]
OBVIOUS

\* The items of a range, and how many rows are among the first of them.
LEMMA ItemsFacts ==
    ASSUME NEW found, NEW rs, Tree(rs), ScansAre(found, rs),
           NEW range, NEW p \in Nat, RangeIs(found, rs, range, p), NEW n \in 1..(range.to - range.from)
    PROVE  LET seen == Seen(found[range.rows])
               q == p + (seen[range.from + (n - 1)] - seen[range.from])
           IN  /\ range.rows \in 1..Len(found)
               /\ range.from + n \in 1..Len(found[range.rows])
               /\ ItemsOf(found, range)[n] = found[range.rows][range.from + n]
               /\ q \in Nat /\ p <= q
               /\ seen[range.from + n] = seen[range.from + (n - 1)] + One(found[range.rows], range.from + n)
               /\ p + (seen[range.from + n] - seen[range.from]) = q + One(found[range.rows], range.from + n)
               /\ IsRow(found[range.rows][range.from + n]) =>
                      /\ found[range.rows][range.from + n].name = q
                      /\ rs[q + 1].depth = range.depth
<1> DEFINE items == found[range.rows]
           seen == Seen(items)
           from == range.from
           at == range.from + n
           before == range.from + (n - 1)
           q == p + (seen[before] - seen[from])
<1>1. found \in Seq(Seq(ItemType))
  BY DEF ScansAre
<1>2. /\ range.rows \in DOMAIN found /\ from \in Nat /\ range.to \in Nat /\ range.to <= Len(items)
      /\ items \in Seq(ItemType) /\ SeenIs(items, seen) /\ Len(items) \in Nat /\ range.from <= range.to
  BY <1>1, RangeFacts, LenProperties
<1>3. \A k \in (range.from + 1)..range.to : IsRow(items[k]) =>
          /\ items[k].name = p + seen[k - 1] - seen[range.from]
          /\ rs[items[k].name + 1].depth = range.depth
  BY DEF RangeIs
<1>4. range.rows \in 1..Len(found)
  BY <1>1, <1>2
<1>5. /\ at \in 1..Len(items) /\ at \in (range.from + 1)..range.to
      /\ at - 1 = before /\ before \in 0..Len(items) /\ from \in 0..Len(items) /\ before \in from..Len(items)
      /\ range.from + 1 \in 1..Len(items)
      /\ range.to \in 0..Len(items)
      /\ n \in 1..(range.to - (range.from + 1) + 1)
      /\ (range.from + 1) + n - 1 = at
  <2> DEFINE f == range.from
             t == range.to
             l == Len(items)
  <2>1. f \in Nat /\ t \in Nat /\ l \in Nat /\ t <= l /\ f <= t /\ n \in 1..(t - f)
    BY <1>2
  <2> HIDE DEF f, t, l
  <2>2. /\ f + n \in 1..l /\ f + n \in (f + 1)..t
        /\ (f + n) - 1 = f + (n - 1) /\ f + (n - 1) \in 0..l /\ f \in 0..l /\ f + (n - 1) \in f..l
        /\ f + 1 \in 1..l /\ t \in 0..l
        /\ n \in 1..(t - (f + 1) + 1) /\ (f + 1) + n - 1 = f + n
    BY <2>1
  <2>3. QED
    BY <2>2 DEF f, t, l
<1>6. ItemsOf(found, range)[n] = items[at]
  <2>2. ItemsOf(found, range) = SubSeq(items, range.from + 1, range.to)
    BY DEF ItemsOf
  <2>4. SubSeq(items, range.from + 1, range.to)[n] = items[(range.from + 1) + n - 1]
    <3> HIDE DEF items
    <3>1. QED
      BY <1>2, <1>5, ItemOfSub
  <2>5. QED
    BY <1>5, <2>2, <2>4
<1> HIDE DEF items, seen, from, at, before
<1>7. seen[at] = seen[before] + One(items, at) /\ seen[before] \in Nat /\ seen[from] \in Nat /\ seen[at] \in Nat
  <2>1. at \in 0..Len(items)
    BY <1>2, <1>5
  <2>2. QED
    BY <1>2, <1>5, <2>1 DEF SeenIs
<1>8. seen[from] <= seen[before]
  BY <1>2, <1>5, SeenGrows DEF seen
<1>9. q \in Nat /\ p <= q /\ p + (seen[at] - seen[from]) = q + One(items, at)
  <2> DEFINE a == seen[at]
             b == seen[before]
             c == seen[from]
             o == One(items, at)
  <2>1. a = b + o /\ a \in Nat /\ b \in Nat /\ c \in Nat /\ c <= b /\ o \in Nat
    <3>1. o \in Nat
      BY DEF One
    <3>2. QED
      BY <1>7, <1>8, <3>1
  <2> HIDE DEF a, b, c, o
  <2>2. p + (b - c) \in Nat /\ p <= p + (b - c) /\ p + (a - c) = (p + (b - c)) + o
    BY <2>1
  <2>3. QED
    BY <2>2 DEF a, b, c, o
<1>10. ASSUME IsRow(items[at]) PROVE items[at].name = q /\ rs[q + 1].depth = range.depth
  <2>1. items[at].name = p + seen[before] - seen[from] /\ rs[items[at].name + 1].depth = range.depth
    BY <1>3, <1>5, <1>10 DEF from
  <2>2. p + seen[before] - seen[from] = q
    <3> DEFINE b == seen[before]
               c == seen[from]
    <3>1. b \in Nat /\ c \in Nat
      BY <1>7
    <3> HIDE DEF b, c
    <3>2. p + b - c = p + (b - c)
      BY <3>1
    <3>3. QED
      BY <3>2 DEF b, c
  <2>3. QED
    BY <2>1, <2>2
<1>11. QED
  BY <1>4, <1>5, <1>6, <1>7, <1>9, <1>10 DEF items, seen, from, at, before

LEMMA ItemsLength ==
    ASSUME NEW found \in Seq(Seq(ItemType)), NEW rs, NEW range, NEW p \in Nat, RangeIs(found, rs, range, p)
    PROVE  Len(ItemsOf(found, range)) = range.to - range.from /\ range.to - range.from \in Nat
<1> DEFINE items == found[range.rows]
           f == range.from
           t == range.to
<1>1. items \in Seq(ItemType) /\ f \in Nat /\ t \in Nat /\ f <= t /\ t <= Len(items)
      /\ Len(items) \in Nat
  BY RangeFacts, LenProperties
<1> HIDE DEF items, f, t
<1>2. Len(SubSeq(items, f + 1, t)) = t - f /\ t - f \in Nat
  BY <1>1
<1>3. ItemsOf(found, range) = SubSeq(items, f + 1, t)
  BY DEF ItemsOf, items, f, t
<1>4. QED
  BY <1>2, <1>3 DEF f, t

\* A range of rows from p on.
LEMMA PushRange ==
    ASSUME NEW found, NEW rs, Tree(rs), ScansAre(found, rs),
           NEW first \in Nat, NEW p \in Nat, first <= p,
           NEW range, RangeIs(found, rs, range, p),
           NEW part, Made(found, rs, part, first, p)
    PROVE  Made(found, rs, PushAll(part, ItemsOf(found, range), range.depth), first, p + range.count)
<1> DEFINE items == ItemsOf(found, range)
           depth == range.depth
           N == range.to - range.from
           seen == Seen(found[range.rows])
           Q(n) == p + (seen[range.from + n] - seen[range.from])
           g == [x \in (1..N) \X PartTypes |-> Push(x[2], items[x[1]], depth)]
           S == {x \in (0..N) \X PartTypes : Made(found, rs, x[2], first, Q(x[1]))}
           Is(t) == t = [n \in 0..Len(items) |-> IF n = 0 THEN part ELSE Push(t[n - 1], items[n], depth)]
           pushed == CHOOSE t : Is(t)
<1>1. found \in Seq(Seq(ItemType))
  BY DEF ScansAre
<1>2. Len(items) = N /\ N \in Nat
  BY <1>1, ItemsLength
<1>3. part \in PartTypes
  BY MadeIsPart
<1>4. Q(0) = p /\ Q(N) = p + range.count
  <2> DEFINE f == range.from
             t == range.to
             a == seen[f]
             b == seen[t]
  <2>1. f \in Nat /\ t \in Nat /\ f <= t /\ a \in Nat /\ b \in Nat /\ range.count = b - a /\ range.count \in Nat
    BY <1>1, RangeFacts
  <2>2. range.from + 0 = f /\ range.from + N = t
    BY <2>1
  <2> HIDE DEF seen, N
  <2>3. Q(0) = p + (a - a) /\ Q(N) = p + (b - a)
    BY <2>2
  <2>4. p + (a - a) = p
    <3> HIDE DEF a
    <3>1. QED
      BY <2>1
  <2>5. QED
    BY <2>1, <2>3, <2>4
<1>5. StepKeeps(N, PartTypes, g, S)
  <2>1. SUFFICES ASSUME NEW n \in 1..N, NEW v \in PartTypes, <<n - 1, v>> \in S
                 PROVE  g[<<n, v>>] \in PartTypes /\ <<n, g[<<n, v>>]>> \in S
    BY DEF StepKeeps
  <2>2. Made(found, rs, v, first, Q(n - 1))
    BY <2>1
  <2> DEFINE s == range.rows
             m == range.from + n
  <2>3. /\ s \in 1..Len(found) /\ m \in 1..Len(found[s]) /\ items[n] = found[s][m]
        /\ Q(n - 1) \in Nat /\ p <= Q(n - 1)
        /\ Q(n) = Q(n - 1) + One(found[s], m)
        /\ IsRow(found[s][m]) => found[s][m].name = Q(n - 1) /\ rs[Q(n - 1) + 1].depth = depth
    BY ItemsFacts
  <2> DEFINE q == Q(n - 1)
             r == Q(n)
  <2> HIDE DEF s, m, q, r, items, depth
  <2>4. Made(found, rs, v, first, q) /\ q \in Nat /\ p <= q /\ r = q + One(found[s], m)
        /\ (IsRow(found[s][m]) => found[s][m].name = q /\ rs[q + 1].depth = depth)
        /\ s \in 1..Len(found) /\ m \in 1..Len(found[s]) /\ items[n] = found[s][m]
    BY <2>2, <2>3 DEF q, r
  <2>5. Made(found, rs, Push(v, found[s][m], depth), first, r)
    <3>1. first <= q
      BY <2>4
    <3>2. Made(found, rs, Push(v, found[s][m], depth), first, q + One(found[s], m))
      BY <2>4, <3>1, PushItem
    <3>3. QED
      BY <2>4, <3>2
  <2>6. g[<<n, v>>] = Push(v, found[s][m], depth)
    BY <2>4
  <2>7. g[<<n, v>>] \in PartTypes
    BY <2>5, <2>6, MadeIsPart
  <2>8. Made(found, rs, g[<<n, v>>], first, Q(n))
    BY <2>5, <2>6 DEF r
  <2>9. n \in 0..N
    BY <1>2
  <2> HIDE DEF g, N, seen
  <2>10. <<n, g[<<n, v>>]>> \in S
    BY <2>7, <2>8, <2>9
  <2>11. QED
    BY <2>7, <2>10
<1>6. <<0, part>> \in S
  <2>1. 0 \in 0..N
    BY <1>2
  <2> HIDE DEF N, seen
  <2>2. QED
    BY <1>3, <1>4, <2>1
<1>7. PICK t \in [0..N -> PartTypes] :
          \A n \in 0..N : t[n] = ValueAt(part, g, t, n) /\ <<n, t[n]>> \in S
  <2> HIDE DEF g, S, N
  <2>1. HasValuesIn(N, PartTypes, part, g, S)
    BY <1>2, <1>3, <1>5, <1>6, RecursionKeeps
  <2>2. QED
    BY <2>1 DEF HasValuesIn
<1>8. ASSUME NEW n \in 0..N
      PROVE  t[n] = IF n = 0 THEN part ELSE Push(t[n - 1], items[n], depth)
  <2>1. t[n] = ValueAt(part, g, t, n)
    BY <1>7
  <2>2. CASE n = 0
    BY <2>1, <2>2 DEF ValueAt
  <2>3. CASE n # 0
    <3>1. n \in 1..N /\ n - 1 \in 0..N
      BY <1>2, <2>3
    <3>2. t[n - 1] \in PartTypes
      BY <1>7, <3>1
    <3> HIDE DEF items, depth, N
    <3>3. <<n, t[n - 1]>> \in (1..N) \X PartTypes
      BY <3>1, <3>2
    <3>4. g[<<n, t[n - 1]>>] = Push(t[n - 1], items[n], depth)
      BY <3>3
    <3>5. t[n] = g[<<n, t[n - 1]>>]
      BY <2>1, <2>3 DEF ValueAt
    <3>6. QED
      BY <2>3, <3>4, <3>5
  <2>4. QED
    BY <2>2, <2>3
<1>9. Is(pushed)
  <2> HIDE DEF items, depth, g, S
  <2>1. t = [n \in 0..N |-> t[n]]
    BY <1>7
  <2>2. Is(t)
    BY <1>2, <1>8, <2>1
  <2>3. QED
    BY <2>2
<1>10. PushAll(part, items, depth) = pushed[Len(items)]
  BY DEF PushAll
<1>11. ASSUME NEW n \in 0..N
       PROVE  pushed[n] = IF n = 0 THEN part ELSE Push(pushed[n - 1], items[n], depth)
  <2> HIDE DEF items, depth, pushed, N
  <2>1. QED
    BY <1>2, <1>9
<1>12. pushed[N] = t[N]
  <2> HIDE DEF items, depth, pushed, N, g, S
  <2>1. 0 \in 0..N /\ N \in 0..N
    BY <1>2
  <2>2. pushed[0] = t[0]
    BY <1>8, <1>11, <2>1
  <2>3. ASSUME NEW n \in 1..N, pushed[n - 1] = t[n - 1] PROVE pushed[n] = t[n]
    <3>1. n \in 0..N /\ n # 0
      BY <1>2
    <3>2. pushed[n] = Push(pushed[n - 1], items[n], depth)
      BY <1>11, <3>1
    <3>3. t[n] = Push(t[n - 1], items[n], depth)
      BY <1>8, <3>1
    <3>4. QED
      BY <2>3, <3>2, <3>3
  <2>4. GoAlike(N, pushed, t)
    BY <2>2, <2>3 DEF GoAlike
  <2>5. Alike(N, pushed, t)
    BY <1>2, <2>4, RecursionIsOne
  <2>6. QED
    BY <2>1, <2>5 DEF Alike
<1>13. Made(found, rs, t[N], first, p + range.count)
  <2>1. N \in 0..N
    BY <1>2
  <2>2. <<N, t[N]>> \in S
    BY <1>7, <2>1
  <2> HIDE DEF N, seen
  <2>3. Made(found, rs, t[N], first, Q(N))
    BY <2>2
  <2>4. QED
    BY <1>4, <2>3
<1> HIDE DEF items, depth, pushed, N, g, S
<1>14. Made(found, rs, PushAll(part, items, depth), first, p + range.count)
  BY <1>2, <1>10, <1>12, <1>13
<1>15. QED
  BY <1>14 DEF items, depth

\* assemble: the part of the rows that its sources are.
LEMMA AssembleRanges ==
    ASSUME NEW found, NEW rs, Tree(rs), ScansAre(found, rs),
           NEW first \in 0..(Len(rs) - 1), NEW end \in Nat,
           NEW sources, RangesAre(found, rs, sources, first, end)
    PROVE  PartIs(found, rs, Assemble(found, FrontOf(rs, first), sources), first, end)
<1> DEFINE N == Len(sources)
           stem == FrontOf(rs, first)
           c == Counts(sources)
           Next_(v, k) == PushAll(v, ItemsOf(found, sources[k]), sources[k].depth)
           g == [x \in (1..N) \X PartTypes |-> Next_(x[2], x[1])]
           S == {x \in (0..N) \X PartTypes : Made(found, rs, x[2], first, first + c[x[1]])}
           Is(t) == t = [k \in 0..Len(sources) |-> IF k = 0 THEN EmptyPart(stem) ELSE Next_(t[k - 1], k)]
           made == CHOOSE t : Is(t)
<1>1. first \in Nat
  OBVIOUS
<1>2. /\ N \in Nat /\ CountsIs(sources, c)
      /\ \A k \in 1..N : RangeIs(found, rs, sources[k], first + c[k - 1])
      /\ c[N] = end - first
  BY <1>1, RangesTypes DEF RangesAre
<1>3. c[0] = 0
  BY <1>2 DEF CountsIs
<1>4. Made(found, rs, EmptyPart(stem), first, first) /\ EmptyPart(stem) \in PartTypes
  BY EmptyIsMade, MadeIsPart
<1> HIDE DEF c, N
<1>5. StepKeeps(N, PartTypes, g, S)
  <2>1. SUFFICES ASSUME NEW k \in 1..N, NEW v \in PartTypes, <<k - 1, v>> \in S
                 PROVE  g[<<k, v>>] \in PartTypes /\ <<k, g[<<k, v>>]>> \in S
    BY DEF StepKeeps
  <2> DEFINE p == first + c[k - 1]
             range == sources[k]
             q == first + c[k]
  <2>2. Made(found, rs, v, first, p)
    BY <2>1
  <2>3. k \in 1..Len(sources) /\ k - 1 \in 0..Len(sources) /\ k \in 0..N
    BY <1>2 DEF N
  <2>4. c[k - 1] \in Nat /\ c[k] = c[k - 1] + range.count
    BY <1>2, <2>3 DEF CountsIs
  <2>5. RangeIs(found, rs, range, p)
    BY <1>2
  <2>6. range.count \in Nat /\ p \in Nat /\ first <= p /\ q = p + range.count
    <3>1. range.count \in Nat
      BY <2>5 DEF RangeIs, RangeType
    <3> DEFINE a == c[k - 1]
               b == c[k]
               r == range.count
    <3>2. a \in Nat /\ r \in Nat /\ b = a + r /\ p = first + a /\ q = first + b
      BY <2>4, <3>1
    <3> HIDE DEF a, b, r, p, q
    <3>3. p \in Nat /\ first <= p /\ q = p + r /\ r \in Nat
      BY <1>1, <3>2
    <3>4. QED
      BY <3>3 DEF r
  <2> HIDE DEF p, range, q
  <2>7. Made(found, rs, PushAll(v, ItemsOf(found, range), range.depth), first, q)
    BY <1>1, <2>2, <2>5, <2>6, PushRange
  <2>8. g[<<k, v>>] = PushAll(v, ItemsOf(found, range), range.depth)
    BY DEF range
  <2> HIDE DEF g
  <2>9. g[<<k, v>>] \in PartTypes /\ Made(found, rs, g[<<k, v>>], first, first + c[k])
    BY <2>7, <2>8, MadeIsPart DEF q
  <2>10. QED
    BY <2>3, <2>9
<1>6. <<0, EmptyPart(stem)>> \in S
  <2>1. 0 \in 0..N /\ first + c[0] = first
    BY <1>1, <1>2, <1>3
  <2> HIDE DEF stem
  <2>2. QED
    BY <1>4, <2>1
<1>7. PICK t \in [0..N -> PartTypes] :
          \A k \in 0..N : t[k] = ValueAt(EmptyPart(stem), g, t, k) /\ <<k, t[k]>> \in S
  <2> HIDE DEF g, S, stem
  <2>1. HasValuesIn(N, PartTypes, EmptyPart(stem), g, S)
    BY <1>2, <1>4, <1>5, <1>6, RecursionKeeps
  <2>2. QED
    BY <2>1 DEF HasValuesIn
<1>8. ASSUME NEW k \in 0..N
      PROVE  t[k] = IF k = 0 THEN EmptyPart(stem) ELSE Next_(t[k - 1], k)
  <2> HIDE DEF stem
  <2>1. t[k] = ValueAt(EmptyPart(stem), g, t, k)
    BY <1>7
  <2>2. CASE k = 0
    BY <2>1, <2>2 DEF ValueAt
  <2>3. CASE k # 0
    <3>1. k \in 1..N /\ k - 1 \in 0..N
      BY <1>2, <2>3
    <3>2. t[k - 1] \in PartTypes
      BY <1>7, <3>1
    <3>3. <<k, t[k - 1]>> \in (1..N) \X PartTypes
      BY <3>1, <3>2
    <3>4. g[<<k, t[k - 1]>>] = Next_(t[k - 1], k)
      BY <3>3
    <3>5. t[k] = g[<<k, t[k - 1]>>]
      BY <2>1, <2>3 DEF ValueAt
    <3>6. QED
      BY <2>3, <3>4, <3>5
  <2>4. QED
    BY <2>2, <2>3
<1>9. Is(made)
  <2> HIDE DEF g, S, Next_, stem
  <2>1. t = [k \in 0..N |-> t[k]]
    BY <1>7
  <2>2. N = Len(sources)
    BY DEF N
  <2>3. Is(t)
    BY <1>8, <2>1, <2>2
  <2>4. QED
    BY <2>3
<1>10. Assemble(found, stem, sources) = made[N]
  BY DEF Assemble, N
<1> HIDE DEF stem
<1>11. ASSUME NEW k \in 0..N
       PROVE  made[k] = IF k = 0 THEN EmptyPart(stem) ELSE Next_(made[k - 1], k)
  <2> HIDE DEF made, Next_
  <2>1. k \in 0..Len(sources)
    BY DEF N
  <2>2. QED
    BY <1>9, <2>1
<1>12. made[N] = t[N]
  <2> HIDE DEF made, Next_, g, S
  <2>1. 0 \in 0..N /\ N \in 0..N
    BY <1>2
  <2>2. made[0] = t[0]
    BY <1>8, <1>11, <2>1
  <2>3. ASSUME NEW k \in 1..N, made[k - 1] = t[k - 1] PROVE made[k] = t[k]
    <3>1. k \in 0..N /\ k # 0
      BY <1>2
    <3>2. made[k] = Next_(made[k - 1], k)
      BY <1>11, <3>1
    <3>3. t[k] = Next_(t[k - 1], k)
      BY <1>8, <3>1
    <3>4. QED
      BY <2>3, <3>2, <3>3
  <2>4. GoAlike(N, made, t)
    BY <2>2, <2>3 DEF GoAlike
  <2>5. Alike(N, made, t)
    BY <1>2, <2>4, RecursionIsOne
  <2>6. QED
    BY <2>1, <2>5 DEF Alike
<1>13. Made(found, rs, t[N], first, end)
  <2>1. N \in 0..N
    BY <1>2
  <2>2. <<N, t[N]>> \in S
    BY <1>7, <2>1
  <2>3. Made(found, rs, t[N], first, first + c[N])
    BY <2>2
  <2>4. first + c[N] = end
    BY <1>1, <1>2
  <2>5. QED
    BY <2>3, <2>4
<1> HIDE DEF made, g, S
<1>14. Made(found, rs, Assemble(found, stem, sources), first, end)
  BY <1>10, <1>12, <1>13
<1>15. QED
  BY <1>14 DEF Made, stem

-----------------------------------------------------------------------------
(* What a step adds to the scans and to the rows.                          *)

LEMMA SameItems ==
    ASSUME NEW found, NEW rs, ScansAre(found, rs)
    PROVE  MoreItems(found, found)
<1>1. found \in Seq(Seq(ItemType))
  BY DEF ScansAre
<1>2. Len(found) <= Len(found) /\ \A s \in 1..Len(found) : Len(found[s]) <= Len(found[s])
  <2>1. Len(found) \in Nat
    BY <1>1, LenProperties
  <2>2. \A s \in 1..Len(found) : Len(found[s]) \in Nat
    BY <1>1, ElementOfSeq, LenProperties
  <2>3. QED
    BY <2>1, <2>2
<1>3. QED
  BY <1>1, <1>2 DEF MoreItems

LEMMA SameRows ==
    ASSUME NEW rs \in Seq(RowType)
    PROVE  MoreRows(rs, rs)
BY LenProperties DEF MoreRows

\* The item is added to the scan at s.
WithItem(found, s, item) == [found EXCEPT ![s] = Append(@, item)]

\* An item that is a row is the next one.
NextItem(rs, rt, item) ==
    IsRow(item) =>
        /\ item.name = Len(rs) /\ Len(rt) = Len(rs) + 1
        /\ item.kind = "directory" <=> rt[Len(rs) + 1].dir

LEMMA VisitItem ==
    ASSUME NEW found, NEW rs, ScansAre(found, rs), NEW rt, MoreRows(rs, rt),
           NEW s \in DOMAIN found, NEW item \in ItemType,
           NEW later, later = WithItem(found, s, item), NextItem(rs, rt, item)
    PROVE  /\ MoreItems(found, later) /\ ScansAre(later, rt)
           /\ later[s] \in Seq(ItemType) /\ Len(later[s]) = Len(found[s]) + 1
           /\ later[s][Len(found[s]) + 1] = item
<1>1. /\ found \in Seq(Seq(ItemType)) /\ rs \in Seq(RowType) /\ rt \in Seq(RowType)
      /\ Len(rs) \in Nat /\ Len(rt) \in Nat /\ Len(rs) <= Len(rt)
      /\ \A i \in 1..Len(rs) : rt[i] = rs[i]
  BY LenProperties DEF ScansAre, MoreRows
<1>2. DOMAIN found = 1..Len(found) /\ Len(found) \in Nat
  BY <1>1, LenProperties
<1>3. \A t \in DOMAIN found : found[t] \in Seq(ItemType) /\ Len(found[t]) \in Nat
                              /\ DOMAIN found[t] = 1..Len(found[t])
  BY <1>1, <1>2, ElementOfSeq, LenProperties
<1>4. /\ Append(found[s], item) \in Seq(ItemType)
      /\ Len(Append(found[s], item)) = Len(found[s]) + 1
      /\ DOMAIN Append(found[s], item) = 1..(Len(found[s]) + 1)
      /\ Append(found[s], item)[Len(found[s]) + 1] = item
      /\ \A n \in 1..Len(found[s]) : Append(found[s], item)[n] = found[s][n]
  BY <1>3
<1>5. /\ DOMAIN later = DOMAIN found
      /\ later[s] = Append(found[s], item)
      /\ \A t \in DOMAIN found : t # s => later[t] = found[t]
  BY DEF WithItem
<1>6. later \in Seq(Seq(ItemType)) /\ Len(later) = Len(found)
  BY <1>1, <1>2, <1>4 DEF WithItem
<1>7. MoreItems(found, later)
  <2>1. ASSUME NEW t \in 1..Len(found)
        PROVE  /\ Len(found[t]) <= Len(later[t])
               /\ \A n \in 1..Len(found[t]) : later[t][n] = found[t][n]
    <3>1. CASE t = s
      <4>1. Len(found[s]) <= Len(found[s]) + 1
        BY <1>3
      <4>2. QED
        BY <1>4, <1>5, <3>1, <4>1
    <3>2. CASE t # s
      BY <1>2, <1>3, <1>5, <3>2
    <3>3. QED
      BY <3>1, <3>2
  <2>2. QED
    BY <1>1, <1>2, <1>6, <2>1 DEF MoreItems
<1>8. ASSUME NEW t \in DOMAIN later, NEW n \in DOMAIN later[t]
      PROVE  \/ n \in DOMAIN found[t] /\ later[t][n] = found[t][n]
             \/ t = s /\ n = Len(found[s]) + 1 /\ later[t][n] = item
  <2>1. CASE t = s
    BY <1>3, <1>4, <1>5, <2>1
  <2>2. CASE t # s
    BY <1>5, <2>2
  <2>3. QED
    BY <2>1, <2>2
<1>9. ASSUME NEW t \in DOMAIN found, NEW n \in DOMAIN found[t], IsRow(found[t][n])
      PROVE  /\ found[t][n].name \in Nat /\ found[t][n].name < Len(rs)
             /\ found[t][n].name < Len(rt)
             /\ found[t][n].kind = "directory" <=> rt[found[t][n].name + 1].dir
  <2>1. /\ found[t][n].name \in Nat /\ found[t][n].name + 1 \in 1..Len(rs)
        /\ found[t][n].kind = "directory" <=> rs[found[t][n].name + 1].dir
    <3>1. t \in 1..Len(found) /\ n \in 1..Len(found[t])
      BY <1>2, <1>3
    <3>2. rs \in Seq(RowType)
      BY <1>1
    <3> HIDE <1>1, <1>2, <1>3
    <3>3. QED
      BY <1>9, <3>1, <3>2, ScanFacts
  <2>2. rt[found[t][n].name + 1] = rs[found[t][n].name + 1]
    BY <1>1, <2>1
  <2> DEFINE name == found[t][n].name
  <2> HIDE DEF name
  <2>3. name \in Nat /\ name + 1 \in 1..Len(rs)
    BY <2>1 DEF name
  <2>4. name < Len(rs) /\ name < Len(rt)
    BY <1>1, <2>3
  <2>5. QED
    BY <2>1, <2>2, <2>4 DEF name
<1>10. IsRow(item) => item.name = Len(rs) /\ item.name < Len(rt) /\ rt[item.name + 1] = rt[Len(rs) + 1]
           /\ (item.kind = "directory" <=> rt[Len(rs) + 1].dir)
  BY <1>1 DEF NextItem
<1>11. ASSUME NEW t \in DOMAIN later, NEW n \in DOMAIN later[t], IsRow(later[t][n])
       PROVE  /\ later[t][n].name < Len(rt)
              /\ later[t][n].kind = "directory" <=> rt[later[t][n].name + 1].dir
  <2>1. CASE n \in DOMAIN found[t] /\ later[t][n] = found[t][n]
    <3>1. t \in DOMAIN found /\ IsRow(found[t][n])
      BY <1>5, <1>11, <2>1
    <3>2. QED
      BY <1>9, <2>1, <3>1
  <2>2. CASE later[t][n] = item
    BY <1>10, <1>11, <2>2
  <2>3. QED
    BY <1>8, <2>1, <2>2
<1>12. ASSUME NEW t \in DOMAIN later, NEW u \in DOMAIN later,
              NEW n \in DOMAIN later[t], NEW m \in DOMAIN later[u],
              IsRow(later[t][n]), IsRow(later[u][m]), later[t][n].name = later[u][m].name
       PROVE  t = u /\ n = m
  <2>0. t \in DOMAIN found /\ u \in DOMAIN found
    BY <1>5
  <2>1. CASE n \in DOMAIN found[t] /\ later[t][n] = found[t][n]
    <3>1. IsRow(found[t][n])
      BY <1>12, <2>1
    <3>2. found[t][n].name \in Nat /\ found[t][n].name < Len(rs)
      BY <1>9, <2>0, <2>1, <3>1
    <3>3. CASE m \in DOMAIN found[u] /\ later[u][m] = found[u][m]
      <4>1. IsRow(found[u][m]) /\ found[t][n].name = found[u][m].name
        BY <1>12, <2>1, <3>3
      <4>2. QED
        BY <2>0, <2>1, <3>1, <3>3, <4>1 DEF ScansAre
    <3>4. CASE later[u][m] = item
      <4>1. found[t][n].name = Len(rs)
        BY <1>10, <1>12, <2>1, <3>4
      <4>2. FALSE
        BY <1>1, <3>2, <4>1
      <4>3. QED
        BY <4>2
    <3>5. QED
      BY <1>8, <3>3, <3>4
  <2>2. CASE t = s /\ n = Len(found[s]) + 1 /\ later[t][n] = item
    <3>1. CASE m \in DOMAIN found[u] /\ later[u][m] = found[u][m]
      <4>1. IsRow(found[u][m]) /\ found[u][m].name = Len(rs)
        BY <1>10, <1>12, <2>2, <3>1
      <4>2. found[u][m].name \in Nat /\ found[u][m].name < Len(rs)
        BY <1>9, <2>0, <3>1, <4>1
      <4>3. FALSE
        BY <1>1, <4>1, <4>2
      <4>4. QED
        BY <4>3
    <3>2. CASE u = s /\ m = Len(found[s]) + 1
      BY <2>2, <3>2
    <3>3. QED
      BY <1>8, <3>1, <3>2
  <2>3. QED
    BY <1>8, <2>1, <2>2
<1>13. ScansAre(later, rt)
  <2>1. \A t \in DOMAIN later : \A n \in DOMAIN later[t] :
            IsRow(later[t][n]) =>
                /\ later[t][n].name < Len(rt)
                /\ later[t][n].kind = "directory" <=> rt[later[t][n].name + 1].dir
    BY <1>11
  <2>2. \A t, u \in DOMAIN later : \A n \in DOMAIN later[t] : \A m \in DOMAIN later[u] :
            IsRow(later[t][n]) /\ IsRow(later[u][m]) /\ later[t][n].name = later[u][m].name
                => t = u /\ n = m
    BY <1>12
  <2> HIDE <1>1, <1>2, <1>3, <1>4, <1>5
  <2>3. QED
    BY <1>6, <2>1, <2>2 DEF ScansAre
<1>14. QED
  BY <1>4, <1>5, <1>7, <1>13

\* A scan is opened.
LEMMA OpenScan ==
    ASSUME NEW found, NEW rs, ScansAre(found, rs), NEW later, later = Append(found, <<>>)
    PROVE  /\ ScansAre(later, rs)
           /\ Len(later) = Len(found) + 1 /\ Len(found) \in Nat
           /\ \A more : MoreItems(more, found) => MoreItems(more, later)
<1>1. found \in Seq(Seq(ItemType))
  BY DEF ScansAre
<1>2. <<>> \in Seq(ItemType) /\ DOMAIN (<<>>) = {}
  OBVIOUS
<1> DEFINE none == <<>>
<1> HIDE DEF none
<1>3. none \in Seq(ItemType) /\ DOMAIN none = {} /\ later = Append(found, none)
  BY <1>2 DEF none
<1>4. /\ later \in Seq(Seq(ItemType)) /\ Len(later) = Len(found) + 1 /\ Len(found) \in Nat
      /\ DOMAIN later = 1..(Len(found) + 1) /\ DOMAIN found = 1..Len(found)
      /\ later[Len(found) + 1] = none
      /\ \A t \in 1..Len(found) : later[t] = found[t]
  BY <1>1, <1>3
<1>5. ASSUME NEW t \in DOMAIN later, NEW n \in DOMAIN later[t]
      PROVE  t \in DOMAIN found /\ later[t] = found[t]
  BY <1>3, <1>4, <1>5
<1>6. ScansAre(later, rs)
  <2>1. ASSUME NEW t \in DOMAIN later, NEW n \in DOMAIN later[t], IsRow(later[t][n])
        PROVE  /\ later[t][n].name < Len(rs)
               /\ later[t][n].kind = "directory" <=> rs[later[t][n].name + 1].dir
    BY <1>5, <2>1 DEF ScansAre
  <2>2. ASSUME NEW t \in DOMAIN later, NEW u \in DOMAIN later,
               NEW n \in DOMAIN later[t], NEW m \in DOMAIN later[u],
               IsRow(later[t][n]), IsRow(later[u][m]), later[t][n].name = later[u][m].name
        PROVE  t = u /\ n = m
    BY <1>5, <2>2 DEF ScansAre
  <2>3. QED
    BY <1>4, <2>1, <2>2 DEF ScansAre
<1>7. ASSUME NEW more, MoreItems(more, found)
      PROVE  MoreItems(more, later)
  <2>1. /\ more \in Seq(Seq(ItemType)) /\ Len(more) \in Nat /\ Len(more) <= Len(found)
        /\ \A s \in 1..Len(more) :
               /\ Len(more[s]) <= Len(found[s])
               /\ \A n \in 1..Len(more[s]) : found[s][n] = more[s][n]
    BY <1>7, LenProperties DEF MoreItems
  <2>2. Len(more) <= Len(later) /\ \A s \in 1..Len(more) : later[s] = found[s]
    BY <1>4, <2>1
  <2>3. QED
    BY <1>4, <2>1, <2>2 DEF MoreItems
<1>8. QED
  BY <1>4, <1>6, <1>7

\* The next row: an entry of the top level.
LEMMA TreeWithRow ==
    ASSUME IInv, PartsInv, Tree(rows), Running,
           NEW row, row \in RowType, row.depth = Top - 1, rows' = Append(rows, row)
    PROVE  /\ Tree(rows') /\ MoreRows(rows, rows')
           /\ Len(rows) = position /\ Len(rows') = position + 1
           /\ rows'[position + 1] = row
<1>1. /\ TypeOK /\ RowsInv /\ LevelsInv /\ NestInv /\ Len(rows) = position
      /\ position \in Nat /\ Top \in Nat /\ Top >= 1
      /\ \A i \in 1..Top : stack[i].row \in Nat
  BY OpenFacts DEF IInv, PartsInv
<1>2. rows \in Seq(RowType)
  BY <1>1 DEF TypeOK
<1>3. /\ rows' \in Seq(RowType) /\ Len(rows') = position + 1
      /\ rows'[position + 1] = row
      /\ \A i \in 1..position : rows'[i] = rows[i]
  BY <1>1, <1>2
<1>4. position = 0 => Top = 1
  <2>1. Top > 1 => Top \in 2..Top
    BY <1>1
  <2>2. Top > 1 => stack[Top].row < position /\ stack[Top].row \in Nat
    BY <1>1, <2>1 DEF LevelsInv
  <2>3. QED
    BY <1>1, <2>2
<1>5. ASSUME position > 0
      PROVE  \/ row.depth <= rows[position].depth
             \/ rows[position].dir /\ row.depth = rows[position].depth + 1
  <2>1. position - 1 \in 0..(Len(rows) - 1) /\ (position - 1) + 1 = position
    BY <1>1, <1>5
  <2>2. rows[position].depth \in Nat
    BY <2>1, TreeRow
  <2>3. CASE Top = 1
    BY <2>2, <2>3
  <2>4. CASE Top # 1
    <3>1. Top \in 2..Top /\ Top \in 1..Top
      BY <1>1, <2>4
    <3>2. /\ stack[Top].row < position /\ stack[Top].row \in Nat
          /\ rows[stack[Top].row + 1].depth = Top - 2
      BY <1>1, <3>1 DEF LevelsInv
    <3>3. /\ rows[stack[Top].row + 1].dir
          /\ \A q \in (stack[Top].row + 1)..(position - 1) : rows[q + 1].depth >= Top - 1
      BY <1>1, <3>1 DEF NestInv
    <3>4. CASE stack[Top].row = position - 1
      <4>1. rows[position].dir /\ rows[position].depth = Top - 2
        BY <2>1, <3>2, <3>3, <3>4
      <4>2. QED
        BY <1>1, <4>1
    <3>5. CASE stack[Top].row # position - 1
      <4>1. position - 1 \in (stack[Top].row + 1)..(position - 1)
        BY <1>1, <3>2, <3>5
      <4>2. rows[position].depth >= Top - 1
        BY <2>1, <3>3, <4>1
      <4>3. QED
        BY <1>1, <2>2, <4>2
    <3>6. QED
      BY <3>4, <3>5
  <2>5. QED
    BY <2>3, <2>4
<1>6. rows'[1].depth = 0
  <2>1. CASE position = 0
    BY <1>3, <1>4, <2>1
  <2>2. CASE position # 0
    <3>1. rows'[1] = rows[1] /\ rows # <<>>
      BY <1>1, <1>2, <1>3, <2>2
    <3>2. QED
      BY <3>1 DEF Tree
  <2>3. QED
    BY <2>1, <2>2
<1>7. ASSUME NEW p \in 1..(Len(rows') - 1)
      PROVE  \/ rows'[p + 1].depth <= rows'[p].depth
             \/ rows'[p].dir /\ rows'[p + 1].depth = rows'[p].depth + 1
  <2>1. CASE p = position
    <3>1. position > 0 /\ rows'[p] = rows[position] /\ rows'[p + 1] = row
      BY <1>1, <1>3, <2>1
    <3>2. QED
      BY <1>5, <3>1
  <2>2. CASE p # position
    <3>1. p \in 1..(Len(rows) - 1) /\ p \in 1..position /\ p + 1 \in 1..position
      BY <1>1, <1>3, <2>2
    <3>2. rows'[p] = rows[p] /\ rows'[p + 1] = rows[p + 1]
      BY <1>3, <3>1
    <3>3. QED
      BY <3>1, <3>2 DEF Tree
  <2>3. QED
    BY <2>1, <2>2
<1>8. Tree(rows')
  BY <1>3, <1>6, <1>7 DEF Tree
<1>9. MoreRows(rows, rows')
  BY <1>1, <1>2, <1>3 DEF MoreRows
<1>10. QED
  BY <1>1, <1>3, <1>8, <1>9

-----------------------------------------------------------------------------
(* The parts that are there already.                                       *)

LEMMA NamedMore ==
    ASSUME NEW found, NEW more, MoreItems(found, more), NEW kind, NEW p, Named(found, kind, p)
    PROVE  Named(more, kind, p)
<1>1. PICK s \in DOMAIN found : \E n \in DOMAIN found[s] : found[s][n] = Item(kind, p)
  BY DEF Named
<1>2. PICK n \in DOMAIN found[s] : found[s][n] = Item(kind, p)
  BY <1>1
<1>3. /\ found \in Seq(Seq(ItemType)) /\ more \in Seq(Seq(ItemType))
      /\ Len(found) <= Len(more)
  BY DEF MoreItems
<1>4. s \in 1..Len(found) /\ s \in 1..Len(more) /\ s \in DOMAIN more
  BY <1>3, LenProperties
<1>5. found[s] \in Seq(ItemType) /\ more[s] \in Seq(ItemType)
  BY <1>3, <1>4, ElementOfSeq
<1>6. n \in 1..Len(found[s]) /\ Len(found[s]) <= Len(more[s])
  BY <1>4, <1>5, LenProperties DEF MoreItems
<1>7. n \in DOMAIN more[s]
  BY <1>5, <1>6, LenProperties
<1>8. more[s][n] = found[s][n]
  BY <1>4, <1>6 DEF MoreItems
<1>9. QED
  BY <1>2, <1>4, <1>7, <1>8 DEF Named

\* A table and the nodes it is below are the same in a larger tree.
SameLeads(rs, rt, part) ==
    \A n \in Nodes(part) : Leads(rt, part, n) = Leads(rs, part, n)

SameFronts(rs, rt, first, end) ==
    \A p \in first..(end - 1) : FrontOf(rt, p) = FrontOf(rs, p)

LEMMA TableMore ==
    ASSUME NEW found, NEW rs, NEW more, NEW rt, MoreItems(found, more),
           NEW first \in Nat, NEW end \in Nat, NEW part, NEW table, NEW kind,
           SameLeads(rs, rt, part), SameFronts(rs, rt, first, end),
           TableIs(found, rs, part, table, kind, first, end)
    PROVE  TableIs(more, rt, part, table, kind, first, end)
<1>1. ASSUME NEW k \in DOMAIN table
      PROVE  \E p \in first..(end - 1) :
                /\ table[k].name = <<p>>
                /\ Named(more, kind, p)
                /\ table[k].parent \in Nodes(part)
                /\ Leads(rt, part, table[k].parent) = FrontOf(rt, p)
  <2>1. PICK p \in first..(end - 1) :
            /\ table[k].name = <<p>>
            /\ Named(found, kind, p)
            /\ table[k].parent \in Nodes(part)
            /\ Leads(rs, part, table[k].parent) = FrontOf(rs, p)
    BY DEF TableIs
  <2>2. Named(more, kind, p)
    BY <2>1, NamedMore
  <2>3. Leads(rt, part, table[k].parent) = FrontOf(rt, p)
    BY <2>1 DEF SameLeads, SameFronts
  <2>4. QED
    BY <2>1, <2>2, <2>3
<1>2. \A k, l \in DOMAIN table : k < l => table[k].name[1] < table[l].name[1]
  BY DEF TableIs
<1>3. QED
  BY <1>1, <1>2 DEF TableIs

LEMMA PartMore ==
    ASSUME NEW found, NEW rs, NEW more, NEW rt, Tree(rs), Tree(rt),
           MoreItems(found, more), MoreRows(rs, rt),
           NEW first \in Nat, NEW end \in Nat, first < end, end <= Len(rs),
           NEW part, PartIs(found, rs, part, first, end)
    PROVE  PartIs(more, rt, part, first, end)
<1>1. Len(rs) \in Nat /\ Len(rt) \in Nat
  BY TreeLength
<1>2. ASSUME NEW p \in 0..(Len(rs) - 1)
      PROVE  FrontOf(rt, p) = FrontOf(rs, p) /\ PathOf(rt, p) = PathOf(rs, p)
  BY SamePaths DEF MoreRows
<1>3. SameFronts(rs, rt, first, end)
  <2>1. ASSUME NEW p \in first..(end - 1) PROVE p \in 0..(Len(rs) - 1)
    BY <1>1
  <2>2. QED
    BY <1>2, <2>1 DEF SameFronts
<1>4. first \in 0..(Len(rs) - 1)
  BY <1>1
<1>5. part \in PartTypes /\ part.stem = FrontOf(rs, first)
  BY DEF PartIs
<1>6. SameLeads(rs, rt, part)
  <2> SUFFICES ASSUME NEW n \in Nodes(part) PROVE Leads(rt, part, n) = Leads(rs, part, n)
    BY DEF SameLeads
  <2>1. n \in Nat /\ Len(part.stem) \in Nat /\ Len(part.directories) \in Nat
        /\ part.directories \in Seq(TableRowType)
    BY <1>5, PartFields DEF Nodes
  <2>2. CASE n <= Len(part.stem)
    BY <2>2 DEF Leads
  <2>3. CASE ~(n <= Len(part.stem))
    <3> DEFINE k == n - Len(part.stem)
    <3>1. k \in DOMAIN part.directories
      <4> DEFINE a == Len(part.stem)
                 b == Len(part.directories)
      <4>1. n \in 0..(a + b) /\ a \in Nat /\ b \in Nat /\ ~(n <= a)
        BY <2>1, <2>3 DEF Nodes
      <4> HIDE DEF a, b
      <4>2. n - a \in 1..b
        BY <4>1
      <4>3. QED
        BY <2>1, <4>2, LenProperties DEF a, b
    <3> HIDE DEF k
    <3>2. PICK p \in first..(end - 1) : part.directories[k].name = <<p>>
      BY <3>1 DEF PartIs, TableIs
    <3>3. part.directories[k].name[1] = p
      BY <3>2
    <3>4. p \in 0..(Len(rs) - 1)
      BY <1>1
    <3>5. PathOf(rt, p) = PathOf(rs, p)
      BY <1>2, <3>4
    <3>6. QED
      BY <2>3, <3>3, <3>5 DEF Leads, k
  <2>4. QED
    BY <2>2, <2>3
<1>7. /\ TableIs(more, rt, part, part.directories, "directory", first, end)
      /\ TableIs(more, rt, part, part.files, "file", first, end)
      /\ TableIs(more, rt, part, part.symlinks, "symlink", first, end)
  BY <1>3, <1>6, TableMore DEF PartIs
<1>8. FrontOf(rt, first) = FrontOf(rs, first)
  BY <1>2, <1>4
<1>9. QED
  BY <1>5, <1>7, <1>8 DEF PartIs

-----------------------------------------------------------------------------
(* Sealing.                                                                *)

\* What a handler does to base and to the parts.
Seals ==
    /\ pc' # "start"
    /\ \/ base' = base /\ parts' = parts
       \/ base' # base /\ parts' = parts /\ pc' = "error"
       \/ base' # base /\ \E stem : parts' = Append(parts, [first |-> base, end |-> base', stem |-> stem])

LEMMA SealSeals ==
    ASSUME NEW condition, NEW open, NEW end, NEW next, next # "start",
           Seal(open, end, next) \/ SealIf(condition, open, end, next)
    PROVE  Seals
<1>1. Seal(open, end, next) => Seals
  BY DEF Seal, Seals
<1>2. SealIf(condition, open, end, next) => Seals
  BY <1>1 DEF SealIf, Seals
<1>3. QED
  BY <1>1, <1>2

LEMMA FinishedSeals ==
    ASSUME NEW open, NEW done, NEW i, NEW p, NEW bytes, NEW next, next # "start",
           Finished(open, done, i, p, bytes, next) \/ AddToRun(open, i, p, bytes, next)
    PROVE  Seals
<1>1. AddToRun(open, i, p, bytes, next) => Seals
  BY SealSeals DEF AddToRun
<1>2. Finished(open, done, i, p, bytes, next) => Seals
  BY <1>1 DEF Finished, Seals
<1>3. QED
  BY <1>1, <1>2

\* The stem Cut gives a part is the path of the directory of its first row.
LEMMA StemIsFront ==
    ASSUME StemsNameAncestors', NEW k \in DOMAIN parts'
    PROVE  parts'[k].stem = FrontOf(rows', parts'[k].first)
<1>1. \A p, d : AncestorIn(rows', p, d) = Ancestor(p, d)'
  BY DEF Ancestor, AncestorIn
<1>2. QED
  BY <1>1 DEF StemsNameAncestors, FrontOf
\* The parts and the waiting rows after a handler has sealed what it seals of the
\* ranges, which are all the rows by then.
LEMMA SealStep ==
    ASSUME IInv, PartsInv, IInv', PartsInv', AssemblyInvariant, Running,
           Tree(rows'), ScansAre(scans', rows'), ReadingInv',
           MoreItems(scans, scans'), MoreRows(rows, rows'), Seals,
           NEW ranges, RangesAre(scans', rows', ranges, base, position'), SealFrom(ranges)
    PROVE  AssemblyInvariant'
<1>1. /\ base \in Nat /\ base' \in Nat /\ position' \in Nat
      /\ parts \in Seq(PartType) /\ parts' \in Seq(PartType)
      /\ Len(rows') = position' /\ Len(rows) = position /\ position \in Nat
  BY DEF IInv, TypeOK, PartsInv
<1>2. /\ built \in Seq(PartTypes) /\ Len(built) = Len(parts)
      /\ Tree(rows) /\ scans' \in Seq(Seq(ItemType))
  BY DEF AssemblyInvariant, BuiltInv, ScansAre
<1>3. ASSUME NEW k \in 1..Len(parts)
      PROVE  PartIs(scans', rows', built[k], parts[k].first, parts[k].end)
  <2>1. PartIs(scans, rows, built[k], parts[k].first, parts[k].end)
    BY DEF AssemblyInvariant, BuiltInv
  <2>2. parts[k] \in PartType /\ k \in DOMAIN parts
    BY <1>1, ElementOfSeq, LenProperties
  <2>3. parts[k].first \in Nat /\ parts[k].end \in Nat
    BY <2>2 DEF PartType
  <2>4. parts[k].first < parts[k].end
    BY DEF IInv, TilesInv, PartsTile, Tiles
  <2>5. parts[k].end <= Len(rows)
    BY <1>1, <2>2 DEF PartsInv, EndsInv
  <2>6. QED
    BY <1>2, <2>1, <2>3, <2>4, <2>5, PartMore
<1>4. CASE base' = base
  <2>1. waiting' = ranges /\ built' = built /\ parts' = parts
    BY <1>4 DEF SealFrom, Seals
  <2>2. RangesAre(scans', rows', waiting', base', position')
    BY <1>4, <2>1
  <2>3. BuiltInv'
    BY <1>2, <1>3, <2>1 DEF BuiltInv
  <2>4. QED
    BY <1>2, <2>1, <2>2, <2>3 DEF AssemblyInvariant, Seals
<1>5. CASE parts' = parts /\ pc' = "error"
  <2>1. built' = built
    BY <1>5 DEF SealFrom
  <2>2. BuiltInv'
    BY <1>2, <1>3, <1>5, <2>1 DEF BuiltInv
  <2>3. ~Running'
    BY <1>5 DEF Running
  <2>4. QED
    BY <1>2, <1>5, <2>1, <2>2, <2>3 DEF AssemblyInvariant
<1>6. ASSUME base' # base, NEW stem,
             parts' = Append(parts, [first |-> base, end |-> base', stem |-> stem])
      PROVE  AssemblyInvariant'
  <2> DEFINE N == Len(parts)
             part == [first |-> base, end |-> base', stem |-> stem]
             n == base' - base
             drained == Drain(scans', ranges, n)
             made == Assemble(scans', stem, drained.sources)
  <2>1. part.first = base /\ part.end = base' /\ part.stem = stem
    OBVIOUS
  <2> HIDE DEF part
  <2>2. /\ N \in Nat /\ Len(parts') = N + 1
        /\ parts'[N + 1] = part /\ \A k \in 1..N : parts'[k] = parts[k]
        /\ Last(parts') = part /\ N + 1 \in DOMAIN parts' /\ parts' # parts
        /\ N + 1 \in 1..Len(parts')
    <3>1. parts' = Append(parts, part)
      BY <1>6 DEF part
    <3>2. N \in Nat /\ Len(parts') = N + 1
      BY <1>1, <3>1, LenProperties
    <3>3. parts'[N + 1] = part /\ \A k \in 1..N : parts'[k] = parts[k]
      BY <1>1, <3>1
    <3>4. Last(parts') = part
      BY <3>2, <3>3 DEF Last
    <3>5. N + 1 \in DOMAIN parts' /\ parts' # parts
      BY <1>1, <3>2, LenProperties
    <3>6. N + 1 \in 1..Len(parts')
      BY <3>2
    <3>7. QED
      BY <3>2, <3>3, <3>4, <3>5, <3>6
  <2>3. base < base'
    <3>1. \A k \in 1..Len(parts') : parts'[k].first < parts'[k].end
      BY DEF IInv, TilesInv, PartsTile, Tiles
    <3>2. QED
      BY <2>1, <2>2, <3>1
  <2>4. base' <= position'
    <3>1. \A k \in DOMAIN parts' : parts'[k].end <= position'
      BY DEF PartsInv, EndsInv
    <3>2. QED
      BY <2>1, <2>2, <3>1
  <2>5. stem = FrontOf(rows', base)
    <3>1. StemsNameAncestors'
      BY DEF PartsInv
    <3>2. QED
      BY <2>1, <2>2, <3>1, StemIsFront
  <2>6. /\ n \in 1..(position' - base) /\ base + n = base'
        /\ base \in 0..(Len(rows') - 1)
    <3> DEFINE b == base'
               q == position'
    <3>1. base \in Nat /\ b \in Nat /\ q \in Nat /\ base < b /\ b <= q
      BY <1>1, <2>3, <2>4
    <3> HIDE DEF b, q
    <3>2. b - base \in 1..(q - base) /\ base + (b - base) = b /\ base \in 0..(q - 1)
      BY <3>1
    <3>3. QED
      BY <1>1, <3>2 DEF b, q
  <2>7. /\ RangesAre(scans', rows', drained.sources, base, base')
        /\ RangesAre(scans', rows', drained.rest, base', position')
    <3> HIDE DEF n
    <3>1. /\ RangesAre(scans', rows', drained.sources, base, base + n)
          /\ RangesAre(scans', rows', drained.rest, base + n, position')
      BY <1>1, <1>2, <2>6, DrainRanges
    <3>2. QED
      BY <2>6, <3>1
  <2>8. PartIs(scans', rows', made, base, base')
    BY <1>1, <2>5, <2>6, <2>7, AssembleRanges
  <2>9. made \in PartTypes
    BY <2>8 DEF PartIs
  <2>10. waiting' = drained.rest /\ built' = Append(built, made)
    BY <1>6, <2>1, <2>2 DEF SealFrom
  <2> HIDE DEF made, drained, n
  <2>11. /\ built' \in Seq(PartTypes) /\ Len(built') = N + 1
         /\ built'[N + 1] = made /\ \A k \in 1..N : built'[k] = built[k]
    BY <1>2, <2>9, <2>10
  <2>12. ASSUME NEW k \in 1..Len(parts')
         PROVE  PartIs(scans', rows', built'[k], parts'[k].first, parts'[k].end)
    <3>1. k \in 1..N \/ k = N + 1
      BY <2>2
    <3>2. CASE k \in 1..N
      BY <1>3, <2>2, <2>11, <3>2
    <3>3. CASE k = N + 1
      BY <2>1, <2>2, <2>8, <2>11, <3>3
    <3>4. QED
      BY <3>1, <3>2, <3>3
  <2>13. BuiltInv'
    BY <2>2, <2>11, <2>12 DEF BuiltInv
  <2>14. QED
    BY <2>7, <2>10, <2>11, <2>13 DEF AssemblyInvariant, Seals
<1>7. QED
  BY <1>4, <1>5, <1>6 DEF Seals

\* A step that visits no row and seals nothing.
LEMMA NoRowStep ==
    ASSUME IInv, PartsInv, IInv', PartsInv', AssemblyInvariant, Running,
           ScansAre(scans', rows), ReadingInv', MoreItems(scans, scans'), Seals,
           rows' = rows, position' = position, SealFrom(waiting)
    PROVE  AssemblyInvariant'
<1>1. /\ Tree(rows) /\ ScansAre(scans, rows)
      /\ RangesAre(scans, rows, waiting, base, position)
  BY DEF AssemblyInvariant
<1>2. rows \in Seq(RowType) /\ base \in Nat /\ position \in Nat
  BY DEF IInv, TypeOK
<1>3. MoreRows(rows, rows)
  BY <1>2, SameRows
<1>4. RangesAre(scans', rows, waiting, base, position)
  BY <1>1, <1>2, <1>3, RangesMore
<1>5. QED
  BY <1>1, <1>3, <1>4, SealStep
-----------------------------------------------------------------------------
(* The steps of the walk.                                                  *)

LEMMA SameLength ==
    ASSUME NEW S, NEW T, NEW s \in Seq(S), NEW t \in Seq(T), DOMAIN s = DOMAIN t
    PROVE  Len(s) = Len(t)
<1>1. Len(s) \in Nat /\ Len(t) \in Nat /\ 1..Len(s) = 1..Len(t)
  BY LenProperties
<1> DEFINE a == Len(s)
           b == Len(t)
<1>2. a \in Nat /\ b \in Nat /\ 1..a = 1..b
  BY <1>1
<1> HIDE DEF a, b
<1>3. a = b
  <2>1. a \in 1..a \/ a = 0
    BY <1>2
  <2>2. b \in 1..b \/ b = 0
    BY <1>2
  <2>3. a <= b
    BY <1>2, <2>1
  <2>4. b <= a
    BY <1>2, <2>2
  <2>5. QED
    BY <1>2, <2>3, <2>4
<1>4. QED
  BY <1>3 DEF a, b

\* How many directories are open after a run is moved.
LEMMA RunLength ==
    ASSUME TypeOK', NEW open \in Seq(LevelType), NEW done, NEW i, NEW p, NEW bytes, NEW next,
           \/ Finished(open, done, i, p, bytes, next)
           \/ AddToRun(open, i, p, bytes, next)
           \/ stack' = SetRun(open, i, p, bytes)
    PROVE  Len(stack') = Len(open)
<1>1. stack' \in Seq(LevelType)
  BY DEF TypeOK
<1>2. \A f, b : DOMAIN SetRun(open, i, f, b) = DOMAIN open
  BY DEF SetRun
<1>3. DOMAIN stack' = DOMAIN open
  BY <1>2 DEF Finished, AddToRun
<1>4. QED
  BY <1>1, <1>3, SameLength

\* What the handlers of a row start from.
LEMMA ReadFacts ==
    ASSUME IInv, Running, AssemblyInvariant
    PROVE  /\ Top \in Nat /\ Top >= 1 /\ Len(reading) = Top /\ Top \in DOMAIN reading
           /\ reading \in Seq(Nat)
           /\ scans \in Seq(Seq(ItemType)) /\ Len(scans) \in Nat /\ DOMAIN scans = 1..Len(scans)
           /\ reading[Top] \in DOMAIN scans
           /\ scans[reading[Top]] \in Seq(ItemType) /\ Len(scans[reading[Top]]) \in Nat
<1>1. Top \in Nat /\ Top >= 1
  BY OpenFacts
<1>2. reading \in Seq(Nat) /\ Len(reading) = Top /\ \A i \in DOMAIN reading : reading[i] \in DOMAIN scans
  BY DEF AssemblyInvariant, ReadingInv
<1>3. scans \in Seq(Seq(ItemType))
  BY DEF AssemblyInvariant, ScansAre
<1>4. Top \in DOMAIN reading /\ DOMAIN scans = 1..Len(scans) /\ Len(scans) \in Nat
  BY <1>1, <1>2, <1>3, LenProperties
<1>5. reading[Top] \in 1..Len(scans)
  BY <1>2, <1>4
<1>6. scans[reading[Top]] \in Seq(ItemType)
  BY <1>3, <1>5, ElementOfSeq
<1>7. QED
  BY <1>1, <1>2, <1>3, <1>4, <1>5, <1>6, LenProperties

\* The scans only grow, so a directory goes on reading its own.
LEMMA StillReads ==
    ASSUME ReadingInv, MoreItems(scans, scans'), reading' = reading, Len(stack') = Len(stack)
    PROVE  ReadingInv'
<1>1. /\ scans \in Seq(Seq(ItemType)) /\ scans' \in Seq(Seq(ItemType))
      /\ Len(scans) <= Len(scans')
  BY DEF MoreItems
<1>2. \A s \in DOMAIN scans : s \in DOMAIN scans'
  BY <1>1, LenProperties
<1>3. QED
  BY <1>2 DEF ReadingInv, Top

\* The next row is visited, with its item.
Visits(row, kind) ==
    /\ row \in RowType
    /\ row.depth = Top - 1
    /\ rows' = Append(rows, row)
    /\ kind \in Kinds
    /\ kind = "directory" <=> row.dir

LEMMA VisitedRow ==
    ASSUME IInv, PartsInv, AssemblyInvariant, Running,
           NEW row, NEW kind, Visits(row, kind), NEW found, found = Visited(Item(kind, position))
    PROVE  /\ Tree(rows') /\ MoreRows(rows, rows') /\ rows'[position + 1].depth = Top - 1
           /\ MoreItems(scans, found) /\ ScansAre(found, rows')
           /\ found[reading[Top]] \in Seq(ItemType)
           /\ Len(found[reading[Top]]) = Len(scans[reading[Top]]) + 1
           /\ found[reading[Top]][Len(scans[reading[Top]]) + 1] = Item(kind, position)
<1> DEFINE s == reading[Top]
           item == Item(kind, position)
<1>1. /\ Tree(rows') /\ MoreRows(rows, rows')
      /\ Len(rows) = position /\ Len(rows') = position + 1
      /\ rows'[position + 1] = row
  <2>1. Tree(rows)
    BY DEF AssemblyInvariant
  <2>2. row \in RowType /\ row.depth = Top - 1 /\ rows' = Append(rows, row)
    BY DEF Visits
  <2>3. QED
    BY <2>1, <2>2, TreeWithRow
<1>2. ScansAre(scans, rows) /\ s \in DOMAIN scans
  BY ReadFacts DEF AssemblyInvariant
<1>3. position \in Nat
  BY OpenFacts
<1>4. item \in ItemType /\ item.name = position /\ item.kind = kind
  BY <1>3 DEF Visits, Item, ItemType
<1>5. found = WithItem(scans, s, item)
  BY DEF Visited, WithItem
<1>6. item.name = Len(rows) /\ (item.kind = "directory" <=> rows'[Len(rows) + 1].dir)
  BY <1>1, <1>4 DEF Visits
<1>a. Len(rows') = Len(rows) + 1
  BY <1>1
<1> HIDE DEF s, item
<1>b. NextItem(rows, rows', item)
  BY <1>6, <1>a DEF NextItem
<1>c. MoreRows(rows, rows') /\ item \in ItemType
  BY <1>1, <1>4
<1>7. /\ MoreItems(scans, found) /\ ScansAre(found, rows')
      /\ found[s] \in Seq(ItemType) /\ Len(found[s]) = Len(scans[s]) + 1
      /\ found[s][Len(scans[s]) + 1] = item
  BY <1>2, <1>5, <1>b, <1>c, VisitItem
<1>8. rows'[position + 1].depth = Top - 1
  BY <1>1 DEF Visits
<1>9. QED
  BY <1>1, <1>7, <1>8 DEF s, item

\* The waiting rows have it too, once the scans are those after the step.
LEMMA RowWaits ==
    ASSUME IInv, PartsInv, AssemblyInvariant, Running,
           NEW row, NEW kind, Visits(row, kind), NEW found, found = Visited(Item(kind, position)),
           NEW later, MoreItems(scans, later), ScansAre(later, rows'),
           later[reading[Top]] = found[reading[Top]]
    PROVE  RangesAre(later, rows', Extended, base, position + 1)
<1> DEFINE s == reading[Top]
           index == Len(scans[s])
<1>1. /\ MoreRows(rows, rows') /\ rows'[position + 1].depth = Top - 1
      /\ later[s] \in Seq(ItemType) /\ Len(later[s]) = index + 1
      /\ later[s][index + 1] = Item(kind, position)
  BY VisitedRow
<1>2. /\ Top \in Nat /\ Top - 1 \in Nat /\ s \in DOMAIN scans /\ index \in Nat
      /\ position \in Nat /\ base \in Nat
  BY ReadFacts, OpenFacts
<1>3. ScansAre(scans, rows) /\ RangesAre(scans, rows, waiting, base, position)
  BY DEF AssemblyInvariant
<1>4. RangesAre(later, rows', waiting, base, position)
  BY <1>1, <1>2, <1>3, RangesMore
<1>5. s \in DOMAIN later /\ later \in Seq(Seq(ItemType))
  BY <1>2, LenProperties DEF MoreItems
<1>6. IsRow(Item(kind, position)) /\ Item(kind, position).name = position
  BY DEF Visits, Kinds, IsRow, Item
<1>7. Comes(later, rows', s, index, Top - 1, position)
  BY <1>1, <1>5, <1>6 DEF Comes
<1>8. QED
  BY <1>2, <1>4, <1>7, ExtendedRanges

LEMMA LeafRowStep ==
    ASSUME IInv, PartsInv, IInv', PartsInv', AssemblyInvariant, NEW bytes \in Sizes, LeafRow(bytes)
    PROVE  AssemblyInvariant'
<1> DEFINE row == [depth |-> Top - 1, bytes |-> bytes, dir |-> FALSE]
<1>1. /\ Running /\ rows' = Append(rows, row) /\ position' = position + 1
      /\ Finished(stack, completed, Top, position, bytes, "budget")
      /\ SealFrom(Extended) /\ reading' = reading
  BY DEF LeafRow, Leaf, Visiting, Running
<1>2. PICK kind \in {"file", "symlink"} : scans' = Visited(Item(kind, position))
  BY DEF LeafRow
<1>3. Visits(row, kind)
  <2>1. Top - 1 \in Nat /\ bytes \in Nat
    BY <1>1, ReadFacts, CutAssumption
  <2>2. row \in RowType
    BY <2>1 DEF RowType
  <2>3. QED
    BY <1>1, <1>2, <2>2 DEF Visits, Kinds
<1> HIDE DEF row
<1>4. /\ Tree(rows') /\ MoreRows(rows, rows')
      /\ MoreItems(scans, scans') /\ ScansAre(scans', rows')
  BY <1>1, <1>2, <1>3, VisitedRow
<1>5. RangesAre(scans', rows', Extended, base, position')
  BY <1>1, <1>2, <1>3, <1>4, RowWaits
<1>6. Seals
  BY <1>1, FinishedSeals
<1>7. Len(stack') = Len(stack)
  BY <1>1, RunLength DEF IInv, TypeOK
<1>8. ReadingInv'
  BY <1>1, <1>4, <1>7, StillReads DEF AssemblyInvariant
<1>9. QED
  BY <1>1, <1>4, <1>5, <1>6, <1>8, SealStep

LEMMA EnterRowStep ==
    ASSUME IInv, PartsInv, IInv', PartsInv', AssemblyInvariant, NEW bytes \in Sizes, EnterRow(bytes)
    PROVE  AssemblyInvariant'
<1> DEFINE row == [depth |-> Top - 1, bytes |-> bytes, dir |-> TRUE]
           found == Visited(Item("directory", position))
<1>1. /\ Running /\ rows' = Append(rows, row) /\ position' = position + 1
      /\ base' = base /\ parts' = parts /\ SealFrom(Extended)
      /\ \/ pc' = "budget"
            /\ \E level : stack' = Append(stack, level)
         \/ pc' = "error" /\ stack' = stack
  BY DEF EnterRow, Enter, Visiting, Running
<1>2. IF pc' = "budget"
      THEN scans' = Append(found, <<>>) /\ reading' = Append(reading, Len(found) + 1)
      ELSE scans' = found /\ reading' = reading
  BY DEF EnterRow
<1>3. Visits(row, "directory")
  <2>1. Top - 1 \in Nat /\ bytes \in Nat
    BY <1>1, ReadFacts, CutAssumption
  <2>2. row \in RowType
    BY <2>1 DEF RowType
  <2>3. QED
    BY <1>1, <2>2 DEF Visits, Kinds
<1> HIDE DEF row, found
<1>4. /\ Tree(rows') /\ MoreRows(rows, rows')
      /\ MoreItems(scans, found) /\ ScansAre(found, rows')
  BY <1>1, <1>3, VisitedRow DEF found
<1>5. Seals
  BY <1>1 DEF Seals
<1>6. CASE pc' = "budget"
  <2>1. scans' = Append(found, <<>>) /\ reading' = Append(reading, Len(found) + 1)
    BY <1>2, <1>6
  <2>2. /\ ScansAre(scans', rows') /\ MoreItems(scans, scans')
        /\ Len(scans') = Len(found) + 1 /\ Len(found) \in Nat
    BY <1>4, <2>1, OpenScan
  <2>3. scans'[reading[Top]] = found[reading[Top]]
    <3>1. /\ scans \in Seq(Seq(ItemType)) /\ found \in Seq(Seq(ItemType))
          /\ Len(scans) <= Len(found) /\ Len(scans) \in Nat
      BY <1>4, LenProperties DEF MoreItems
    <3>2. reading[Top] \in 1..Len(scans)
      BY <1>1, ReadFacts
    <3>3. reading[Top] \in 1..Len(found)
      BY <2>2, <3>1, <3>2
    <3>4. QED
      BY <2>1, <3>1, <3>3
  <2>4. RangesAre(scans', rows', Extended, base, position')
    BY <1>1, <1>3, <2>2, <2>3, RowWaits DEF found
  <2>5. ReadingInv'
    <3>1. /\ reading \in Seq(Nat) /\ Len(reading) = Top /\ Top \in Nat
          /\ \A i \in DOMAIN reading : reading[i] \in 1..Len(scans)
      BY <1>1, ReadFacts DEF AssemblyInvariant, ReadingInv
    <3>2. Len(stack') = Top + 1
      <4>1. PICK level : stack' = Append(stack, level)
        BY <1>1, <1>6
      <4>2. stack \in Seq(LevelType)
        BY DEF IInv, TypeOK
      <4>3. QED
        BY <4>1, <4>2, LenProperties DEF Top
    <3>3. DOMAIN scans' = 1..(Len(found) + 1) /\ Len(scans) <= Len(found) /\ Len(scans) \in Nat
      BY <1>4, <2>2, LenProperties DEF MoreItems
    <3>4. /\ reading' \in Seq(Nat) /\ Len(reading') = Top + 1
          /\ DOMAIN reading' = 1..(Top + 1) /\ DOMAIN reading = 1..Top
          /\ reading'[Top + 1] = Len(found) + 1
          /\ \A i \in 1..Top : reading'[i] = reading[i]
      BY <2>1, <2>2, <3>1
    <3>5. ASSUME NEW i \in DOMAIN reading' PROVE reading'[i] \in 1..(Len(found) + 1)
      <4>1. i \in 1..Top \/ i = Top + 1
        BY <3>1, <3>4
      <4>2. CASE i \in 1..Top
        <5>1. reading[i] \in 1..Len(scans) /\ reading'[i] = reading[i]
          BY <3>1, <3>4, <4>2
        <5>2. QED
          BY <2>2, <3>3, <5>1
      <4>3. CASE i = Top + 1
        BY <2>2, <3>4, <4>3
      <4>4. QED
        BY <4>1, <4>2, <4>3
    <3>6. QED
      BY <3>2, <3>3, <3>4, <3>5 DEF ReadingInv, Top
  <2>6. QED
    BY <1>1, <1>4, <1>5, <2>2, <2>4, <2>5, SealStep
<1>7. CASE pc' = "error"
  <2>1. scans' = found /\ reading' = reading
    BY <1>2, <1>7
  <2>2. RangesAre(scans', rows', Extended, base, position')
    BY <1>1, <1>3, <1>4, <2>1, RowWaits DEF found
  <2>3. ReadingInv'
    BY <1>1, <1>4, <1>7, <2>1, StillReads DEF AssemblyInvariant
  <2>4. QED
    BY <1>1, <1>4, <1>5, <2>1, <2>2, <2>3, SealStep
<1>8. QED
  BY <1>1, <1>6, <1>7
\* The path that read_on cuts back is the directory's already.
LEMMA PathIsTheDirectorys ==
    ASSUME IInv, Visiting
    PROVE  SubSeq(path, 1, stack[Top].path_len) = path
<1>1. Running /\ Top \in Nat /\ Top >= 1
  BY DEF Visiting, Running, IInv, TypeOK, Top
<1>2. path = OpenRows /\ stack[Top].path_len = Top - 1
  BY <1>1 DEF IInv, PathInv
<1>3. path \in Seq(Nat)
  BY DEF IInv, TypeOK
<1>4. Len(path) = Top - 1
  BY <1>1, <1>2 DEF OpenRows
<1>5. QED
  BY <1>2, <1>3, <1>4

LEMMA ReadOnStutters ==
    ASSUME IInv, ReadOn
    PROVE  UNCHANGED vars
BY PathIsTheDirectorys DEF ReadOn, vars

LEMMA AssemblyStep ==
    ASSUME IInv, [AssemblyNext]_<<vars, rowVars>>
    PROVE  [Next]_vars
<1>1. CASE StartScan
  BY <1>1 DEF StartScan, Next, Step
<1>2. ASSUME NEW bytes \in Sizes, LeafRow(bytes) PROVE Next
  BY <1>2 DEF LeafRow, Next, Step
<1>3. ASSUME NEW bytes \in Sizes, EnterRow(bytes) PROVE Next
  BY <1>3 DEF EnterRow, Next, Step
<1>4. CASE SkippedItem
  BY <1>4 DEF SkippedItem
<1>5. CASE ReadOn
  BY <1>5, ReadOnStutters
<1>6. CASE Cutting
  BY <1>6 DEF Cutting, Next, Step
<1>7. CASE Finishing
  BY <1>7 DEF Finishing, Next, Step
<1>8. CASE Passing
  BY <1>8 DEF Passing, Next, Step
<1>9. CASE UNCHANGED <<vars, rowVars>>
  BY <1>9
<1>10. QED
  BY <1>1, <1>2, <1>3, <1>4, <1>5, <1>6, <1>7, <1>8, <1>9 DEF AssemblyNext

\* A walk with its scans, ranges and parts is one of Cut's, for every tree and
\* every budget.
THEOREM WalkIsOneOfCut == AssemblySpec => WalksAsCut
<1>1. AssemblyInit => Init
  BY DEF AssemblyInit
<1>2. Init => IInv
  BY InitStep
<1>3. IInv /\ [AssemblyNext]_<<vars, rowVars>> => [Next]_vars
  BY AssemblyStep
<1>4. IInv /\ [Next]_vars => IInv'
  BY InvStep
<1>5. QED
  BY <1>1, <1>2, <1>3, <1>4, PTL DEF AssemblySpec, WalksAsCut

\* The scan of the next item is read on.
LEMMA SkippedItemStep ==
    ASSUME IInv, PartsInv, IInv', PartsInv', AssemblyInvariant, SkippedItem
    PROVE  AssemblyInvariant'
<1>1. /\ Running /\ scans' = WithItem(scans, reading[Top], Skipped)
      /\ rows' = rows /\ position' = position /\ base' = base /\ parts' = parts /\ pc' = pc
      /\ stack' = stack /\ reading' = reading /\ waiting' = waiting /\ built' = built
  BY DEF SkippedItem, Visited, WithItem, Visiting, Running, vars
<1>2. ScansAre(scans, rows) /\ reading[Top] \in DOMAIN scans
  BY <1>1, ReadFacts DEF AssemblyInvariant
<1>3. MoreRows(rows, rows)
  BY SameRows DEF IInv, TypeOK
<1>4. Skipped \in ItemType /\ NextItem(rows, rows, Skipped)
  BY DEF Skipped, Item, ItemType, NextItem, IsRow
<1>5. MoreItems(scans, scans') /\ ScansAre(scans', rows)
  BY <1>1, <1>2, <1>3, <1>4, VisitItem
<1>6. ReadingInv'
  BY <1>1, <1>5, StillReads DEF AssemblyInvariant
<1>7. Seals /\ SealFrom(waiting)
  BY <1>1 DEF Seals, SealFrom, Running
<1>8. QED
  BY <1>1, <1>5, <1>6, <1>7, NoRowStep

LEMMA ReadOnStep ==
    ASSUME IInv, PartsInv, IInv', PartsInv', AssemblyInvariant, ReadOn
    PROVE  AssemblyInvariant'
<1>1. /\ Running /\ scans' = Append(scans, <<>>)
      /\ reading' = [reading EXCEPT ![Top] = Len(scans')]
      /\ rows' = rows /\ position' = position /\ base' = base /\ parts' = parts /\ pc' = pc
      /\ stack' = stack /\ waiting' = waiting /\ built' = built
  BY DEF ReadOn, Visiting, Running
<1>2. ScansAre(scans, rows)
  BY DEF AssemblyInvariant
<1>3. /\ ScansAre(scans', rows) /\ MoreItems(scans, scans')
      /\ Len(scans') = Len(scans) + 1 /\ Len(scans) \in Nat
  BY <1>1, <1>2, OpenScan, SameItems
<1>4. ReadingInv'
  <2>1. /\ reading \in Seq(Nat) /\ Len(reading) = Top /\ Top \in Nat /\ Top >= 1
        /\ DOMAIN reading = 1..Top
        /\ \A i \in DOMAIN reading : reading[i] \in 1..Len(scans)
    BY <1>1, ReadFacts, LenProperties DEF AssemblyInvariant, ReadingInv
  <2>2. DOMAIN scans' = 1..(Len(scans) + 1)
    BY <1>3, LenProperties DEF ScansAre
  <2>3. reading' \in Seq(Nat) /\ DOMAIN reading' = DOMAIN reading
    <3> DEFINE n == Len(scans')
    <3>1. n \in Nat /\ reading' = [reading EXCEPT ![Top] = n]
      BY <1>1, <1>3
    <3> HIDE DEF n
    <3>2. [reading EXCEPT ![Top] = n] \in Seq(Nat)
      BY <2>1, <3>1, ExceptSeq
    <3>3. DOMAIN [reading EXCEPT ![Top] = n] = DOMAIN reading
      OBVIOUS
    <3>4. QED
      BY <3>1, <3>2, <3>3
  <2>4. Len(reading') = Top
    BY <2>1, <2>3, SameLength
  <2>5. ASSUME NEW i \in DOMAIN reading' PROVE reading'[i] \in 1..(Len(scans) + 1)
    <3>1. reading'[i] = IF i = Top THEN Len(scans) + 1 ELSE reading[i]
      BY <1>1, <1>3, <2>3
    <3>2. CASE i = Top
      BY <1>3, <3>1, <3>2
    <3>3. CASE i # Top
      <4>1. reading'[i] \in 1..Len(scans)
        BY <2>1, <2>3, <3>1, <3>3
      <4>2. QED
        BY <1>3, <4>1
    <3>4. QED
      BY <3>2, <3>3
  <2>6. QED
    BY <1>1, <2>1, <2>2, <2>3, <2>4, <2>5 DEF ReadingInv, Top
<1>5. Seals /\ SealFrom(waiting)
  BY <1>1 DEF Seals, SealFrom, Running
<1>6. QED
  BY <1>1, <1>3, <1>4, <1>5, NoRowStep

\* What a handler that visits nothing leaves of the scans.
LEMMA UnreadStep ==
    ASSUME IInv, PartsInv, IInv', PartsInv', AssemblyInvariant, Running, ReadingInv',
           scans' = scans, rows' = rows, position' = position, Seals, SealFrom(waiting)
    PROVE  AssemblyInvariant'
<1>1. ScansAre(scans, rows)
  BY DEF AssemblyInvariant
<1>2. MoreItems(scans, scans)
  BY <1>1, SameItems
<1>3. QED
  BY <1>1, <1>2, NoRowStep

LEMMA CuttingStep ==
    ASSUME IInv, PartsInv, IInv', PartsInv', AssemblyInvariant, Cutting
    PROVE  AssemblyInvariant'
<1>1. /\ Running /\ scans' = scans /\ reading' = reading /\ SealFrom(waiting)
      /\ rows' = rows /\ position' = position
  BY DEF Cutting, Split, Offer, Running
<1>2. stack \in Seq(LevelType) /\ stack' \in Seq(LevelType) /\ TypeOK' /\ DOMAIN stack = 1..Top
  BY LenProperties DEF IInv, TypeOK, Top
<1>3. ASSUME Split PROVE Seals /\ Len(stack') = Len(stack)
  <2>1. Seals
    BY <1>3, SealSeals DEF Split
  <2>2. \E n : stack' = SplitLevels(measuring, n)
    BY <1>3 DEF Split
  <2>3. DOMAIN stack' = DOMAIN stack
    BY <1>2, <2>2 DEF SplitLevels
  <2>4. Len(stack') = Len(stack)
    BY <1>2, <2>3, SameLength
  <2>5. QED
    BY <2>1, <2>4
<1>4. ASSUME Offer PROVE Seals /\ Len(stack') = Len(stack)
  <2>1. AddToRun(stack, measuring, Head(offers).position, Head(offers).bytes, "offer")
    BY <1>4 DEF Offer
  <2>2. Seals
    BY <2>1, FinishedSeals
  <2>3. Len(stack') = Len(stack)
    BY <1>2, <2>1, RunLength
  <2>4. QED
    BY <2>2, <2>3
<1>5. Seals /\ Len(stack') = Len(stack)
  BY <1>3, <1>4 DEF Cutting
<1>6. ReadingInv'
  BY <1>1, <1>5 DEF AssemblyInvariant, ReadingInv, Top
<1>7. QED
  BY <1>1, <1>5, <1>6, UnreadStep

LEMMA FinishingStep ==
    ASSUME IInv, PartsInv, IInv', PartsInv', AssemblyInvariant, Finishing
    PROVE  AssemblyInvariant'
<1>1. /\ Running /\ scans' = scans /\ reading' = Front(reading) /\ SealFrom(waiting)
      /\ rows' = rows /\ position' = position
  BY DEF Finishing, FinishRoot, FinishSplit, FinishMeasured, Pop, Visiting, Running
<1>2. Top \in Nat /\ Top >= 1 /\ TypeOK'
  BY <1>1, OpenFacts DEF IInv
<1>3. ASSUME FinishRoot PROVE Seals /\ Len(stack') = Top - 1
  <2>1. Seals
    BY <1>3, SealSeals DEF FinishRoot
  <2>2. Len(stack') = Top - 1
    BY <1>2, <1>3 DEF FinishRoot
  <2>3. QED
    BY <2>1, <2>2
<1>4. ASSUME Top > 1 PROVE Below \in Seq(LevelType) /\ Len(Below) = Top - 1
  BY <1>1, <1>4, PopFacts
<1>5. ASSUME FinishSplit PROVE Seals /\ Len(stack') = Top - 1
  <2>1. Seals
    BY <1>5, SealSeals DEF FinishSplit
  <2>2. Len(stack') = Top - 1
    BY <1>2, <1>4, <1>5, RunLength DEF FinishSplit
  <2>3. QED
    BY <2>1, <2>2
<1>6. ASSUME FinishMeasured PROVE Seals /\ Len(stack') = Top - 1
  <2>1. /\ Top > 1
        /\ Finished(Below, SubSeq(completed, 1, stack[Top].completed), Top - 1,
                    stack[Top].row, total - stack[Top].start_total, "visit")
    BY <1>6 DEF FinishMeasured
  <2>2. Seals
    BY <2>1, FinishedSeals
  <2>3. Len(stack') = Top - 1
    BY <1>2, <1>4, <2>1, RunLength
  <2>4. QED
    BY <2>2, <2>3
<1>7. Seals /\ Len(stack') = Top - 1
  BY <1>3, <1>5, <1>6 DEF Finishing
<1>8. ReadingInv'
  <2>1. /\ reading \in Seq(Nat) /\ Len(reading) = Top /\ DOMAIN reading = 1..Top
        /\ \A i \in 1..Top : reading[i] \in DOMAIN scans
    BY <1>1, ReadFacts, LenProperties DEF AssemblyInvariant, ReadingInv
  <2>2. Front(reading) = SubSeq(reading, 1, Top - 1)
    BY <2>1 DEF Front
  <2>3. /\ SubSeq(reading, 1, Top - 1) \in Seq(Nat) /\ Len(SubSeq(reading, 1, Top - 1)) = Top - 1
        /\ DOMAIN SubSeq(reading, 1, Top - 1) = 1..(Top - 1)
        /\ \A i \in 1..(Top - 1) : SubSeq(reading, 1, Top - 1)[i] = reading[i]
    BY <1>2, <2>1
  <2>4. ASSUME NEW i \in DOMAIN reading' PROVE reading'[i] \in DOMAIN scans'
    BY <1>1, <1>2, <2>1, <2>2, <2>3
  <2>5. reading' \in Seq(Nat) /\ Len(reading') = Len(stack')
    BY <1>1, <1>7, <2>2, <2>3
  <2>6. QED
    BY <2>4, <2>5 DEF ReadingInv, Top
<1>9. QED
  BY <1>1, <1>7, <1>8, UnreadStep

LEMMA StartScanStep ==
    ASSUME IInv, PartsInv, AssemblyInvariant, StartScan
    PROVE  AssemblyInvariant'
<1>1. /\ rows' = rows /\ position' = position /\ base' = base /\ parts' = parts
      /\ waiting' = waiting /\ built' = built
      /\ scans = <<>> /\ waiting = <<>> /\ rows = <<>> /\ position = 0 /\ base = 0
      /\ ~Running
      /\ \/ pc' = "visit" /\ stack' = <<Root>> /\ scans' = <<<<>>>> /\ reading' = <<1>>
         \/ pc' = "error" /\ stack' = stack /\ scans' = scans /\ reading' = reading
  BY DEF StartScan, Start, IInv, AssemblyInvariant, Running
<1>2. Tree(rows) /\ ScansAre(scans, rows) /\ built \in Seq(PartTypes)
  BY DEF AssemblyInvariant
<1>3. CASE pc' = "visit"
  <2>1. stack' = <<Root>> /\ scans' = <<<<>>>> /\ reading' = <<1>>
    BY <1>1, <1>3
  <2>2. scans' = Append(scans, <<>>)
    BY <1>1, <2>1
  <2>3. /\ ScansAre(scans', rows) /\ MoreItems(scans, scans')
        /\ Len(scans') = Len(scans) + 1 /\ Len(scans) \in Nat
    BY <1>2, <2>2, OpenScan, SameItems
  <2>4. ReadingInv'
    <3>1. DOMAIN scans' = {1} /\ DOMAIN reading' = {1} /\ reading'[1] = 1
      BY <2>1
    <3>2. reading' \in Seq(Nat) /\ Len(reading') = 1 /\ Len(stack') = 1
      BY <2>1
    <3>3. QED
      BY <3>1, <3>2 DEF ReadingInv, Top
  <2>5. RangesAre(scans', rows', waiting', base', position')
    BY <1>1, NoRanges
  <2>6. BuiltInv'
    <3>1. ASSUME NEW k \in 1..Len(parts)
          PROVE  FALSE
      <4>1. parts \in Seq(PartType) /\ k \in DOMAIN parts
        BY LenProperties DEF IInv, TypeOK
      <4>2. parts[k] \in PartType
        BY <4>1, ElementOfSeq
      <4>3. parts[k].first \in Nat /\ parts[k].end \in Nat
        BY <4>2 DEF PartType
      <4>4. parts[k].first < parts[k].end
        BY DEF IInv, TilesInv, PartsTile, Tiles
      <4>5. parts[k].end <= 0
        BY <1>1, <4>1 DEF PartsInv, EndsInv
      <4>6. QED
        BY <4>3, <4>4, <4>5
    <3>2. QED
      BY <1>1, <3>1 DEF BuiltInv, AssemblyInvariant
  <2>7. QED
    BY <1>1, <1>2, <1>3, <2>3, <2>4, <2>5, <2>6 DEF AssemblyInvariant
<1>4. CASE pc' = "error"
  BY <1>1, <1>4 DEF AssemblyInvariant, BuiltInv, ReadingInv, Running, Top
<1>5. QED
  BY <1>1, <1>3, <1>4

\* What is not about rows.
LEMMA PassingStep ==
    ASSUME IInv, AssemblyInvariant, Passing
    PROVE  AssemblyInvariant'
<1>1. /\ rows' = rows /\ position' = position /\ base' = base /\ parts' = parts /\ stack' = stack
      /\ scans' = scans /\ reading' = reading /\ waiting' = waiting /\ built' = built
      /\ pc' = "start" => pc = "start"
      /\ Running' => Running
  BY DEF Passing, Cancelled, FailedEntry, WithinBudget, Offered, Terminating, Visiting, Running,
         vars, rowVars
<1>2. QED
  BY <1>1 DEF AssemblyInvariant, BuiltInv, ReadingInv, Top

LEMMA StaySame ==
    ASSUME AssemblyInvariant, UNCHANGED <<vars, rowVars>>
    PROVE  AssemblyInvariant'
<1>1. /\ rows' = rows /\ position' = position /\ base' = base /\ parts' = parts /\ stack' = stack
      /\ scans' = scans /\ reading' = reading /\ waiting' = waiting /\ built' = built /\ pc' = pc
  BY DEF vars, rowVars
<1>2. QED
  BY <1>1 DEF AssemblyInvariant, BuiltInv, ReadingInv, Top, Running

LEMMA AssemblyStarts ==
    ASSUME AssemblyInit
    PROVE  AssemblyInvariant
<1>1. /\ pc = "start" /\ stack = <<>> /\ rows = <<>> /\ parts = <<>>
      /\ scans = <<>> /\ reading = <<>> /\ waiting = <<>> /\ built = <<>>
  BY DEF AssemblyInit, Init
<1>2. Tree(rows)
  BY <1>1 DEF Tree
<1>3. ScansAre(scans, rows)
  BY <1>1 DEF ScansAre
<1>4. ReadingInv
  BY <1>1 DEF ReadingInv, Top
<1>5. built \in Seq(PartTypes) /\ BuiltInv
  BY <1>1 DEF BuiltInv
<1>6. ~Running
  BY <1>1 DEF Running
<1>7. QED
  BY <1>1, <1>2, <1>3, <1>4, <1>5, <1>6 DEF AssemblyInvariant

LEMMA AssemblyInvariantStep ==
    ASSUME IInv, PartsInv, AssemblyInvariant, [AssemblyNext]_<<vars, rowVars>>
    PROVE  IInv' /\ PartsInv' /\ AssemblyInvariant'
<1>1. [Next]_vars
  BY AssemblyStep
<1>2. IInv' /\ PartsInv'
  BY <1>1, InvStep, PartsStep
<1>3. CASE StartScan
  BY <1>2, <1>3, StartScanStep
<1>4. ASSUME NEW bytes \in Sizes, LeafRow(bytes) PROVE AssemblyInvariant'
  BY <1>2, <1>4, LeafRowStep
<1>5. ASSUME NEW bytes \in Sizes, EnterRow(bytes) PROVE AssemblyInvariant'
  BY <1>2, <1>5, EnterRowStep
<1>6. CASE SkippedItem
  BY <1>2, <1>6, SkippedItemStep
<1>7. CASE ReadOn
  BY <1>2, <1>7, ReadOnStep
<1>8. CASE Cutting
  BY <1>2, <1>8, CuttingStep
<1>9. CASE Finishing
  BY <1>2, <1>9, FinishingStep
<1>10. CASE Passing
  BY <1>2, <1>10, PassingStep
<1>11. CASE UNCHANGED <<vars, rowVars>>
  BY <1>2, <1>11, StaySame
<1>12. QED
  BY <1>2, <1>3, <1>4, <1>5, <1>6, <1>7, <1>8, <1>9, <1>10, <1>11 DEF AssemblyNext

\* The invariant of the rows holds throughout the walk: of the tree, the scans, the
\* ranges that wait and the parts that are made of them.
THEOREM AssemblyKept == AssemblySpec => [](IInv /\ PartsInv /\ AssemblyInvariant)
<1>1. AssemblyInit => IInv /\ PartsInv /\ AssemblyInvariant
  BY InitStep, InitParts, AssemblyStarts DEF AssemblyInit
<1>2. /\ IInv /\ PartsInv /\ AssemblyInvariant
      /\ [AssemblyNext]_<<vars, rowVars>>
      => (IInv /\ PartsInv /\ AssemblyInvariant)'
  BY AssemblyInvariantStep
<1>3. QED
  BY <1>1, <1>2, PTL DEF AssemblySpec

-----------------------------------------------------------------------------
(* The waiting rows.                                                       *)

\* The ranges that wait are the rows that are in no part yet, whatever the scans
\* they come from: extend_waiting and drain lose and repeat none, in any tree.
THEOREM WaitingIsRight == AssemblySpec => []WaitingIsTheRows
<1>1. AssemblyInvariant => WaitingIsTheRows
  <2> SUFFICES ASSUME AssemblyInvariant, Running PROVE
          /\ Counts(waiting)[Len(waiting)] = position - base
          /\ \A k \in DOMAIN waiting : RowsFrom(waiting[k], base + Counts(waiting)[k - 1])
    BY DEF WaitingIsTheRows, Running
  <2>1. RangesAre(scans, rows, waiting, base, position)
    BY DEF AssemblyInvariant
  <2>2. QED
    BY <2>1 DEF RangesAre, RangeIs, RowsFrom
<1>2. QED
  BY <1>1, AssemblyKept, PTL
-----------------------------------------------------------------------------
(* The order of the paths.                                                 *)

LEMMA PrefixIs ==
    ASSUME NEW s \in Seq(Seq(Nat)), NEW t \in Seq(Seq(Nat))
    PROVE  IsPrefix(s, t) <=> Len(s) <= Len(t) /\ \A i \in 1..Len(s) : s[i] = t[i]
<1>1. SubSeq(s, 1, Len(s)) = s
  OBVIOUS
<1>2. ASSUME Len(s) <= Len(t)
      PROVE  /\ SubSeq(t, 1, Len(s)) \in Seq(Seq(Nat)) /\ Len(SubSeq(t, 1, Len(s))) = Len(s)
             /\ \A i \in 1..Len(s) : SubSeq(t, 1, Len(s))[i] = t[i]
  <2>1. Len(s) \in Nat /\ Len(t) \in Nat
    BY LenProperties
  <2>2. QED
    BY <1>2, <2>1
<1>3. ASSUME Len(s) <= Len(t), \A i \in 1..Len(s) : s[i] = t[i]
      PROVE  s = SubSeq(t, 1, Len(s))
  BY <1>2, <1>3, SeqEqual
<1>4. ASSUME Len(s) <= Len(t), s = SubSeq(t, 1, Len(s))
      PROVE  \A i \in 1..Len(s) : s[i] = t[i]
  BY <1>2, <1>4
<1>5. QED
  BY <1>1, <1>3, <1>4 DEF IsPrefix

\* Two paths part at their kth names.
PartAt(s, t, k) == (\A i \in 1..(k - 1) : s[i] = t[i]) /\ s[k][1] < t[k][1]

LEMMA WalkOrderIs ==
    ASSUME NEW s \in Seq(Seq(Nat)), NEW t \in Seq(Seq(Nat))
    PROVE  WalkOrder(s, t) <=>
               \/ IsPrefix(s, t) /\ s # t
               \/ \E k \in 1..Len(s) : k \in 1..Len(t) /\ PartAt(s, t, k)
<1>1. /\ DOMAIN s = 1..Len(s) /\ DOMAIN t = 1..Len(t)
      /\ Len(s) \in Nat /\ Len(t) \in Nat
  BY LenProperties
<1>2. ASSUME NEW k \in 1..Len(s), k \in 1..Len(t)
      PROVE  SubSeq(s, 1, k - 1) = SubSeq(t, 1, k - 1) <=> \A i \in 1..(k - 1) : s[i] = t[i]
  <2>1. k - 1 \in Nat /\ k - 1 <= Len(s) /\ k - 1 <= Len(t)
    BY <1>1, <1>2
  <2>2. /\ SubSeq(s, 1, k - 1) \in Seq(Seq(Nat)) /\ Len(SubSeq(s, 1, k - 1)) = k - 1
        /\ \A i \in 1..(k - 1) : SubSeq(s, 1, k - 1)[i] = s[i]
    BY <1>1, <2>1
  <2>3. /\ SubSeq(t, 1, k - 1) \in Seq(Seq(Nat)) /\ Len(SubSeq(t, 1, k - 1)) = k - 1
        /\ \A i \in 1..(k - 1) : SubSeq(t, 1, k - 1)[i] = t[i]
    BY <1>1, <1>2, <2>1
  <2>4. ASSUME SubSeq(s, 1, k - 1) = SubSeq(t, 1, k - 1) PROVE \A i \in 1..(k - 1) : s[i] = t[i]
    BY <2>2, <2>3, <2>4
  <2>5. ASSUME \A i \in 1..(k - 1) : s[i] = t[i] PROVE SubSeq(s, 1, k - 1) = SubSeq(t, 1, k - 1)
    <3>1. \A i \in 1..Len(SubSeq(s, 1, k - 1)) : SubSeq(s, 1, k - 1)[i] = SubSeq(t, 1, k - 1)[i]
      BY <2>2, <2>3, <2>5
    <3>2. QED
      BY <2>2, <2>3, <3>1, SeqEqual
  <2>6. QED
    BY <2>4, <2>5
<1>3. QED
  BY <1>1, <1>2 DEF WalkOrder, IsStrictPrefix, PartAt

LEMMA WalkOrderOneWay ==
    ASSUME NEW s \in Seq(Seq(Nat)), NEW t \in Seq(Seq(Nat)), WalkOrder(s, t),
           \A i \in 1..Len(s) : s[i][1] \in Nat, \A i \in 1..Len(t) : t[i][1] \in Nat
    PROVE  ~WalkOrder(t, s) /\ s # t
<1>1. Len(s) \in Nat /\ Len(t) \in Nat
  BY LenProperties
<1>3. ASSUME NEW k \in 1..Len(s), k \in 1..Len(t), PartAt(s, t, k), s[k] = t[k]
      PROVE  FALSE
  <2>1. s[k][1] < s[k][1] /\ s[k][1] \in Nat
    BY <1>3 DEF PartAt
  <2>2. QED
    BY <2>1
<1>4. ASSUME NEW k \in 1..Len(s), k \in 1..Len(t), PartAt(t, s, k), s[k] = t[k]
      PROVE  FALSE
  <2>1. s[k][1] < s[k][1] /\ s[k][1] \in Nat
    BY <1>4 DEF PartAt
  <2>2. QED
    BY <2>1
<1>5. CASE IsPrefix(s, t) /\ s # t
  <2>1. Len(s) <= Len(t) /\ \A i \in 1..Len(s) : s[i] = t[i]
    BY <1>5, PrefixIs
  <2>2. Len(s) < Len(t)
    BY <1>1, <1>5, <2>1, SeqEqual
  <2>3. ~IsPrefix(t, s)
    BY <1>1, <2>2, PrefixIs
  <2>4. ASSUME NEW k \in 1..Len(t), k \in 1..Len(s), PartAt(t, s, k) PROVE FALSE
    BY <1>4, <2>1, <2>4
  <2>5. QED
    BY <1>5, <2>3, <2>4, WalkOrderIs
<1>6. CASE \E k \in 1..Len(s) : k \in 1..Len(t) /\ PartAt(s, t, k)
  <2>1. PICK k \in 1..Len(s) : k \in 1..Len(t) /\ PartAt(s, t, k)
    BY <1>6
  <2>2. s[k] # t[k]
    BY <1>3, <2>1
  <2>3. ~IsPrefix(t, s)
    BY <2>1, <2>2, PrefixIs
  <2>4. ASSUME NEW l \in 1..Len(t), l \in 1..Len(s), PartAt(t, s, l) PROVE FALSE
    <3>1. s[l] # t[l]
      BY <1>4, <2>4
    <3>2. CASE k < l
      <4>1. k \in 1..(l - 1)
        BY <3>2
      <4>2. QED
        BY <2>2, <2>4, <4>1 DEF PartAt
    <3>3. CASE l < k
      <4>1. l \in 1..(k - 1)
        BY <3>3
      <4>2. QED
        BY <2>1, <3>1, <4>1 DEF PartAt
    <3>4. CASE k = l
      <4>1. s[k][1] < t[k][1] /\ t[k][1] < s[k][1] /\ s[k][1] \in Nat /\ t[k][1] \in Nat
        BY <2>1, <2>4, <3>4 DEF PartAt
      <4> DEFINE x == s[k][1]
                 y == t[k][1]
      <4>2. x < y /\ y < x /\ x \in Nat /\ y \in Nat
        BY <4>1
      <4> HIDE DEF x, y
      <4>3. QED
        BY <4>2
    <3>5. QED
      BY <3>2, <3>3, <3>4
  <2>5. QED
    BY <2>2, <2>3, <2>4, WalkOrderIs
<1>7. QED
  BY <1>5, <1>6, WalkOrderIs

\* The row that is named at depth d of the path of the row at p.
OnPath(rs, p, d) == IF d = rs[p + 1].depth THEN p ELSE AncestorIn(rs, p, d)

LEMMA OnPathFacts ==
    ASSUME NEW rs, Tree(rs), NEW p \in 0..(Len(rs) - 1), NEW d \in 0..rs[p + 1].depth
    PROVE  /\ PathOf(rs, p)[d + 1] = <<OnPath(rs, p, d)>>
           /\ OnPath(rs, p, d) \in 0..p
           /\ d < rs[p + 1].depth => IsAncestor(rs, p, d, OnPath(rs, p, d))
<1>1. rs[p + 1].depth \in Nat /\ d \in Nat
  BY TreeRow
<1>2. CASE d = rs[p + 1].depth
  <2>1. PathOf(rs, p)[rs[p + 1].depth + 1] = <<p>>
    BY PathFacts
  <2>2. QED
    BY <1>1, <1>2, <2>1 DEF OnPath
<1>3. CASE d # rs[p + 1].depth
  <2>1. d \in 0..(rs[p + 1].depth - 1) /\ d + 1 \in 1..rs[p + 1].depth /\ (d + 1) - 1 = d
    BY <1>1, <1>3
  <2>2. PathOf(rs, p)[d + 1] = <<AncestorIn(rs, p, (d + 1) - 1)>>
    BY <2>1, PathFacts
  <2>3. IsAncestor(rs, p, d, AncestorIn(rs, p, d)) /\ AncestorIn(rs, p, d) \in 0..(p - 1)
    BY <2>1, AncestorFacts
  <2>4. AncestorIn(rs, p, d) \in 0..p
    BY <2>3
  <2>5. QED
    BY <1>3, <2>1, <2>2, <2>3, <2>4 DEF OnPath
<1>4. QED
  BY <1>2, <1>3

\* The row at q is below the directory at p, or the same.
Inside(rs, p, q) ==
    /\ p <= q
    /\ \A r \in (p + 1)..q : rs[r + 1].depth > rs[p + 1].depth

\* The paths of a row and a later one have the same names as far as all rows after
\* the first are deeper.
LEMMA SameNames ==
    ASSUME NEW rs, Tree(rs), NEW p \in 0..(Len(rs) - 1), NEW q \in (p + 1)..(Len(rs) - 1),
           NEW d \in 0..rs[p + 1].depth, \A r \in (p + 1)..q : rs[r + 1].depth > d
    PROVE  /\ d < rs[q + 1].depth
           /\ OnPath(rs, q, d) = OnPath(rs, p, d)
           /\ PathOf(rs, q)[d + 1] = PathOf(rs, p)[d + 1]
<1>1. q \in 0..(Len(rs) - 1) /\ q \in (p + 1)..q /\ Len(rs) \in Nat
  BY TreeLength
<1>2. rs[p + 1].depth \in Nat /\ rs[q + 1].depth \in Nat
  BY <1>1, TreeRow
<1>3. d < rs[q + 1].depth
  BY <1>1, <1>2
<1>4. d \in 0..rs[q + 1].depth /\ d # rs[q + 1].depth
  BY <1>2, <1>3
<1>5. AncestorIn(rs, q, d) = IF d = rs[p + 1].depth THEN p ELSE AncestorIn(rs, p, d)
  BY AncestorAlong
<1>6. OnPath(rs, q, d) = OnPath(rs, p, d)
  BY <1>4, <1>5 DEF OnPath
<1>7. PathOf(rs, q)[d + 1] = <<OnPath(rs, q, d)>> /\ PathOf(rs, p)[d + 1] = <<OnPath(rs, p, d)>>
  BY <1>1, <1>4, OnPathFacts
<1>8. QED
  BY <1>3, <1>6, <1>7

LEMMA InsideIsPrefix ==
    ASSUME NEW rs, Tree(rs), NEW p \in 0..(Len(rs) - 1), NEW q \in 0..(Len(rs) - 1)
    PROVE  IsPrefix(PathOf(rs, p), PathOf(rs, q)) <=> Inside(rs, p, q)
<1> DEFINE P == PathOf(rs, p)
           Q == PathOf(rs, q)
           D == rs[p + 1].depth
           E == rs[q + 1].depth
<1>1. /\ P \in Seq(Seq(Nat)) /\ Len(P) = D + 1
      /\ Q \in Seq(Seq(Nat)) /\ Len(Q) = E + 1
  BY PathFacts
<1>2. D \in Nat /\ E \in Nat /\ Len(rs) \in Nat /\ p \in Nat /\ q \in Nat
  BY TreeRow
<1> HIDE DEF P, Q, D, E
<1>3. IsPrefix(P, Q) <=> Len(P) <= Len(Q) /\ \A i \in 1..Len(P) : P[i] = Q[i]
  BY <1>1, PrefixIs
<1>4. ASSUME Inside(rs, p, q) PROVE IsPrefix(P, Q)
  <2>1. CASE p = q
    BY <1>1, <1>2, <1>3, <2>1 DEF P, Q, D, E
  <2>2. CASE p # q
    <3>1. q \in (p + 1)..(Len(rs) - 1) /\ q \in (p + 1)..q
      BY <1>2, <1>4, <2>2 DEF Inside
    <3>2. \A r \in (p + 1)..q : rs[r + 1].depth > D
      BY <1>4 DEF Inside, D
    <3>3. Len(P) <= Len(Q)
      <4>1. E > D
        BY <3>1, <3>2 DEF E
      <4>2. QED
        BY <1>1, <1>2, <4>1
    <3>4. ASSUME NEW i \in 1..Len(P) PROVE P[i] = Q[i]
      <4>1. i - 1 \in 0..D /\ (i - 1) + 1 = i
        BY <1>1, <1>2
      <4>2. \A r \in (p + 1)..q : rs[r + 1].depth > i - 1
        <5>1. ASSUME NEW r \in (p + 1)..q PROVE rs[r + 1].depth > i - 1
          <6>1. r \in 0..(Len(rs) - 1)
            BY <1>2
          <6>2. rs[r + 1].depth \in Nat
            BY <6>1, TreeRow
          <6>3. rs[r + 1].depth > D
            BY <3>2
          <6>4. QED
            BY <1>2, <4>1, <6>2, <6>3
        <5>2. QED
          BY <5>1
      <4>3. PathOf(rs, q)[(i - 1) + 1] = PathOf(rs, p)[(i - 1) + 1]
        BY <3>1, <4>1, <4>2, SameNames DEF D
      <4>4. QED
        BY <4>1, <4>3 DEF P, Q
    <3>5. QED
      BY <1>3, <3>3, <3>4
  <2>3. QED
    BY <2>1, <2>2
<1>5. ASSUME IsPrefix(P, Q) PROVE Inside(rs, p, q)
  <2>1. D <= E /\ P[D + 1] = Q[D + 1]
    BY <1>1, <1>2, <1>3, <1>5
  <2>2. D \in 0..E
    BY <1>2, <2>1
  <2>3. Q[D + 1] = <<OnPath(rs, q, D)>> /\ (D < E => IsAncestor(rs, q, D, OnPath(rs, q, D)))
    BY <2>2, OnPathFacts DEF Q, E
  <2>4. P[D + 1] = <<p>>
    BY PathFacts DEF P, D
  <2>5. OnPath(rs, q, D) = p
    BY <2>1, <2>3, <2>4
  <2>6. CASE D = E
    <3>1. p = q
      BY <2>5, <2>6 DEF OnPath, E
    <3>2. QED
      BY <1>2, <3>1 DEF Inside
  <2>7. CASE D < E
    <3>1. /\ p \in 0..(q - 1)
          /\ \A r \in (p + 1)..(q - 1) : rs[r + 1].depth > D
      BY <2>3, <2>5, <2>7 DEF IsAncestor
    <3>2. \A r \in (p + 1)..q : r \in (p + 1)..(q - 1) \/ r = q
      BY <1>2
    <3>3. \A r \in (p + 1)..q : rs[r + 1].depth > D
      BY <1>2, <2>7, <3>1, <3>2 DEF E
    <3>4. QED
      BY <1>2, <3>1, <3>3 DEF Inside, D
  <2>8. QED
    BY <1>2, <2>1, <2>6, <2>7
<1>6. QED
  BY <1>4, <1>5 DEF P, Q

\* Walk order is the order of the positions.
LEMMA LaterIsAfter ==
    ASSUME NEW rs, Tree(rs), NEW p \in 0..(Len(rs) - 1), NEW q \in (p + 1)..(Len(rs) - 1)
    PROVE  WalkOrder(PathOf(rs, p), PathOf(rs, q))
<1> DEFINE P == PathOf(rs, p)
           Q == PathOf(rs, q)
           D == rs[p + 1].depth
           E == rs[q + 1].depth
<1>0. Len(rs) \in Nat /\ p \in Nat /\ q \in Nat /\ q \in 0..(Len(rs) - 1) /\ q \in (p + 1)..q
  BY TreeLength
<1>1. /\ P \in Seq(Seq(Nat)) /\ Len(P) = D + 1
      /\ Q \in Seq(Seq(Nat)) /\ Len(Q) = E + 1
  BY <1>0, PathFacts
<1>2. D \in Nat /\ E \in Nat
  BY <1>0, TreeRow
<1>3. ASSUME NEW r \in (p + 1)..q PROVE rs[r + 1].depth \in Nat
  <2>1. r \in 0..(Len(rs) - 1)
    BY <1>0
  <2>2. QED
    BY <2>1, TreeRow
<1>4. CASE \A r \in (p + 1)..q : rs[r + 1].depth > D
  <2>1. Inside(rs, p, q)
    BY <1>0, <1>4 DEF Inside
  <2>2. IsPrefix(P, Q)
    BY <1>0, <2>1, InsideIsPrefix
  <2>3. E > D
    BY <1>0, <1>4
  <2>4. P # Q
    BY <1>1, <1>2, <2>3, SMTT(30)
  <2>5. QED
    BY <1>1, <2>2, <2>4, WalkOrderIs
<1>5. CASE ~(\A r \in (p + 1)..q : rs[r + 1].depth > D)
  <2> DEFINE S == {k \in 0..D : \A r \in (p + 1)..q : rs[r + 1].depth > k}
  <2>1. \E m \in 0..D : m \notin S /\ \A i \in 0..(m - 1) : i \in S
    <3>1. D \notin S
      BY <1>5
    <3>2. CASE 0 \notin S
      <4>1. 0 \in 0..D /\ \A i \in 0..(0 - 1) : i \in S
        BY <1>2
      <4> HIDE DEF S
      <4>2. QED
        BY <3>2, <4>1
    <3>3. CASE 0 \in S
      <4>1. ~(\A k \in 0..(D - 1) : k \in S => k + 1 \in S)
        <5> SUFFICES ASSUME \A k \in 0..(D - 1) : k \in S => k + 1 \in S PROVE FALSE
          OBVIOUS
        <5> HIDE DEF S
        <5>1. \A k \in 0..D : k \in S
          BY <1>2, <3>3, InductionUpTo
        <5>2. QED
          BY <1>2, <3>1, <5>1
      <4>2. PICK k \in 0..(D - 1) : k \in S /\ k + 1 \notin S
        BY <4>1
      <4>3. k + 1 \in 0..D
        BY <1>2
      <4>4. ASSUME NEW i \in 0..((k + 1) - 1) PROVE i \in S
        <5>1. ASSUME NEW r \in (p + 1)..q PROVE rs[r + 1].depth > i
          <6>1. rs[r + 1].depth > k /\ rs[r + 1].depth \in Nat
            BY <1>3, <4>2
          <6>2. QED
            BY <6>1
        <5>2. i \in 0..D
          BY <1>2
        <5>3. QED
          BY <5>1, <5>2
      <4>5. QED
        BY <4>2, <4>3, <4>4
    <3>4. QED
      BY <3>2, <3>3
  <2>2. PICK m \in 0..D : m \notin S /\ \A i \in 0..(m - 1) : i \in S
    BY <2>1
  <2>3. PICK r \in (p + 1)..q : rs[r + 1].depth <= m
    <3>1. PICK r \in (p + 1)..q : ~(rs[r + 1].depth > m)
      BY <2>2
    <3>2. QED
      BY <1>2, <1>3, <3>1
  <2>4. ASSUME NEW i \in 0..(m - 1) PROVE i \in 0..D /\ \A n \in (p + 1)..q : rs[n + 1].depth > i
    BY <2>2
  <2> HIDE DEF S
  <2>5. \A n \in (p + 1)..q : rs[n + 1].depth >= m
    <3>1. ASSUME NEW n \in (p + 1)..q PROVE rs[n + 1].depth >= m
      <4>1. CASE m = 0
        BY <1>3, <4>1
      <4>2. CASE m # 0
        <5>1. m - 1 \in 0..(m - 1)
          BY <1>2, <4>2
        <5>2. rs[n + 1].depth > m - 1
          BY <2>4, <5>1
        <5>3. QED
          BY <1>2, <1>3, <5>2
      <4>3. QED
        BY <4>1, <4>2
    <3>2. QED
      BY <3>1
  <2>6. m \in 0..E /\ m \in Nat /\ rs[r + 1].depth = m /\ r \in Nat
    BY <1>0, <1>2, <1>3, <2>3, <2>5
  <2> DEFINE a == OnPath(rs, p, m)
             b == OnPath(rs, q, m)
  <2>7. /\ P[m + 1] = <<a>> /\ a \in 0..p
        /\ Q[m + 1] = <<b>> /\ b \in 0..q
        /\ m < E => IsAncestor(rs, q, m, b)
    BY <1>0, <2>6, OnPathFacts
  <2>8. a < b
    <3>1. CASE m = E
      <4>1. b = q
        BY <3>1 DEF OnPath
      <4>2. QED
        BY <1>0, <2>7, <4>1
    <3>2. CASE m < E
      <4>1. \A n \in (b + 1)..(q - 1) : rs[n + 1].depth > m
        BY <2>7, <3>2 DEF IsAncestor
      <4>2. r # q
        BY <2>6, <3>2
      <4>3. ~(r \in (b + 1)..(q - 1))
        BY <2>6, <4>1
      <4>4. QED
        BY <1>0, <2>6, <2>7, <4>2, <4>3
    <3>3. QED
      BY <1>2, <2>6, <3>1, <3>2
  <2>9. ASSUME NEW i \in 1..m PROVE P[i] = Q[i]
    <3>1. i - 1 \in 0..(m - 1) /\ (i - 1) + 1 = i
      BY <2>6
    <3>2. i - 1 \in 0..D /\ \A n \in (p + 1)..q : rs[n + 1].depth > i - 1
      BY <2>4, <3>1
    <3>3. PathOf(rs, q)[(i - 1) + 1] = PathOf(rs, p)[(i - 1) + 1]
      BY <3>2, SameNames
    <3>4. QED
      BY <3>1, <3>3
  <2>10. P[m + 1][1] < Q[m + 1][1]
    BY <2>7, <2>8
  <2>11. PartAt(P, Q, m + 1)
    <3>1. (m + 1) - 1 = m
      BY <2>6
    <3>2. QED
      BY <2>9, <2>10, <3>1 DEF PartAt
  <2>12. m + 1 \in 1..Len(P) /\ m + 1 \in 1..Len(Q)
    <3>1. Len(P) = D + 1 /\ Len(Q) = E + 1
      BY <1>1
    <3> HIDE DEF P, Q, D, E
    <3>2. QED
      BY <1>2, <2>6, <3>1
  <2>13. QED
    BY <1>1, <2>11, <2>12, WalkOrderIs
<1>6. QED
  BY <1>4, <1>5

LEMMA WalkOrderIsPositions ==
    ASSUME NEW rs, Tree(rs), NEW p \in 0..(Len(rs) - 1), NEW q \in 0..(Len(rs) - 1)
    PROVE  /\ WalkOrder(PathOf(rs, p), PathOf(rs, q)) <=> p < q
           /\ PathOf(rs, p) = PathOf(rs, q) <=> p = q
<1>1. /\ PathOf(rs, p) \in Seq(Seq(Nat)) /\ PathOf(rs, q) \in Seq(Seq(Nat))
      /\ Len(rs) \in Nat
  BY PathFacts, TreeLength
<1>a. ASSUME NEW n \in 0..(Len(rs) - 1)
      PROVE  \A i \in 1..Len(PathOf(rs, n)) : PathOf(rs, n)[i][1] \in Nat
  <2> DEFINE D == rs[n + 1].depth
  <2>1. Len(PathOf(rs, n)) = D + 1 /\ D \in Nat
    BY PathFacts, TreeRow
  <2>2. ASSUME NEW i \in 1..(D + 1) PROVE PathOf(rs, n)[i][1] \in Nat
    <3>1. i - 1 \in 0..D /\ (i - 1) + 1 = i
      BY <2>1
    <3>2. PathOf(rs, n)[i] = <<OnPath(rs, n, i - 1)>> /\ OnPath(rs, n, i - 1) \in 0..n
      BY <3>1, OnPathFacts
    <3>3. QED
      BY <3>2
  <2>3. QED
    BY <2>1, <2>2
<1>2. CASE p < q
  <2>1. q \in (p + 1)..(Len(rs) - 1)
    BY <1>1, <1>2
  <2>2. WalkOrder(PathOf(rs, p), PathOf(rs, q))
    BY <2>1, LaterIsAfter
  <2>3. QED
    BY <1>1, <1>2, <1>a, <2>2, WalkOrderOneWay
<1>3. CASE q < p
  <2>1. p \in (q + 1)..(Len(rs) - 1)
    BY <1>1, <1>3
  <2>2. WalkOrder(PathOf(rs, q), PathOf(rs, p))
    BY <2>1, LaterIsAfter
  <2>3. ~(p < q) /\ p # q
    BY <1>3
  <2>4. QED
    BY <1>1, <1>a, <2>2, <2>3, WalkOrderOneWay
<1>4. CASE p = q
  BY <1>1, <1>4, <1>a, WalkOrderOneWay, SMTT(30)
<1>5. QED
  BY <1>2, <1>3, <1>4

-----------------------------------------------------------------------------
(* Reading a part: its nodes.                                              *)

\* A part of rows that there are.
PartOf(found, rs, part, first, end) ==
    /\ Tree(rs)
    /\ ScansAre(found, rs)
    /\ first \in Nat /\ end \in Nat
    /\ first < end /\ end <= Len(rs)
    /\ PartIs(found, rs, part, first, end)

LEMMA PartOfFacts ==
    ASSUME NEW found, NEW rs, NEW part, NEW first, NEW end, PartOf(found, rs, part, first, end)
    PROVE  /\ Len(rs) \in Nat /\ first \in Nat /\ end \in Nat /\ first < end
           /\ first \in 0..(Len(rs) - 1)
           /\ \A p \in first..(end - 1) : p \in 0..(Len(rs) - 1) /\ p \in Nat
           /\ part \in PartTypes
           /\ part.stem = FrontOf(rs, first) /\ part.stem \in Seq(Seq(Nat))
           /\ Len(part.stem) \in Nat /\ Len(part.directories) \in Nat
           /\ part.directories \in Seq(TableRowType) /\ part.files \in Seq(TableRowType)
           /\ part.symlinks \in Seq(TableRowType)
<1>1. /\ Tree(rs) /\ first \in Nat /\ end \in Nat /\ first < end /\ end <= Len(rs)
      /\ part \in PartTypes /\ part.stem = FrontOf(rs, first)
  BY DEF PartOf, PartIs
<1>2. Len(rs) \in Nat
  BY <1>1, TreeLength
<1>3. first \in 0..(Len(rs) - 1) /\ \A p \in first..(end - 1) : p \in 0..(Len(rs) - 1) /\ p \in Nat
  BY <1>1, <1>2
<1>4. QED
  BY <1>1, <1>2, <1>3, PartFields

\* Node n is an entry of an earlier one, and its path goes on from there.
GoesOnFrom(rs, part, n) ==
    LET node == Node(part, n)
    IN  /\ node.parent \in Nodes(part)
        /\ node.parent < n
        /\ Leads(rs, part, n) = Append(Leads(rs, part, node.parent), node.name)

LEMMA NodeGoesOn ==
    ASSUME NEW found, NEW rs, NEW part, NEW first, NEW end, PartOf(found, rs, part, first, end),
           NEW n \in Nodes(part), n # 0
    PROVE  GoesOnFrom(rs, part, n)
<1> DEFINE a == Len(part.stem)
           b == Len(part.directories)
<1>1. /\ a \in Nat /\ b \in Nat /\ Nodes(part) = 0..(a + b)
      /\ part.stem \in Seq(Seq(Nat)) /\ part.directories \in Seq(TableRowType)
  BY PartOfFacts DEF Nodes
<1>2. CASE n <= a
  <2>1. n \in 1..a /\ n - 1 \in 0..a /\ n - 1 \in 0..(a + b) /\ n - 1 < n
    <3> HIDE DEF a, b
    <3>1. QED
      BY <1>1, <1>2
  <2>2. Node(part, n) = [parent |-> n - 1, name |-> part.stem[n]]
    BY <1>2 DEF Node
  <2>3. Leads(rs, part, n) = SubSeq(part.stem, 1, n) /\ Leads(rs, part, n - 1) = SubSeq(part.stem, 1, n - 1)
    <3>1. n - 1 <= a
      <4> HIDE DEF a, b
      <4>1. QED
        BY <1>1, <1>2
    <3>2. Leads(rs, part, n) = SubSeq(part.stem, 1, n)
      BY <1>2, ZenonT(30) DEF Leads
    <3>3. Leads(rs, part, n - 1) = SubSeq(part.stem, 1, n - 1)
      BY <3>1, ZenonT(30) DEF Leads
    <3>4. QED
      BY <3>2, <3>3
  <2>4. SubSeq(part.stem, 1, n) = Append(SubSeq(part.stem, 1, n - 1), part.stem[n])
    <3> DEFINE s == part.stem
    <3>1. s \in Seq(Seq(Nat)) /\ n \in 1..Len(s)
      BY <1>1, <2>1
    <3> HIDE DEF s
    <3>2. SubSeq(s, 1, n) = Append(SubSeq(s, 1, n - 1), s[n])
      BY <3>1
    <3>3. QED
      BY <3>2 DEF s
  <2>5. Node(part, n).parent = n - 1 /\ Node(part, n).name = part.stem[n]
    BY <2>2
  <2>6. n - 1 \in Nodes(part)
    BY <1>1, <2>1
  <2>7. Leads(rs, part, n) = Append(Leads(rs, part, Node(part, n).parent), Node(part, n).name)
    BY <2>3, <2>4, <2>5
  <2> HIDE DEF a, b
  <2>8. QED
    BY <2>1, <2>5, <2>6, <2>7 DEF GoesOnFrom
<1>3. CASE ~(n <= a)
  <2> DEFINE k == n - a
             row == part.directories[k]
  <2>1. k \in 1..b /\ a + k = n
    <3> HIDE DEF a, b
    <3>1. QED
      BY <1>1, <1>3
  <2>2. k \in DOMAIN part.directories
    BY <1>1, <2>1, LenProperties
  <2>3. Node(part, n) = row /\ Leads(rs, part, n) = PathOf(rs, row.name[1])
    BY <1>3 DEF Node, Leads
  <2> HIDE DEF k
  <2>4. /\ row.parent \in Nodes(part)
        /\ \E p \in first..(end - 1) : row.name = <<p>> /\ Leads(rs, part, row.parent) = FrontOf(rs, p)
    BY <2>2 DEF PartOf, PartIs, TableIs
  <2>5. row.parent < a + k
    BY <2>2 DEF PartOf, PartIs
  <2>6. PICK p \in first..(end - 1) : row.name = <<p>> /\ Leads(rs, part, row.parent) = FrontOf(rs, p)
    BY <2>4
  <2>7. row.name[1] = p
    BY <2>6
  <2>8. Leads(rs, part, n) = Append(Leads(rs, part, row.parent), row.name)
    BY <2>3, <2>6, <2>7 DEF PathOf
  <2> HIDE DEF row, a
  <2>9. row.parent < n
    BY <2>1, <2>5
  <2>10. QED
    BY <2>3, <2>4, <2>8, <2>9 DEF GoesOnFrom
<1>4. QED
  BY <1>2, <1>3

\* One value of NodePaths.
NodePath(part, t, n) == IF n = 0 THEN <<>> ELSE Append(t[Node(part, n).parent], Node(part, n).name)

\* The paths of the nodes are those that the part was made with.
LEMMA NodePathsAre ==
    ASSUME NEW found, NEW rs, NEW part, NEW first, NEW end, PartOf(found, rs, part, first, end),
           NEW m \in Nodes(part)
    PROVE  NodePaths(part)[m] = Leads(rs, part, m)
<1> DEFINE N == Len(part.stem) + Len(part.directories)
           Is(t) == t = [n \in 0..(Len(part.stem) + Len(part.directories)) |->
                            IF n = 0 THEN <<>>
                            ELSE Append(t[Node(part, n).parent], Node(part, n).name)]
           above == CHOOSE t : Is(t)
           leads == [n \in 0..N |-> Leads(rs, part, n)]
<1>1. N \in Nat /\ Nodes(part) = 0..N
  <2>1. Len(part.stem) \in Nat /\ Len(part.directories) \in Nat
    BY PartOfFacts
  <2> DEFINE a == Len(part.stem)
             b == Len(part.directories)
  <2>2. Nodes(part) = 0..N
    BY DEF Nodes
  <2>3. a \in Nat /\ b \in Nat
    BY <2>1
  <2> HIDE DEF a, b
  <2>4. a + b \in Nat
    BY <2>3
  <2>5. QED
    BY <2>2, <2>4 DEF a, b
<1>2. ASSUME NEW n \in 0..N PROVE leads[n] = NodePath(part, leads, n)
  <2>1. CASE n = 0
    <3>1. 0 <= Len(part.stem)
      BY PartOfFacts
    <3>2. Leads(rs, part, 0) = <<>>
      BY <3>1, PartOfFacts DEF Leads
    <3>3. QED
      BY <2>1, <3>2 DEF NodePath
  <2>2. CASE n # 0
    <3>1. GoesOnFrom(rs, part, n)
      BY <1>1, <2>2, NodeGoesOn
    <3>2. Node(part, n).parent \in 0..N
      BY <1>1, <3>1 DEF GoesOnFrom
    <3> HIDE DEF N
    <3>3. leads[Node(part, n).parent] = Leads(rs, part, Node(part, n).parent)
      BY <3>2
    <3>4. QED
      BY <2>2, <3>1, <3>3 DEF GoesOnFrom, NodePath
  <2>3. QED
    BY <2>1, <2>2
<1>3. Is(leads)
  <2>1. leads = [n \in 0..N |-> leads[n]]
    OBVIOUS
  <2>2. ASSUME NEW n \in 0..N PROVE leads[n] = IF n = 0 THEN <<>>
                                              ELSE Append(leads[Node(part, n).parent], Node(part, n).name)
    BY <1>2, ZenonT(30) DEF NodePath
  <2> HIDE DEF leads
  <2>3. QED
    BY <2>1, <2>2
<1>4. Is(above)
  BY <1>3, ZenonT(30)
<1>5. NodePaths(part) = above
  BY DEF NodePaths
<1>6. \A n \in 0..N : above[n] = NodePath(part, above, n)
  <2> HIDE DEF above
  <2>1. QED
    BY <1>4 DEF NodePath
<1> HIDE DEF above, Is, N, leads
<1> DEFINE S == {k \in 0..N : \A n \in 0..k : above[n] = leads[n]}
<1>7. 0 \in S
  <2>1. above[0] = leads[0]
    BY <1>1, <1>2, <1>6 DEF NodePath
  <2>2. QED
    BY <1>1, <2>1
<1>8. ASSUME NEW k \in 0..(N - 1), k \in S PROVE k + 1 \in S
  <2>1. k + 1 \in 0..N /\ k + 1 # 0
    BY <1>1
  <2>2. GoesOnFrom(rs, part, k + 1)
    BY <1>1, <2>1, NodeGoesOn
  <2>3. Node(part, k + 1).parent \in 0..k
    <3> DEFINE a == Node(part, k + 1).parent
    <3>1. a \in 0..N /\ a < k + 1
      BY <1>1, <2>2 DEF GoesOnFrom
    <3> HIDE DEF a
    <3>2. a \in 0..k
      BY <1>1, <3>1
    <3>3. QED
      BY <3>2 DEF a
  <2>4. above[Node(part, k + 1).parent] = leads[Node(part, k + 1).parent]
    BY <1>8, <2>3
  <2>5. above[k + 1] = leads[k + 1]
    BY <1>2, <1>6, <2>1, <2>4 DEF NodePath
  <2>6. \A n \in 0..(k + 1) : n \in 0..k \/ n = k + 1
    BY <1>1
  <2>7. QED
    BY <1>8, <2>1, <2>5, <2>6
<1>9. \A k \in 0..N : k \in S
  <2> HIDE DEF S
  <2>1. QED
    BY <1>1, <1>7, <1>8, InductionUpTo
<1>10. above[m] = leads[m]
  <2>1. m \in 0..N /\ m \in 0..m
    BY <1>1
  <2>2. m \in S
    BY <1>9, <2>1
  <2>3. QED
    BY <2>1, <2>2
<1>11. leads[m] = Leads(rs, part, m)
  BY <1>1 DEF leads
<1>12. QED
  BY <1>5, <1>10, <1>11

-----------------------------------------------------------------------------
(* Reading a part: its entries.                                            *)

\* The kind of the row at p.
KindOf(found, p) ==
    CHOOSE kind \in {"file", "symlink", "directory"} :
        \E k \in DOMAIN found : Contains(found[k], Item(kind, p))

LEMMA KindIs ==
    ASSUME NEW found, NEW rs, ScansAre(found, rs), NEW kind \in Kinds, NEW p, Named(found, kind, p)
    PROVE  /\ KindOf(found, p) = kind
           /\ \A other \in Kinds : Named(found, other, p) => other = kind
<1>1. found \in Seq(Seq(ItemType))
  BY DEF ScansAre
<1>2. ASSUME NEW s \in DOMAIN found PROVE DOMAIN found[s] = 1..Len(found[s])
  BY <1>1, ElementOfSeq, LenProperties
<1>3. ASSUME NEW other, \E k \in DOMAIN found : Contains(found[k], Item(other, p))
      PROVE  Named(found, other, p)
  BY <1>2, <1>3 DEF Named, Contains
<1>4. ASSUME NEW other, Named(found, other, p)
      PROVE  \E k \in DOMAIN found : Contains(found[k], Item(other, p))
  BY <1>2, <1>4 DEF Named, Contains
<1>5. ASSUME NEW other \in Kinds, Named(found, other, p) PROVE other = kind
  <2>1. PICK s \in DOMAIN found : \E n \in DOMAIN found[s] : found[s][n] = Item(kind, p)
    BY DEF Named
  <2>2. PICK n \in DOMAIN found[s] : found[s][n] = Item(kind, p)
    BY <2>1
  <2>3. PICK t \in DOMAIN found : \E m \in DOMAIN found[t] : found[t][m] = Item(other, p)
    BY <1>5 DEF Named
  <2>4. PICK m \in DOMAIN found[t] : found[t][m] = Item(other, p)
    BY <2>3
  <2>5. /\ found[s][n].name = p /\ found[s][n].kind = kind
        /\ found[t][m].name = p /\ found[t][m].kind = other
    BY <2>2, <2>4 DEF Item
  <2>6. IsRow(found[s][n]) /\ IsRow(found[t][m])
    BY <2>5 DEF IsRow, Kinds
  <2>7. s = t /\ n = m
    BY <2>5, <2>6 DEF ScansAre
  <2>8. QED
    BY <2>5, <2>7
<1>6. KindOf(found, p) = kind
  <2> DEFINE is(other) == \E k \in DOMAIN found : Contains(found[k], Item(other, p))
             c == CHOOSE other \in {"file", "symlink", "directory"} : is(other)
  <2>1. kind \in {"file", "symlink", "directory"} /\ is(kind)
    BY <1>4 DEF Kinds
  <2>2. c \in {"file", "symlink", "directory"} /\ is(c)
    BY <2>1
  <2>3. c \in Kinds /\ Named(found, c, p)
    BY <1>3, <2>2 DEF Kinds
  <2>4. c = KindOf(found, p)
    BY DEF KindOf
  <2> HIDE DEF c
  <2>5. QED
    BY <1>5, <2>3, <2>4
<1>7. QED
  BY <1>5, <1>6

\* The entry of the row at p.
EntryOf(found, rs, p) == [path |-> PathOf(rs, p), kind |-> KindOf(found, p)]

\* Entries of the rows of a table, in order.
OfTable(part, table, kind) ==
    [k \in DOMAIN table |-> [path |-> Path(part, table[k]), kind |-> kind]]

\* A place in a table has its row's entry.
RowAt(found, rs, part, table, kind, first, end, k) ==
    /\ table[k].name[1] \in first..(end - 1)
    /\ Named(found, kind, table[k].name[1])
    /\ OfTable(part, table, kind)[k] = EntryOf(found, rs, table[k].name[1])

LEMMA TableEntries ==
    ASSUME NEW found, NEW rs, NEW part, NEW first, NEW end, PartOf(found, rs, part, first, end),
           NEW table, NEW kind \in Kinds, TableIs(found, rs, part, table, kind, first, end),
           NEW k \in DOMAIN table
    PROVE  RowAt(found, rs, part, table, kind, first, end, k)
<1>1. PICK p \in first..(end - 1) :
          /\ table[k].name = <<p>>
          /\ Named(found, kind, p)
          /\ table[k].parent \in Nodes(part)
          /\ Leads(rs, part, table[k].parent) = FrontOf(rs, p)
  BY DEF TableIs
<1>2. table[k].name[1] = p
  BY <1>1
<1>3. NodePaths(part)[table[k].parent] = FrontOf(rs, p)
  BY <1>1, NodePathsAre
<1>4. Path(part, table[k]) = PathOf(rs, p)
  BY <1>1, <1>3 DEF Path, PathOf
<1>5. kind = KindOf(found, p)
  BY <1>1, KindIs DEF PartOf
<1>6. OfTable(part, table, kind)[k] = EntryOf(found, rs, p)
  BY <1>4, <1>5 DEF OfTable, EntryOf
<1>7. QED
  BY <1>1, <1>2, <1>6 DEF RowAt

\* The places of three tables in a row.
LEMMA ThreeTables ==
    ASSUME NEW V, NEW a \in Seq(V), NEW b \in Seq(V), NEW c \in Seq(V), NEW all, all = a \o b \o c
    PROVE  /\ all \in Seq(V) /\ Len(all) = Len(a) + Len(b) + Len(c)
           /\ \A k \in 1..Len(a) : all[k] = a[k]
           /\ \A k \in 1..Len(b) : all[Len(a) + k] = b[k]
           /\ \A k \in 1..Len(c) : all[Len(a) + Len(b) + k] = c[k]
<1>1. a \o b \in Seq(V) /\ Len(a \o b) = Len(a) + Len(b)
  OBVIOUS
<1>2. /\ \A k \in 1..Len(a) : (a \o b)[k] = a[k]
      /\ \A k \in 1..Len(b) : (a \o b)[Len(a) + k] = b[k]
  OBVIOUS
<1> DEFINE ab == a \o b
<1> HIDE DEF ab
<1>3. ab \in Seq(V) /\ all = ab \o c
  BY <1>1 DEF ab
<1>4. /\ all \in Seq(V) /\ Len(all) = Len(ab) + Len(c)
      /\ \A k \in 1..Len(ab) : all[k] = ab[k]
      /\ \A k \in 1..Len(c) : all[Len(ab) + k] = c[k]
  BY <1>3
<1>5. Len(ab) = Len(a) + Len(b) /\ Len(a) \in Nat /\ Len(b) \in Nat /\ Len(c) \in Nat
  BY <1>1, LenProperties DEF ab
<1>6. \A k \in 1..Len(a) : all[k] = a[k]
  <2>1. ASSUME NEW k \in 1..Len(a) PROVE all[k] = a[k]
    <3>1. k \in 1..Len(ab)
      BY <1>5
    <3>2. QED
      BY <1>2, <1>4, <3>1 DEF ab
  <2>2. QED
    BY <2>1
<1>7. \A k \in 1..Len(b) : all[Len(a) + k] = b[k]
  <2>1. ASSUME NEW k \in 1..Len(b) PROVE all[Len(a) + k] = b[k]
    <3>1. Len(a) + k \in 1..Len(ab)
      BY <1>5
    <3>2. QED
      BY <1>2, <1>4, <3>1 DEF ab
  <2>2. QED
    BY <2>1
<1>8. QED
  BY <1>4, <1>5, <1>6, <1>7

\* The table of the rows of a kind, and where it starts among all entries.
TableOf(part, kind) ==
    IF kind = "directory" THEN part.directories
    ELSE IF kind = "file" THEN part.files ELSE part.symlinks

OffsetOf(part, kind) ==
    IF kind = "directory" THEN 0
    ELSE IF kind = "file" THEN Len(part.directories)
         ELSE Len(part.directories) + Len(part.files)

EntryType == [path : Seq(Seq(Nat)), kind : Kinds]

LEMMA TableOfFacts ==
    ASSUME NEW found, NEW rs, NEW part, NEW first, NEW end, PartOf(found, rs, part, first, end),
           NEW kind \in Kinds
    PROVE  LET table == TableOf(part, kind)
           IN  /\ table \in Seq(TableRowType) /\ Len(table) \in Nat /\ DOMAIN table = 1..Len(table)
               /\ TableIs(found, rs, part, table, kind, first, end)
               /\ OfTable(part, table, kind) \in Seq(EntryType)
               /\ Len(OfTable(part, table, kind)) = Len(table)
<1> DEFINE table == TableOf(part, kind)
           all == OfTable(part, table, kind)
<1>1. table \in Seq(TableRowType)
  BY PartOfFacts DEF TableOf
<1>2. TableIs(found, rs, part, table, kind, first, end)
  BY DEF PartOf, PartIs, TableOf, Kinds
<1>3. Len(table) \in Nat /\ DOMAIN table = 1..Len(table)
  BY <1>1, LenProperties
<1> HIDE DEF table
<1>4. ASSUME NEW k \in DOMAIN table PROVE all[k] \in EntryType
  <2>1. RowAt(found, rs, part, table, kind, first, end, k)
    BY <1>2, TableEntries
  <2> DEFINE p == table[k].name[1]
  <2>2. p \in first..(end - 1) /\ Named(found, kind, p) /\ all[k] = EntryOf(found, rs, p)
    BY <2>1 DEF RowAt
  <2> HIDE DEF p, all
  <2>3. p \in 0..(Len(rs) - 1)
    BY <2>2, PartOfFacts
  <2>4. Tree(rs) /\ ScansAre(found, rs)
    BY DEF PartOf
  <2>5. PathOf(rs, p) \in Seq(Seq(Nat))
    BY <2>3, <2>4, PathFacts
  <2>6. KindOf(found, p) = kind
    BY <2>2, <2>4, KindIs
  <2>7. QED
    BY <2>2, <2>5, <2>6 DEF EntryOf, EntryType
<1>5. all = [k \in 1..Len(table) |-> all[k]]
  BY <1>3 DEF OfTable
<1>6. all \in Seq(EntryType) /\ Len(all) = Len(table)
  <2> HIDE DEF all
  <2>1. all \in [1..Len(table) -> EntryType]
    BY <1>3, <1>4, <1>5
  <2>2. all \in Seq(EntryType)
    BY <1>3, <2>1, SeqDef
  <2>3. DOMAIN all = 1..Len(table)
    BY <2>1
  <2>4. QED
    BY <1>1, <1>3, <2>2, <2>3, SameLength
<1>7. QED
  BY <1>1, <1>2, <1>3, <1>6 DEF table

\* The entries of a part, before they are sorted: the place of a row.
Place(found, rs, part, kind, i) ==
    LET k == OffsetOf(part, kind) + i
        p == TableOf(part, kind)[i].name[1]
    IN  /\ k \in DOMAIN Unsorted(part)
        /\ Unsorted(part)[k] = EntryOf(found, rs, p)
        /\ Unsorted(part)[k].kind = kind

LEMMA UnsortedPlaces ==
    ASSUME NEW found, NEW rs, NEW part, NEW first, NEW end, PartOf(found, rs, part, first, end)
    PROVE  /\ \E N \in Nat : DOMAIN Unsorted(part) = 1..N
           /\ \A kind \in Kinds : \A i \in 1..Len(TableOf(part, kind)) :
                  /\ Place(found, rs, part, kind, i)
                  /\ TableOf(part, kind)[i].name[1] \in first..(end - 1)
           /\ \A k \in DOMAIN Unsorted(part) :
                  \E kind \in Kinds : \E i \in 1..Len(TableOf(part, kind)) :
                      k = OffsetOf(part, kind) + i
<1> DEFINE of(kind) == OfTable(part, TableOf(part, kind), kind)
           all == Unsorted(part)
           a == of("directory")
           b == of("file")
           c == of("symlink")
           x == Len(TableOf(part, "directory"))
           y == Len(TableOf(part, "file"))
           z == Len(TableOf(part, "symlink"))
<1>1. all = a \o b \o c
  BY DEF Unsorted, OfTable, TableOf
<1>2. /\ a \in Seq(EntryType) /\ Len(a) = x /\ x \in Nat
      /\ b \in Seq(EntryType) /\ Len(b) = y /\ y \in Nat
      /\ c \in Seq(EntryType) /\ Len(c) = z /\ z \in Nat
  BY TableOfFacts DEF Kinds
<1>3. /\ OffsetOf(part, "directory") = 0 /\ OffsetOf(part, "file") = x
      /\ OffsetOf(part, "symlink") = x + y
  BY DEF OffsetOf, TableOf
<1> HIDE DEF a, b, c, all, x, y, z
<1>a. a \in Seq(EntryType) /\ b \in Seq(EntryType) /\ c \in Seq(EntryType)
  BY <1>2
<1>4. /\ all \in Seq(EntryType) /\ Len(all) = Len(a) + Len(b) + Len(c)
      /\ \A k \in 1..Len(a) : all[k] = a[k]
      /\ \A k \in 1..Len(b) : all[Len(a) + k] = b[k]
      /\ \A k \in 1..Len(c) : all[Len(a) + Len(b) + k] = c[k]
  BY <1>1, <1>a, ThreeTables
<1>5. DOMAIN all = 1..(x + y + z) /\ x + y + z \in Nat
  BY <1>2, <1>4, LenProperties
<1>6. ASSUME NEW kind \in Kinds, NEW i \in 1..Len(TableOf(part, kind))
      PROVE  OffsetOf(part, kind) + i \in DOMAIN all /\ all[OffsetOf(part, kind) + i] = of(kind)[i]
  <2>1. CASE kind = "directory"
    <3>1. i \in 1..x
      BY <2>1 DEF x
    <3>2. OffsetOf(part, kind) + i = i /\ i \in 1..(x + y + z)
      BY <1>2, <1>3, <2>1, <3>1
    <3>3. all[i] = a[i]
      BY <1>2, <1>4, <3>1
    <3>4. QED
      BY <1>5, <2>1, <3>2, <3>3 DEF a
  <2>2. CASE kind = "file"
    <3>1. i \in 1..y
      BY <2>2 DEF y
    <3>2. OffsetOf(part, kind) + i = x + i /\ x + i \in 1..(x + y + z)
      BY <1>2, <1>3, <2>2, <3>1
    <3>3. all[x + i] = b[i]
      BY <1>2, <1>4, <3>1
    <3>4. QED
      BY <1>5, <2>2, <3>2, <3>3 DEF b
  <2>3. CASE kind = "symlink"
    <3>1. i \in 1..z
      BY <2>3 DEF z
    <3>2. OffsetOf(part, kind) + i = x + y + i /\ x + y + i \in 1..(x + y + z)
      BY <1>2, <1>3, <2>3, <3>1
    <3>3. all[x + y + i] = c[i]
      BY <1>2, <1>4, <3>1
    <3>4. QED
      BY <1>5, <2>3, <3>2, <3>3 DEF c
  <2>4. QED
    BY <2>1, <2>2, <2>3 DEF Kinds
<1>7. ASSUME NEW kind \in Kinds, NEW i \in 1..Len(TableOf(part, kind))
      PROVE  Place(found, rs, part, kind, i) /\ TableOf(part, kind)[i].name[1] \in first..(end - 1)
  <2> DEFINE table == TableOf(part, kind)
  <2>1. TableIs(found, rs, part, table, kind, first, end) /\ i \in DOMAIN table
    BY TableOfFacts
  <2>2. RowAt(found, rs, part, table, kind, first, end, i)
    BY <2>1, TableEntries
  <2>3. /\ table[i].name[1] \in first..(end - 1)
        /\ of(kind)[i] = EntryOf(found, rs, table[i].name[1])
    BY <2>2 DEF RowAt
  <2>4. of(kind)[i].kind = kind
    BY <2>1 DEF OfTable
  <2>5. QED
    BY <1>6, <2>3, <2>4 DEF Place, all
<1>8. ASSUME NEW k \in DOMAIN all
      PROVE  \E kind \in Kinds : \E i \in 1..Len(TableOf(part, kind)) : k = OffsetOf(part, kind) + i
  <2>1. \/ k \in 1..x /\ k = 0 + k
        \/ k - x \in 1..y /\ k = x + (k - x)
        \/ k - (x + y) \in 1..z /\ k = x + y + (k - (x + y))
    BY <1>2, <1>5
  <2>2. CASE k \in 1..x /\ k = 0 + k
    BY <1>3, <2>2 DEF x, Kinds
  <2>3. CASE k - x \in 1..y /\ k = x + (k - x)
    BY <1>3, <2>3 DEF y, Kinds
  <2>4. CASE k - (x + y) \in 1..z /\ k = x + y + (k - (x + y))
    BY <1>3, <2>4 DEF z, Kinds
  <2>5. QED
    BY <2>1, <2>2, <2>3, <2>4
<1>9. QED
  BY <1>5, <1>7, <1>8 DEF all

\* The position of each entry.
Positions(found, rs, all, first, end, pos) ==
    /\ pos \in Bijection(DOMAIN all, first..(end - 1))
    /\ \A k \in DOMAIN all : all[k] = EntryOf(found, rs, pos[k])

LEMMA EntryOfOne ==
    ASSUME NEW found, NEW rs, NEW part, NEW first, NEW end, PartOf(found, rs, part, first, end),
           NEW p \in first..(end - 1), NEW q \in first..(end - 1),
           EntryOf(found, rs, p) = EntryOf(found, rs, q)
    PROVE  p = q
<1>1. p \in 0..(Len(rs) - 1) /\ q \in 0..(Len(rs) - 1) /\ Tree(rs)
  BY PartOfFacts DEF PartOf
<1>2. EntryOf(found, rs, p).path = EntryOf(found, rs, q).path
  OBVIOUS
<1>3. PathOf(rs, p) = PathOf(rs, q)
  BY <1>2 DEF EntryOf
<1>4. QED
  BY <1>1, <1>3, WalkOrderIsPositions

LEMMA PositionsExist ==
    ASSUME NEW found, NEW rs, NEW part, NEW first, NEW end, PartOf(found, rs, part, first, end)
    PROVE  \E pos : Positions(found, rs, Unsorted(part), first, end, pos)
<1> DEFINE all == Unsorted(part)
           R == first..(end - 1)
           row(kind, i) == TableOf(part, kind)[i].name[1]
           pos == [k \in DOMAIN all |-> CHOOSE p \in R : all[k] = EntryOf(found, rs, p)]
<1>1. ASSUME NEW kind \in Kinds, NEW i \in 1..Len(TableOf(part, kind))
      PROVE  Place(found, rs, part, kind, i) /\ row(kind, i) \in R
  BY UnsortedPlaces
<1>2. ASSUME NEW k \in DOMAIN all
      PROVE  \E kind \in Kinds : \E i \in 1..Len(TableOf(part, kind)) : k = OffsetOf(part, kind) + i
  BY UnsortedPlaces
<1> HIDE DEF all
<1>3. ASSUME NEW kind \in Kinds, NEW i \in 1..Len(TableOf(part, kind))
      PROVE  /\ OffsetOf(part, kind) + i \in DOMAIN all
             /\ all[OffsetOf(part, kind) + i] = EntryOf(found, rs, row(kind, i))
             /\ all[OffsetOf(part, kind) + i].kind = kind
             /\ row(kind, i) \in R
  BY <1>1 DEF Place, all
<1> HIDE DEF row, R
<1>4. ASSUME NEW k \in DOMAIN all
      PROVE  pos[k] \in R /\ all[k] = EntryOf(found, rs, pos[k])
  <2>1. \E p \in R : all[k] = EntryOf(found, rs, p)
    <3>1. PICK kind \in Kinds : \E i \in 1..Len(TableOf(part, kind)) : k = OffsetOf(part, kind) + i
      BY <1>2
    <3>2. PICK i \in 1..Len(TableOf(part, kind)) : k = OffsetOf(part, kind) + i
      BY <3>1
    <3>3. QED
      BY <1>3, <3>2
  <2>2. QED
    BY <2>1
<1>5. DOMAIN pos = DOMAIN all
  OBVIOUS
<1> HIDE DEF pos
<1>6. pos \in [DOMAIN all -> R]
  <2>1. pos = [k \in DOMAIN all |-> pos[k]]
    BY DEF pos
  <2>2. QED
    BY <1>4, <2>1
<1>7. ASSUME NEW k \in DOMAIN all, NEW l \in DOMAIN all, pos[k] = pos[l]
      PROVE  k = l
  <2>1. PICK kind \in Kinds : \E i \in 1..Len(TableOf(part, kind)) : k = OffsetOf(part, kind) + i
    BY <1>2
  <2>2. PICK i \in 1..Len(TableOf(part, kind)) : k = OffsetOf(part, kind) + i
    BY <2>1
  <2>3. PICK other \in Kinds : \E i_ \in 1..Len(TableOf(part, other)) : l = OffsetOf(part, other) + i_
    BY <1>2
  <2>4. PICK j \in 1..Len(TableOf(part, other)) : l = OffsetOf(part, other) + j
    BY <2>3
  <2>5. all[k] = all[l]
    BY <1>4, <1>7
  <2>6. other = kind
    BY <1>3, <2>2, <2>4, <2>5
  <2>7. j \in 1..Len(TableOf(part, kind))
    BY <2>6
  <2>8. row(kind, i) = row(kind, j)
    <3>1. EntryOf(found, rs, row(kind, i)) = EntryOf(found, rs, row(kind, j))
      BY <1>3, <2>2, <2>4, <2>5, <2>6
    <3>2. row(kind, i) \in R /\ row(kind, j) \in R
      BY <1>3, <2>7
    <3>3. QED
      BY <3>1, <3>2, EntryOfOne DEF R
  <2>9. i = j
    <3> DEFINE table == TableOf(part, kind)
               u == table[i].name[1]
               v == table[j].name[1]
    <3>1. /\ DOMAIN table = 1..Len(table) /\ Len(table) \in Nat
          /\ TableIs(found, rs, part, table, kind, first, end)
      BY TableOfFacts
    <3>2. i \in DOMAIN table /\ j \in DOMAIN table
      BY <2>7, <3>1
    <3> HIDE DEF table
    <3>3. /\ i < j => u < v
          /\ j < i => v < u
      BY <3>1, <3>2 DEF TableIs
    <3>4. u = v /\ u \in Nat
      <4>1. row(kind, i) \in Nat
        BY <1>3, PartOfFacts DEF R
      <4>2. QED
        BY <2>8, <4>1 DEF row, table
    <3> HIDE DEF u, v
    <3>5. QED
      BY <2>7, <3>3, <3>4
  <2>10. QED
    BY <2>2, <2>4, <2>6, <2>9
<1>8. ASSUME NEW p \in R PROVE \E k \in DOMAIN all : pos[k] = p
  <2>1. \E kind \in Kinds : HasRow(TableOf(part, kind), p)
    <3>1. \/ HasRow(part.directories, p) \/ HasRow(part.files, p) \/ HasRow(part.symlinks, p)
      BY DEF PartOf, PartIs, R
    <3>2. QED
      BY <3>1 DEF TableOf, Kinds
  <2>2. PICK kind \in Kinds : HasRow(TableOf(part, kind), p)
    BY <2>1
  <2>3. PICK i \in DOMAIN TableOf(part, kind) : TableOf(part, kind)[i].name = <<p>>
    BY <2>2 DEF HasRow
  <2>4. i \in 1..Len(TableOf(part, kind)) /\ row(kind, i) = p
    BY <2>3, TableOfFacts DEF row
  <2> DEFINE k == OffsetOf(part, kind) + i
  <2>5. k \in DOMAIN all /\ all[k] = EntryOf(found, rs, p)
    BY <1>3, <2>4
  <2> HIDE DEF k
  <2>6. pos[k] \in R /\ EntryOf(found, rs, pos[k]) = EntryOf(found, rs, p)
    BY <1>4, <2>5
  <2>7. pos[k] = p
    BY <1>8, <2>6, EntryOfOne DEF R
  <2>8. QED
    BY <2>5, <2>7
<1>9. pos \in Bijection(DOMAIN all, R)
  BY <1>5, <1>6, <1>7, <1>8 DEF Bijection, Injection, Surjection, IsInjective
<1>10. Positions(found, rs, all, first, end, pos)
  BY <1>4, <1>9 DEF Positions, R
<1>11. QED
  BY <1>10 DEF all

Earlier(D, pos, k) == {l \in D : pos[l] < pos[k]}

\* How many come before one, when the positions are all those from a up to b.
LEMMA Ranked ==
    ASSUME NEW D, IsFiniteSet(D), NEW a \in Nat, NEW b \in Nat, a <= b,
           NEW pos \in Bijection(D, a..(b - 1)), NEW k \in D
    PROVE  Cardinality(Earlier(D, pos, k)) = pos[k] - a
<1> DEFINE B == {l \in D : pos[l] < pos[k]}
           q == pos[k]
           f == [l \in B |-> pos[l]]
<1>1. /\ pos \in [D -> a..(b - 1)]
      /\ \A l, m \in D : pos[l] = pos[m] => l = m
      /\ \A p \in a..(b - 1) : \E l \in D : pos[l] = p
  BY DEF Bijection, Injection, Surjection, IsInjective
<1>2. q \in a..(b - 1) /\ q \in Nat
  BY <1>1
<1> HIDE DEF q
<1>3. \A l \in B : l \in D /\ pos[l] \in a..(q - 1)
  BY <1>1, <1>2 DEF q
<1>4. \A p \in a..(q - 1) : \E l \in B : pos[l] = p
  <2>1. ASSUME NEW p \in a..(q - 1) PROVE \E l \in B : pos[l] = p
    <3>1. p \in a..(b - 1) /\ p < q
      BY <1>2
    <3>2. PICK l \in D : pos[l] = p
      BY <1>1, <3>1
    <3>3. l \in B
      BY <3>1, <3>2 DEF q
    <3>4. QED
      BY <3>2, <3>3
  <2>2. QED
    BY <2>1
<1>5. IsFiniteSet(B)
  BY FS_Subset
<1> HIDE DEF B
<1>6. f \in [B -> a..(q - 1)] /\ DOMAIN f = B
  BY <1>3
<1>7. \A l, m \in B : f[l] = f[m] => l = m
  BY <1>1, <1>3
<1>8. \A p \in a..(q - 1) : \E l \in B : f[l] = p
  BY <1>4
<1> HIDE DEF f
<1>9. f \in Bijection(B, a..(q - 1))
  BY <1>6, <1>7, <1>8 DEF Bijection, Injection, Surjection, IsInjective
<1>10. Cardinality(a..(q - 1)) = Cardinality(B)
  BY <1>5, <1>9, FS_Bijection DEF ExistsBijection
<1>11. Cardinality(a..(q - 1)) = q - a
  <2>1. a \in Int /\ q - 1 \in Int
    BY <1>2
  <2>2. Cardinality(a..(q - 1)) = IF a > q - 1 THEN 0 ELSE (q - 1) - a + 1
    BY <2>1, FS_Interval
  <2>3. QED
    BY <1>2, <2>2
<1>12. QED
  BY <1>10, <1>11 DEF q, B, Earlier

\* A part read without any other gives its rows in walk order.
LEMMA EntriesAre ==
    ASSUME NEW found, NEW rs, NEW part, NEW first, NEW end, PartOf(found, rs, part, first, end)
    PROVE  Entries(part) = [n \in 1..(end - first) |-> EntryOf(found, rs, first + n - 1)]
<1> DEFINE all == Unsorted(part)
           before(k) == {l \in DOMAIN all :
                            \/ WalkOrder(all[l].path, all[k].path)
                            \/ all[l].path = all[k].path /\ l < k}
           at(n) == CHOOSE k \in DOMAIN all : Cardinality(before(k)) = n - 1
<1>1. PICK pos : Positions(found, rs, all, first, end, pos)
  BY PositionsExist
<1>2. PICK N \in Nat : DOMAIN all = 1..N
  BY UnsortedPlaces
<1>3. Tree(rs) /\ first \in Nat /\ end \in Nat /\ first < end
  BY PartOfFacts DEF PartOf
<1> HIDE DEF all
<1>4. /\ pos \in Bijection(DOMAIN all, first..(end - 1))
      /\ \A k \in DOMAIN all : all[k] = EntryOf(found, rs, pos[k])
  BY <1>1 DEF Positions
<1>5. /\ pos \in [DOMAIN all -> first..(end - 1)]
      /\ \A l, m \in DOMAIN all : pos[l] = pos[m] => l = m
      /\ \A p \in first..(end - 1) : \E l \in DOMAIN all : pos[l] = p
  BY <1>4 DEF Bijection, Injection, Surjection, IsInjective
<1>6. IsFiniteSet(DOMAIN all) /\ Cardinality(DOMAIN all) = N
  <2>1. IsFiniteSet(1..N) /\ Cardinality(1..N) = IF 1 > N THEN 0 ELSE N - 1 + 1
    BY FS_Interval
  <2>2. QED
    BY <1>2, <2>1
<1>7. N = end - first
  <2>1. Cardinality(first..(end - 1)) = Cardinality(DOMAIN all)
    BY <1>4, <1>6, FS_Bijection DEF ExistsBijection
  <2>2. Cardinality(first..(end - 1)) = IF first > end - 1 THEN 0 ELSE (end - 1) - first + 1
    BY <1>3, FS_Interval
  <2>3. QED
    BY <1>3, <1>6, <2>1, <2>2
<1>8. ASSUME NEW k \in DOMAIN all, NEW l \in DOMAIN all
      PROVE  l \in before(k) <=> pos[l] < pos[k]
  <2>1. /\ pos[k] \in first..(end - 1) /\ pos[l] \in first..(end - 1)
        /\ pos[l] = pos[k] => l = k
    BY <1>5
  <2>2. pos[k] \in 0..(Len(rs) - 1) /\ pos[l] \in 0..(Len(rs) - 1) /\ pos[k] \in Nat
    BY <2>1, PartOfFacts
  <2>3. all[k].path = PathOf(rs, pos[k]) /\ all[l].path = PathOf(rs, pos[l])
    BY <1>4 DEF EntryOf
  <2>4. /\ WalkOrder(PathOf(rs, pos[l]), PathOf(rs, pos[k])) <=> pos[l] < pos[k]
        /\ PathOf(rs, pos[l]) = PathOf(rs, pos[k]) <=> pos[l] = pos[k]
    BY <1>3, <2>2, WalkOrderIsPositions
  <2>5. ~(l = k /\ l < k)
    BY <1>2
  <2>6. QED
    BY <2>1, <2>3, <2>4, <2>5
<1>9. ASSUME NEW k \in DOMAIN all
      PROVE  Cardinality(before(k)) = pos[k] - first
  <2>1. before(k) = Earlier(DOMAIN all, pos, k)
    BY <1>8 DEF Earlier
  <2> HIDE DEF before
  <2> DEFINE D == DOMAIN all
  <2>a. /\ IsFiniteSet(D) /\ pos \in Bijection(D, first..(end - 1)) /\ k \in D
        /\ first \in Nat /\ end \in Nat /\ first <= end
    BY <1>3, <1>4, <1>6
  <2> HIDE DEF D
  <2>b. Cardinality(Earlier(D, pos, k)) = pos[k] - first
    BY <2>a, Ranked
  <2>2. Cardinality(Earlier(DOMAIN all, pos, k)) = pos[k] - first
    BY <2>b DEF D
  <2>3. QED
    BY <2>1, <2>2
<1> HIDE DEF before
<1>10. ASSUME NEW n \in DOMAIN all
       PROVE  all[at(n)] = EntryOf(found, rs, first + n - 1)
  <2>1. n \in 1..(end - first)
    BY <1>2, <1>7
  <2>2. first + n - 1 \in first..(end - 1)
    BY <1>3, <2>1
  <2>3. PICK k \in DOMAIN all : pos[k] = first + n - 1
    BY <1>5, <2>2
  <2>4. Cardinality(before(k)) = n - 1
    BY <1>3, <1>9, <2>1, <2>3
  <2>5. at(n) \in DOMAIN all /\ Cardinality(before(at(n))) = n - 1
    BY <2>4
  <2> DEFINE c == at(n)
  <2>6. c \in DOMAIN all /\ Cardinality(before(c)) = n - 1
    BY <2>5
  <2> HIDE DEF c
  <2>7. pos[c] - first = n - 1
    BY <1>9, <2>6
  <2>8. pos[c] \in Nat
    BY <1>3, <1>5, <2>6
  <2>9. pos[c] = first + n - 1
    <3> DEFINE p == pos[c]
    <3>1. p - first = n - 1 /\ p \in Nat /\ n \in Nat
      BY <1>3, <2>1, <2>7, <2>8
    <3> HIDE DEF p
    <3>2. p = first + n - 1
      BY <1>3, <3>1
    <3>3. QED
      BY <3>2 DEF p
  <2>10. all[c] = EntryOf(found, rs, first + n - 1)
    BY <1>4, <2>6, <2>9
  <2>11. QED
    BY <2>10 DEF c
<1>11. Entries(part) = [n \in DOMAIN all |-> all[at(n)]]
  BY DEF Entries, before, all
<1> HIDE DEF at
<1>12. QED
  BY <1>2, <1>7, <1>10, <1>11

\* Each part is one of rows that there are, and its true paths are those of the tree.
LEMMA PartsAreOfRows ==
    ASSUME IInv, PartsInv, AssemblyInvariant, NEW k \in DOMAIN parts
    PROVE  PartOf(scans, rows, built[k], parts[k].first, parts[k].end)
<1>1. parts \in Seq(PartType) /\ Len(rows) = position
  BY DEF IInv, TypeOK, PartsInv
<1>2. k \in 1..Len(parts) /\ parts[k] \in PartType
  BY <1>1, ElementOfSeq, LenProperties
<1>3. parts[k].first \in Nat /\ parts[k].end \in Nat
  BY <1>2 DEF PartType
<1>4. parts[k].first < parts[k].end
  BY <1>2 DEF IInv, TilesInv, PartsTile, Tiles
<1>5. parts[k].end <= Len(rows)
  BY <1>1 DEF PartsInv, EndsInv
<1>6. PartIs(scans, rows, built[k], parts[k].first, parts[k].end)
  BY <1>2 DEF AssemblyInvariant, BuiltInv
<1>7. QED
  BY <1>3, <1>4, <1>5, <1>6 DEF AssemblyInvariant, PartOf

LEMMA TrueIs ==
    ASSUME IInv, PartsInv, AssemblyInvariant, NEW p \in 0..(position - 1)
    PROVE  TruePath(p) = PathOf(rows, p) /\ TrueKind(p) = KindOf(scans, p)
<1> DEFINE D == rows[p + 1].depth
<1>1. Tree(rows) /\ p \in 0..(Len(rows) - 1)
  BY DEF PartsInv, AssemblyInvariant
<1>2. D \in Nat
  BY <1>1, TreeRow
<1>3. \A q, d : AncestorIn(rows, q, d) = Ancestor(q, d)
  BY DEF Ancestor, AncestorIn
<1>4. /\ PathOf(rows, p) \in Seq(Seq(Nat)) /\ Len(PathOf(rows, p)) = D + 1
      /\ \A d \in 1..D : PathOf(rows, p)[d] = <<Ancestor(p, d - 1)>>
      /\ PathOf(rows, p)[D + 1] = <<p>>
  BY <1>1, <1>3, PathFacts
<1>5. /\ DOMAIN TruePath(p) = 1..(D + 1)
      /\ \A d \in 1..(D + 1) : TruePath(p)[d] = IF d <= D THEN <<Ancestor(p, d - 1)>> ELSE <<p>>
      /\ TruePath(p) = [d \in 1..(D + 1) |-> TruePath(p)[d]]
  BY DEF TruePath
<1> HIDE DEF D
<1>6. ASSUME NEW d \in 1..(D + 1) PROVE TruePath(p)[d] = PathOf(rows, p)[d]
  <2>1. \/ d \in 1..D /\ d <= D
        \/ d = D + 1 /\ ~(d <= D)
    BY <1>2
  <2>2. TruePath(p)[d] = IF d <= D THEN <<Ancestor(p, d - 1)>> ELSE <<p>>
    BY <1>5
  <2>3. CASE d \in 1..D /\ d <= D
    <3>1. TruePath(p)[d] = <<Ancestor(p, d - 1)>>
      BY <2>2, <2>3
    <3>2. PathOf(rows, p)[d] = <<Ancestor(p, d - 1)>>
      BY <1>4, <2>3
    <3>3. QED
      BY <3>1, <3>2
  <2>4. CASE d = D + 1 /\ ~(d <= D)
    <3>1. TruePath(p)[d] = <<p>>
      BY <2>2, <2>4
    <3>2. QED
      BY <1>4, <2>4, <3>1
  <2>5. QED
    BY <2>1, <2>3, <2>4
<1>7. DOMAIN PathOf(rows, p) = 1..(D + 1) /\ PathOf(rows, p) = [d \in 1..(D + 1) |-> PathOf(rows, p)[d]]
  BY <1>4, LenProperties
<1>8. TruePath(p) = PathOf(rows, p)
  BY <1>5, <1>6, <1>7
<1>9. TrueKind(p) = KindOf(scans, p)
  BY DEF TrueKind, KindOf
<1>10. QED
  BY <1>8, <1>9

\* A part that is read without any other gives its rows, with their kinds and the
\* whole paths they have in the tree, in walk order: no row is lost, repeated or
\* put below another directory, however the rows were cut and scanned.
THEOREM PartsAreReadBack == AssemblySpec => []PartsReadBack
<1>1. ASSUME IInv, PartsInv, AssemblyInvariant
      PROVE  PartsReadBack
  <2>1. Len(built) = Len(parts) /\ built \in Seq(PartTypes) /\ parts \in Seq(PartType)
    BY <1>1 DEF AssemblyInvariant, BuiltInv, IInv, TypeOK
  <2>2. DOMAIN built = DOMAIN parts
    BY <2>1, LenProperties
  <2>3. ASSUME NEW k \in DOMAIN parts
        PROVE  Entries(built[k]) =
                   [n \in 1..(parts[k].end - parts[k].first) |->
                       [path |-> TruePath(parts[k].first + n - 1),
                        kind |-> TrueKind(parts[k].first + n - 1)]]
    <3> DEFINE first == parts[k].first
               end == parts[k].end
    <3>1. PartOf(scans, rows, built[k], first, end)
      BY <1>1, PartsAreOfRows
    <3>2. Len(rows) = position
      BY <1>1 DEF PartsInv
    <3> DEFINE part == built[k]
    <3> HIDE DEF first, end, part
    <3>a. PartOf(scans, rows, part, first, end)
      BY <3>1 DEF part
    <3> HIDE <3>1
    <3>3. Entries(part) = [n \in 1..(end - first) |-> EntryOf(scans, rows, first + n - 1)]
      BY <3>a, EntriesAre
    <3>4. ASSUME NEW n \in 1..(end - first)
          PROVE  EntryOf(scans, rows, first + n - 1) =
                     [path |-> TruePath(first + n - 1), kind |-> TrueKind(first + n - 1)]
      <4>1. first \in Nat /\ end \in Nat
        BY <3>a DEF PartOf
      <4>2. first + n - 1 \in first..(end - 1)
        BY <4>1
      <4>3. first + n - 1 \in 0..(position - 1)
        BY <3>a, <3>2, <4>2, PartOfFacts
      <4>4. QED
        BY <1>1, <4>3, TrueIs DEF EntryOf
    <3>5. QED
      BY <3>3, <3>4 DEF first, end, part
  <2>4. QED
    BY <2>2, <2>3 DEF PartsReadBack
<1>2. QED
  BY <1>1, AssemblyKept, PTL

-----------------------------------------------------------------------------
(* Searching the parts.                                                    *)

\* The first path of a part is that of its first row.
LEMMA FirstPathIs ==
    ASSUME NEW found, NEW rs, NEW part, NEW first, NEW end, PartOf(found, rs, part, first, end)
    PROVE  FirstPath(part) = PathOf(rs, first)
<1> DEFINE tables == {part.directories, part.files, part.symlinks} \ {<<>>}
           firsts == {Path(part, table[1]) : table \in tables}
           P == PathOf(rs, first)
           least(path_) == path_ \in firsts /\ \A q \in firsts : path_ = q \/ WalkOrder(path_, q)
           c == CHOOSE path_ \in firsts : \A q \in firsts : path_ = q \/ WalkOrder(path_, q)
<1>0. /\ first \in Nat /\ end \in Nat /\ first < end /\ first \in 0..(Len(rs) - 1)
      /\ \A p \in first..(end - 1) : p \in 0..(Len(rs) - 1) /\ p \in Nat
      /\ Tree(rs)
  BY PartOfFacts DEF PartOf
<1>1. ASSUME NEW kind \in Kinds, NEW k \in DOMAIN TableOf(part, kind)
      PROVE  /\ 1 \in DOMAIN TableOf(part, kind)
             /\ TableOf(part, kind)[k].name[1] \in first..(end - 1)
             /\ Path(part, TableOf(part, kind)[k]) = PathOf(rs, TableOf(part, kind)[k].name[1])
             /\ 1 < k => TableOf(part, kind)[1].name[1] < TableOf(part, kind)[k].name[1]
  <2> DEFINE table == TableOf(part, kind)
  <2>1. /\ Len(table) \in Nat /\ DOMAIN table = 1..Len(table)
        /\ TableIs(found, rs, part, table, kind, first, end)
    BY TableOfFacts
  <2>2. 1 \in DOMAIN table
    <3> DEFINE L == Len(table)
    <3>1. k \in 1..L /\ L \in Nat
      BY <2>1
    <3> HIDE DEF L
    <3>2. 1 \in 1..L
      BY <3>1
    <3>3. QED
      BY <2>1, <3>2 DEF L
  <2>3. RowAt(found, rs, part, table, kind, first, end, k)
    BY <2>1, TableEntries
  <2>4. OfTable(part, table, kind)[k].path = Path(part, table[k])
    BY DEF OfTable
  <2>5. OfTable(part, table, kind)[k].path = PathOf(rs, table[k].name[1])
    BY <2>3 DEF RowAt, EntryOf
  <2>6. 1 < k => table[1].name[1] < table[k].name[1]
    BY <2>1, <2>2 DEF TableIs
  <2>7. QED
    BY <2>2, <2>3, <2>4, <2>5, <2>6 DEF RowAt
<1>2. ASSUME NEW path_ \in firsts
      PROVE  \E p \in first..(end - 1) : path_ = PathOf(rs, p)
  <2>1. PICK table \in tables : path_ = Path(part, table[1])
    OBVIOUS
  <2>2. PICK kind \in Kinds : table = TableOf(part, kind)
    <3>1. /\ part.directories = TableOf(part, "directory")
          /\ part.files = TableOf(part, "file")
          /\ part.symlinks = TableOf(part, "symlink")
      BY DEF TableOf
    <3>2. QED
      BY <3>1 DEF Kinds
  <2>3. table \in Seq(TableRowType) /\ Len(table) \in Nat /\ DOMAIN table = 1..Len(table) /\ table # <<>>
    BY <2>2, TableOfFacts
  <2>4. 1 \in DOMAIN table
    <3>1. Len(table) # 0
      BY <2>3
    <3>2. QED
      BY <2>3, <3>1
  <2>5. Path(part, table[1]) = PathOf(rs, table[1].name[1]) /\ table[1].name[1] \in first..(end - 1)
    BY <1>1, <2>2, <2>4
  <2>6. QED
    BY <2>1, <2>5
<1>3. P \in firsts
  <2>1. first \in first..(end - 1)
    BY <1>0
  <2>2. PICK kind \in Kinds : HasRow(TableOf(part, kind), first)
    BY <2>1 DEF PartOf, PartIs, TableOf, Kinds
  <2> DEFINE table == TableOf(part, kind)
  <2>3. PICK k \in DOMAIN table : table[k].name = <<first>>
    BY <2>2 DEF HasRow
  <2>4. table[k].name[1] = first
    BY <2>3
  <2>5. 1 \in DOMAIN table /\ table[1].name[1] \in first..(end - 1)
    BY <1>1, <2>3
  <2>6. ~(1 < k)
    <3> DEFINE a == table[1].name[1]
    <3>1. a \in first..(end - 1) /\ (1 < k => a < first)
      BY <1>1, <2>3, <2>4, <2>5
    <3> HIDE DEF a
    <3>2. QED
      BY <1>0, <3>1
  <2>7. k = 1
    <3>1. DOMAIN table = 1..Len(table) /\ Len(table) \in Nat
      BY TableOfFacts
    <3>2. QED
      BY <2>3, <2>6, <3>1
  <2>8. Path(part, table[1]) = P
    BY <1>1, <2>3, <2>4, <2>7
  <2>9. table \in tables
    <3>1. table # <<>>
      BY <2>5
    <3>2. QED
      BY <3>1 DEF TableOf, Kinds
  <2>10. QED
    BY <2>8, <2>9
<1> HIDE DEF firsts
<1>4. least(P)
  <2>1. ASSUME NEW q \in firsts PROVE P = q \/ WalkOrder(P, q)
    <3>1. PICK p \in first..(end - 1) : q = PathOf(rs, p)
      BY <1>2
    <3>2. p \in 0..(Len(rs) - 1) /\ (p = first \/ first < p)
      BY <1>0
    <3>3. QED
      BY <1>0, <3>1, <3>2, WalkOrderIsPositions
  <2>2. QED
    BY <1>3, <2>1
<1>5. least(c)
  BY <1>4
<1>6. c = P
  <2>1. PICK p \in first..(end - 1) : c = PathOf(rs, p)
    BY <1>2, <1>5
  <2>2. c = P \/ WalkOrder(c, P)
    BY <1>3, <1>5
  <2>3. p \in 0..(Len(rs) - 1) /\ ~(p < first)
    BY <1>0
  <2>4. ~WalkOrder(PathOf(rs, p), PathOf(rs, first))
    BY <1>0, <2>3, WalkOrderIsPositions
  <2>5. QED
    BY <2>1, <2>2, <2>4
<1>7. FirstPath(part) = c
  BY DEF FirstPath, Least, firsts
<1>8. QED
  BY <1>6, <1>7

\* A later part starts where an earlier one ended, or after it.
LEMMA TilesInOrder ==
    ASSUME NEW ps \in Seq(PartType), Tiles(ps), NEW k \in 1..Len(ps), NEW l \in 1..Len(ps), k < l
    PROVE  ps[k].end <= ps[l].first
<1> DEFINE m == Len(ps)
           F(i) == ps[i].first
           E(i) == ps[i].end
           S == {n \in 0..m : \A i \in 1..n : k < i => E(k) <= F(i)}
<1>1. m \in Nat /\ k \in 1..m /\ l \in 1..m /\ k < l
  BY LenProperties
<1>2. ASSUME NEW i \in 1..m
      PROVE  /\ F(i) \in Nat /\ E(i) \in Nat
             /\ F(i) < E(i) /\ F(i) = IF i = 1 THEN 0 ELSE E(i - 1)
  <2>1. ps[i] \in PartType
    BY ElementOfSeq
  <2>2. QED
    BY <2>1 DEF PartType, Tiles
<1> HIDE DEF m, F, E
<1>3. 0 \in S
  BY <1>1
<1>4. ASSUME NEW n \in 0..(m - 1), n \in S PROVE n + 1 \in S
  <2>1. ASSUME k < n + 1 PROVE E(k) <= F(n + 1)
    <3>1. n \in 1..m /\ n + 1 \in 1..m /\ n + 1 # 1 /\ (n + 1) - 1 = n
      BY <1>1, <2>1
    <3>2. F(n + 1) = E(n)
      BY <1>2, <3>1
    <3>3. CASE k = n
      BY <1>1, <1>2, <3>2, <3>3
    <3>4. CASE k # n
      <4>1. n \in 1..n /\ k < n
        BY <1>1, <2>1, <3>1, <3>4
      <4>2. E(k) <= F(n)
        BY <1>4, <4>1
      <4>3. F(n) < E(n) /\ F(n) \in Nat /\ E(n) \in Nat /\ E(k) \in Nat
        BY <1>1, <1>2, <3>1
      <4>4. QED
        BY <3>2, <4>2, <4>3
    <3>5. QED
      BY <3>3, <3>4
  <2>2. \A i \in 1..(n + 1) : i \in 1..n \/ i = n + 1
    BY <1>1
  <2>3. n + 1 \in 0..m
    BY <1>1
  <2>4. QED
    BY <1>4, <2>1, <2>2, <2>3
<1>5. \A n \in 0..m : n \in S
  <2> HIDE DEF S
  <2>1. QED
    BY <1>1, <1>3, <1>4, InductionUpTo
<1>6. l \in 0..m /\ l \in 1..l
  BY <1>1
<1>7. E(k) <= F(l)
  BY <1>1, <1>5, <1>6
<1>8. QED
  BY <1>7 DEF E, F

\* Each row before the end of the last part is in a part.
LEMMA EachRowIsInAPart ==
    ASSUME NEW ps \in Seq(PartType), Tiles(ps), NEW x \in Nat, x < SealedEnd(ps)
    PROVE  \E k \in 1..Len(ps) : x \in ps[k].first..(ps[k].end - 1)
<1> DEFINE m == Len(ps)
           F(i) == ps[i].first
           E(i) == ps[i].end
           B(n) == IF n = 0 THEN 0 ELSE E(n)
           S == {n \in 0..m : x < B(n) => \E k \in 1..m : x \in F(k)..(E(k) - 1)}
<1>1. m \in Nat
  BY LenProperties
<1>2. ASSUME NEW i \in 1..m
      PROVE  /\ F(i) \in Nat /\ E(i) \in Nat
             /\ F(i) < E(i) /\ F(i) = IF i = 1 THEN 0 ELSE E(i - 1)
  <2>1. ps[i] \in PartType
    BY ElementOfSeq
  <2>2. QED
    BY <2>1 DEF PartType, Tiles
<1>3. x < B(m)
  BY DEF SealedEnd
<1> HIDE DEF m, F, E
<1>4. 0 \in S
  BY <1>1
<1>5. ASSUME NEW n \in 0..(m - 1), n \in S PROVE n + 1 \in S
  <2>1. n + 1 \in 0..m /\ n + 1 \in 1..m /\ n + 1 # 0 /\ (n + 1) - 1 = n /\ (n + 1 = 1 <=> n = 0)
    BY <1>1
  <2>2. F(n + 1) = B(n) /\ F(n + 1) \in Nat /\ E(n + 1) \in Nat /\ B(n + 1) = E(n + 1)
    BY <1>2, <2>1
  <2>3. CASE x < B(n)
    BY <1>5, <2>1, <2>3
  <2>4. CASE ~(x < B(n))
    <3>1. ASSUME x < B(n + 1) PROVE x \in F(n + 1)..(E(n + 1) - 1)
      <4> HIDE DEF B
      <4>1. QED
        BY <2>2, <2>4, <3>1
    <3> HIDE DEF B
    <3>2. QED
      BY <2>1, <3>1
  <2>5. QED
    BY <2>3, <2>4
<1>6. \A n \in 0..m : n \in S
  <2> HIDE DEF S
  <2>1. QED
    BY <1>1, <1>4, <1>5, InductionUpTo
<1>7. m \in S
  BY <1>1, <1>6
<1>8. QED
  BY <1>3, <1>7 DEF m, F, E

\* Search and what it is to find, for the row at x of the jth part.
LEMMA SearchIs ==
    ASSUME IInv, PartsInv, AssemblyInvariant, NEW x \in 0..(position - 1),
           NEW j \in DOMAIN parts, x \in parts[j].first..(parts[j].end - 1)
    PROVE  Search(TruePath(x)) =
               {k \in DOMAIN parts : \E p \in parts[k].first..(parts[k].end - 1) :
                    IsPrefix(TruePath(x), TruePath(p))}
<1> DEFINE F(k) == parts[k].first
           E(k) == parts[k].end
           first(k) == FirstPath(built[k])
           upTo == {k \in DOMAIN built : first(k) = TruePath(x) \/ WalkOrder(first(k), TruePath(x))}
           last == {k \in upTo : \A l \in upTo : l <= k}
           inside == {k \in DOMAIN built : IsPrefix(TruePath(x), first(k))}
           spans == {k \in DOMAIN parts : \E p \in F(k)..(E(k) - 1) : IsPrefix(TruePath(x), TruePath(p))}
           N == Len(rows)
<1>1. /\ Len(built) = Len(parts) /\ built \in Seq(PartTypes) /\ parts \in Seq(PartType)
      /\ Len(parts) \in Nat /\ N = position /\ N \in Nat /\ Tree(rows)
  <2>1. /\ Len(built) = Len(parts) /\ built \in Seq(PartTypes) /\ parts \in Seq(PartType)
        /\ N = position /\ Tree(rows)
    BY DEF AssemblyInvariant, BuiltInv, IInv, TypeOK, PartsInv
  <2>2. QED
    BY <2>1, TreeLength, LenProperties
<1>2. DOMAIN built = DOMAIN parts /\ DOMAIN parts = 1..Len(parts)
  BY <1>1, LenProperties
<1>3. x \in 0..(N - 1)
  BY <1>1
<1>4. ASSUME NEW k \in DOMAIN parts
      PROVE  /\ F(k) \in Nat /\ E(k) \in Nat /\ F(k) < E(k)
             /\ F(k) \in 0..(N - 1)
             /\ \A p \in F(k)..(E(k) - 1) : p \in 0..(N - 1)
             /\ first(k) = PathOf(rows, F(k))
  <2> DEFINE f == parts[k].first
             e == parts[k].end
             part == built[k]
  <2>1. PartOf(scans, rows, part, f, e)
    BY PartsAreOfRows
  <2> HIDE DEF f, e, part
  <2>2. /\ f \in Nat /\ e \in Nat /\ f < e /\ f \in 0..(Len(rows) - 1)
        /\ \A p \in f..(e - 1) : p \in 0..(Len(rows) - 1)
    BY <2>1, PartOfFacts
  <2>3. FirstPath(part) = PathOf(rows, f)
    BY <2>1, FirstPathIs
  <2>4. QED
    BY <2>2, <2>3 DEF f, e, part
<1>5. ASSUME NEW k \in DOMAIN parts, NEW l \in DOMAIN parts, k < l PROVE E(k) <= F(l)
  <2>1. Tiles(parts)
    BY DEF IInv, TilesInv, PartsTile
  <2>2. QED
    BY <1>1, <1>2, <1>5, <2>1, TilesInOrder
<1>6. ASSUME NEW p \in 0..(N - 1) PROVE TruePath(p) = PathOf(rows, p)
  BY <1>1, TrueIs
<1>7. x \in F(j)..(E(j) - 1)
  OBVIOUS
<1>8. Search(TruePath(x)) = last \union inside
  BY DEF Search
<1> HIDE DEF F, E, first
<1>9. ASSUME NEW k \in DOMAIN parts PROVE k \in upTo <=> k <= j
  <2>1. F(k) \in 0..(N - 1) /\ first(k) = PathOf(rows, F(k)) /\ TruePath(x) = PathOf(rows, x)
    BY <1>3, <1>4, <1>6
  <2>2. k \in upTo <=> F(k) <= x
    <3>1. k \in upTo <=> F(k) = x \/ F(k) < x
      BY <1>1, <1>2, <1>3, <2>1, WalkOrderIsPositions
    <3>2. QED
      BY <1>3, <2>1, <3>1
  <2>3. k \in Nat /\ j \in Nat
    BY <1>2
  <2>4. /\ F(k) \in Nat /\ E(k) \in Nat /\ F(k) < E(k)
        /\ F(j) \in Nat /\ E(j) \in Nat
    BY <1>4
  <2>5. CASE k = j
    BY <1>7, <2>2, <2>3, <2>4, <2>5
  <2>6. CASE k < j
    <3>1. E(k) <= F(j)
      BY <1>5, <2>6
    <3>2. F(k) <= x
      BY <1>7, <2>4, <3>1
    <3>3. QED
      BY <2>2, <2>3, <2>6, <3>2
  <2>7. CASE j < k
    <3>1. E(j) <= F(k)
      BY <1>5, <2>7
    <3>2. ~(F(k) <= x)
      BY <1>7, <2>4, <3>1
    <3>3. QED
      BY <2>2, <2>3, <2>7, <3>2
  <2>8. QED
    BY <2>3, <2>5, <2>6, <2>7
<1>10. last = {j}
  <2>1. j \in upTo /\ \A k \in upTo : k \in DOMAIN parts /\ k <= j
    BY <1>2, <1>9
  <2>2. DOMAIN parts = 1..Len(parts)
    BY <1>2
  <2> HIDE DEF upTo
  <2>3. ASSUME NEW k \in last PROVE k = j
    <3>1. k \in upTo /\ j <= k /\ k <= j
      BY <2>1
    <3>2. k \in Nat /\ j \in Nat
      BY <2>1, <2>2, <3>1
    <3>3. QED
      BY <3>1, <3>2
  <2>4. j \in last
    BY <2>1
  <2>5. QED
    BY <2>3, <2>4
<1>11. ASSUME NEW k \in DOMAIN parts PROVE k \in inside <=> Inside(rows, x, F(k))
  <2>1. F(k) \in 0..(N - 1) /\ first(k) = PathOf(rows, F(k)) /\ TruePath(x) = PathOf(rows, x)
    BY <1>3, <1>4, <1>6
  <2>2. QED
    BY <1>1, <1>2, <1>3, <2>1, InsideIsPrefix
<1>12. ASSUME NEW k \in DOMAIN parts
       PROVE  k \in spans <=> \E p \in F(k)..(E(k) - 1) : Inside(rows, x, p)
  <2>1. ASSUME NEW p \in F(k)..(E(k) - 1)
        PROVE  IsPrefix(TruePath(x), TruePath(p)) <=> Inside(rows, x, p)
    <3>1. p \in 0..(N - 1)
      BY <1>4
    <3>2. TruePath(x) = PathOf(rows, x) /\ TruePath(p) = PathOf(rows, p)
      BY <1>3, <1>6, <3>1
    <3>3. QED
      BY <1>1, <1>3, <3>1, <3>2, InsideIsPrefix
  <2>2. QED
    BY <2>1
<1>13. ASSUME NEW k \in DOMAIN parts
       PROVE  (k = j \/ Inside(rows, x, F(k))) <=> \E p \in F(k)..(E(k) - 1) : Inside(rows, x, p)
  <2>0. /\ F(k) \in Nat /\ E(k) \in Nat /\ F(k) < E(k)
        /\ F(j) \in Nat /\ E(j) \in Nat /\ k \in Nat /\ j \in Nat
    BY <1>2, <1>4
  <2>1. CASE k = j
    <3>1. Inside(rows, x, x)
      BY <1>3 DEF Inside
    <3>2. QED
      BY <1>7, <2>1, <3>1
  <2>2. ASSUME Inside(rows, x, F(k)) PROVE \E p \in F(k)..(E(k) - 1) : Inside(rows, x, p)
    <3>1. F(k) \in F(k)..(E(k) - 1)
      BY <2>0
    <3>2. QED
      BY <2>2, <3>1
  <2>3. ASSUME k # j, NEW p \in F(k)..(E(k) - 1), Inside(rows, x, p)
        PROVE  Inside(rows, x, F(k))
    <3>1. x <= p /\ \A r \in (x + 1)..p : rows[r + 1].depth > rows[x + 1].depth
      BY <2>3 DEF Inside
    <3>2. ~(k < j)
      <4>1. ASSUME k < j PROVE FALSE
        <5>1. E(k) <= F(j)
          BY <1>5, <4>1
        <5>2. QED
          BY <1>3, <1>7, <2>0, <3>1, <5>1
      <4>2. QED
        BY <4>1
    <3>3. j < k
      BY <2>0, <2>3, <3>2
    <3>4. E(j) <= F(k)
      BY <1>5, <3>3
    <3>5. x <= F(k) /\ \A r \in (x + 1)..F(k) : r \in (x + 1)..p
      BY <1>3, <1>7, <2>0, <3>4
    <3>6. QED
      BY <3>1, <3>5 DEF Inside
  <2>4. QED
    BY <2>1, <2>2, <2>3
<1>14. last \union inside = spans
  <2>1. last \subseteq DOMAIN parts /\ inside \subseteq DOMAIN parts /\ spans \subseteq DOMAIN parts
    BY <1>2
  <2> HIDE DEF last, inside, spans
  <2>2. ASSUME NEW k \in DOMAIN parts PROVE k \in last \union inside <=> k \in spans
    BY <1>10, <1>11, <1>12, <1>13
  <2>3. QED
    BY <2>1, <2>2
<1>15. QED
  BY <1>8, <1>14 DEF F, E

\* A directory is found by the first paths of the parts alone, however deep it is and
\* wherever its rows were cut: the search gives the parts that have a row of it, its
\* own row among them, and no other.
THEOREM DirectoriesAreFound == AssemblySpec => []SearchFindsDirectory
<1>1. ASSUME IInv, PartsInv, AssemblyInvariant
      PROVE  SearchFindsDirectory
  <2>1. SUFFICES ASSUME pc = "done", NEW d \in Directories
                 PROVE  Search(TruePath(d - 1)) =
                            {k \in DOMAIN parts : \E p \in parts[k].first..(parts[k].end - 1) :
                                 IsPrefix(TruePath(d - 1), TruePath(p))}
    BY DEF SearchFindsDirectory
  <2> DEFINE x == d - 1
  <2>2. /\ Tiles(parts) /\ position = SealedEnd(parts)
        /\ parts \in Seq(PartType) /\ Len(rows) = position /\ Tree(rows)
    BY <1>1, <2>1 DEF IInv, TypeOK, TilesInv, PartsTile, PartsInv, AssemblyInvariant
  <2>3. DOMAIN rows = 1..Len(rows) /\ Len(rows) \in Nat
    BY <2>2, TreeLength, LenProperties DEF Tree
  <2>4. x \in 0..(position - 1) /\ x \in Nat /\ x < SealedEnd(parts)
    BY <2>2, <2>3 DEF Directories
  <2> HIDE DEF x
  <2>5. PICK j \in 1..Len(parts) : x \in parts[j].first..(parts[j].end - 1)
    BY <2>2, <2>4, EachRowIsInAPart
  <2>6. j \in DOMAIN parts
    BY <2>2, LenProperties
  <2>7. Search(TruePath(x)) =
            {k \in DOMAIN parts : \E p \in parts[k].first..(parts[k].end - 1) :
                 IsPrefix(TruePath(x), TruePath(p))}
    BY <1>1, <2>4, <2>5, <2>6, SearchIs
  <2>8. QED
    BY <2>7 DEF x
<1>2. QED
  BY <1>1, AssemblyKept, PTL
=============================================================================
