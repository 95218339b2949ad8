----------------------------- MODULE ScanProofs -----------------------------
(***************************************************************************)
(* Proofs about Scan.  The first part is about paths and walk order, the   *)
(* listing windows, the held directories and the jobs of a level, as       *)
(* operators; the second shows that every action keeps BaseInv; the third  *)
(* that every action keeps ReadInv, and what follows for the rows; the     *)
(* last that every action keeps CallsInv, and what follows for the calls.  *)
(***************************************************************************)
EXTENDS ScanInv, NatInduction, SequenceTheorems, TLAPS

-----------------------------------------------------------------------------
(* Walk order.                                                             *)

\* An entry is below its directory, and not the directory or a sibling's.
LEMMA PathFacts ==
    ASSUME NEW d \in Seq(Nat), NEW p \in Nat
    PROVE  /\ Append(d, p) \in Seq(Nat) /\ Append(d, p) # <<>>
           /\ Len(Append(d, p)) = Len(d) + 1
           /\ DOMAIN Append(d, p) = 1..(Len(d) + 1)
           /\ \A l \in 1..Len(d) : Append(d, p)[l] = d[l]
           /\ Append(d, p)[Len(d) + 1] = p
           /\ Front(Append(d, p)) = d /\ Last(Append(d, p)) = p
<1>1. /\ Append(d, p) \in Seq(Nat) /\ Append(d, p) # <<>>
      /\ Len(Append(d, p)) = Len(d) + 1
      /\ \A l \in 1..Len(d) : Append(d, p)[l] = d[l]
      /\ Append(d, p)[Len(d) + 1] = p
  BY AppendProperties
<1>2. DOMAIN Append(d, p) = 1..(Len(d) + 1) /\ Len(d) \in Nat
  BY <1>1, LenProperties
<1>3. Front(Append(d, p)) = d
  <2> DEFINE q == Append(d, p)
  <2>1. \A l \in 1..(Len(q) - 1) : q[l] \in Nat
    BY <1>1, <1>2, ElementOfSeq
  <2>2. /\ SubSeq(q, 1, Len(q) - 1) \in Seq(Nat)
        /\ Len(SubSeq(q, 1, Len(q) - 1)) = Len(d)
        /\ \A l \in 1..Len(d) : SubSeq(q, 1, Len(q) - 1)[l] = q[l]
    BY <1>1, <1>2, <2>1, SubSeqProperties
  <2>3. SubSeq(q, 1, Len(q) - 1) = d
    BY <1>1, <2>2, SeqEqual
  <2>4. QED
    BY <2>3 DEF Front
<1>4. Last(Append(d, p)) = p
  BY <1>1 DEF Last
<1>5. QED
  BY <1>1, <1>2, <1>3, <1>4

LEMMA SamePath ==
    ASSUME NEW d \in Seq(Nat), NEW p \in Nat, NEW e \in Seq(Nat), NEW q \in Nat,
           Append(d, p) = Append(e, q)
    PROVE  d = e /\ p = q
<1>1. Front(Append(d, p)) = d /\ Last(Append(d, p)) = p
  BY PathFacts
<1>2. Front(Append(e, q)) = e /\ Last(Append(e, q)) = q
  BY PathFacts
<1>3. QED
  BY <1>1, <1>2

LEMMA BeforeIsNot ==
    ASSUME NEW p \in Seq(Nat), NEW q \in Seq(Nat), Before(p, q)
    PROVE  p # q /\ ~Before(q, p)
<1>1. DOMAIN p = 1..Len(p) /\ DOMAIN q = 1..Len(q) /\ Len(p) \in Nat /\ Len(q) \in Nat
  BY LenProperties
<1>2. (\A l \in DOMAIN p : p[l] \in Nat) /\ (\A l \in DOMAIN q : q[l] \in Nat)
  BY <1>1, ElementOfSeq
<1>3. PICK k \in DOMAIN q :
          /\ \A l \in 1..(k - 1) : l \in DOMAIN p /\ p[l] = q[l]
          /\ k \in DOMAIN p => p[k] < q[k]
  BY DEF Before
<1>4. p # q
  BY <1>1, <1>2, <1>3
<1>5. ASSUME NEW j \in DOMAIN p,
             \A l \in 1..(j - 1) : l \in DOMAIN q /\ q[l] = p[l],
             j \in DOMAIN q => q[j] < p[j]
      PROVE  FALSE
  <2>1. CASE j < k
    <3>1. j \in 1..(k - 1) /\ j \in DOMAIN q
      BY <1>1, <1>3, <2>1
    <3>2. QED
      BY <1>2, <1>3, <1>5, <3>1
  <2>2. CASE k < j
    <3>1. k \in 1..(j - 1) /\ k \in DOMAIN p
      BY <1>1, <1>3, <1>5, <2>2
    <3>2. QED
      BY <1>2, <1>3, <1>5, <3>1
  <2>3. CASE k = j
    BY <1>2, <1>3, <1>5, <2>3
  <2>4. QED
    BY <1>1, <1>3, <1>5, <2>1, <2>2, <2>3
<1>6. QED
  BY <1>4, <1>5 DEF Before

LEMMA BeforeTransitive ==
    ASSUME NEW p \in Seq(Nat), NEW q \in Seq(Nat), NEW r \in Seq(Nat),
           Before(p, q), Before(q, r)
    PROVE  Before(p, r)
<1>1. /\ DOMAIN p = 1..Len(p) /\ DOMAIN q = 1..Len(q) /\ DOMAIN r = 1..Len(r)
      /\ Len(p) \in Nat /\ Len(q) \in Nat /\ Len(r) \in Nat
  BY LenProperties
<1>2. /\ \A l \in DOMAIN p : p[l] \in Nat
      /\ \A l \in DOMAIN q : q[l] \in Nat
      /\ \A l \in DOMAIN r : r[l] \in Nat
  BY <1>1, ElementOfSeq
<1>3. PICK k \in DOMAIN q :
          /\ \A l \in 1..(k - 1) : l \in DOMAIN p /\ p[l] = q[l]
          /\ k \in DOMAIN p => p[k] < q[k]
  BY DEF Before
<1>4. PICK j \in DOMAIN r :
          /\ \A l \in 1..(j - 1) : l \in DOMAIN q /\ q[l] = r[l]
          /\ j \in DOMAIN q => q[j] < r[j]
  BY DEF Before
<1>5. CASE k < j
  <2>1. k \in 1..(j - 1) /\ k \in DOMAIN r
    BY <1>1, <1>5
  <2>4. q[k] = r[k]
    BY <1>4, <2>1
  <2>2. \A l \in 1..(k - 1) : l \in DOMAIN p /\ p[l] = r[l]
    <3>1. \A l \in 1..(k - 1) : l \in 1..(j - 1)
      BY <1>1, <1>3, <1>4, <1>5
    <3>2. QED
      BY <1>3, <1>4, <3>1
  <2>3. QED
    BY <1>3, <2>1, <2>4, <2>2 DEF Before
<1>6. CASE j <= k
  <2>1. \A l \in 1..(j - 1) : l \in DOMAIN p /\ p[l] = r[l]
    <3>1. \A l \in 1..(j - 1) : l \in 1..(k - 1)
      BY <1>1, <1>3, <1>4, <1>6
    <3>2. QED
      BY <1>3, <1>4, <3>1
  <2>2. j \in DOMAIN q
    BY <1>1, <1>3, <1>4, <1>6
  <2>3. j \in DOMAIN p => p[j] <= q[j]
    <3>1. j = k \/ j \in 1..(k - 1)
      BY <1>1, <1>3, <1>4, <1>6
    <3>2. CASE j = k
      BY <1>2, <1>3, <2>2, <3>2
    <3>3. CASE j \in 1..(k - 1)
      <4>1. p[j] = q[j] /\ j \in DOMAIN p
        BY <1>3, <3>3
      <4>2. p[j] \in Int
        BY <1>2, <4>1
      <4>3. QED
        BY <4>1, <4>2
    <3>4. QED
      BY <3>1, <3>2, <3>3
  <2>4. j \in DOMAIN p => p[j] < r[j]
    BY <1>2, <1>4, <2>2, <2>3
  <2>5. QED
    BY <2>1, <2>4 DEF Before
<1>7. QED
  BY <1>1, <1>3, <1>4, <1>5, <1>6

\* The entries of a directory come after it and in the order of their places.
LEMMA EntriesInOrder ==
    ASSUME NEW d \in Seq(Nat), NEW p \in Nat, NEW q \in Nat
    PROVE  /\ Before(d, Append(d, p))
           /\ p < q => Before(Append(d, p), Append(d, q))
<1>1. Len(d) \in Nat /\ DOMAIN d = 1..Len(d)
  BY LenProperties
<1>2. Len(d) + 1 \in DOMAIN Append(d, p) /\ Len(d) + 1 \notin DOMAIN d
  BY <1>1, PathFacts
<1>3. Before(d, Append(d, p))
  BY <1>1, <1>2, PathFacts DEF Before
<1>4. ASSUME p < q
      PROVE  Before(Append(d, p), Append(d, q))
  <2>1. Len(d) + 1 \in DOMAIN Append(d, q)
    BY <1>1, PathFacts
  <2>2. \A l \in 1..((Len(d) + 1) - 1) :
            l \in DOMAIN Append(d, p) /\ Append(d, p)[l] = Append(d, q)[l]
    BY <1>1, PathFacts
  <2>3. Append(d, p)[Len(d) + 1] < Append(d, q)[Len(d) + 1]
    BY <1>4, PathFacts
  <2>4. QED
    BY <2>1, <2>2, <2>3 DEF Before
<1>5. QED
  BY <1>3, <1>4

\* What is before the first place of a directory is before all of it.
LEMMA BeforeEntries ==
    ASSUME NEW r \in Seq(Nat), NEW d \in Seq(Nat), NEW p \in Nat,
           Before(r, Append(d, 0))
    PROVE  Before(r, Append(d, p))
<1>1. 0 < p \/ p = 0
  OBVIOUS
<1>2. Append(d, 0) \in Seq(Nat) /\ Append(d, p) \in Seq(Nat)
  BY PathFacts
<1>3. 0 < p => Before(Append(d, 0), Append(d, p))
  BY EntriesInOrder
<1>4. QED
  BY <1>1, <1>2, <1>3, BeforeTransitive

\* A path is before what comes after it in a directory above it.
LEMMA InsideBefore ==
    ASSUME NEW s \in Seq(Nat), NEW d \in Seq(Nat), NEW p \in Nat,
           Len(d) < Len(s), \A l \in 1..Len(d) : d[l] = s[l],
           s[Len(d) + 1] < p
    PROVE  Before(s, Append(d, p))
<1>1. Len(d) \in Nat /\ Len(s) \in Nat /\ DOMAIN s = 1..Len(s)
  BY LenProperties
<1>2. Len(d) + 1 \in DOMAIN Append(d, p)
  BY <1>1, PathFacts
<1>3. \A l \in 1..((Len(d) + 1) - 1) : l \in DOMAIN s /\ s[l] = Append(d, p)[l]
  BY <1>1, PathFacts
<1>4. s[Len(d) + 1] < Append(d, p)[Len(d) + 1]
  BY PathFacts
<1>5. QED
  BY <1>2, <1>3, <1>4 DEF Before

-----------------------------------------------------------------------------
(* Listing windows.                                                        *)

\* A window ends after it starts, within the listing.
LEMMA WindowEndFacts ==
    ASSUME NEW listing \in Seq(Kinds), NEW start \in 0..Len(listing)
    PROVE  /\ WindowEnd(listing, start) \in start..Len(listing)
           /\ start < Len(listing) => start < WindowEnd(listing, start)
<1> DEFINE last == Lesser(Len(listing), start + WindowEntries)
           full == {p \in (start + 1)..last :
                        /\ listing[p] = "directory"
                        /\ Directories(listing, start, p) = WindowDirectories}
<1>1. Len(listing) \in Nat /\ WindowEntries \in Nat \ {0}
  BY LenProperties, ScanAssumption
<1>2. last \in start..Len(listing) /\ (start < Len(listing) => start < last)
  BY <1>1 DEF Lesser
<1>3. WindowEnd(listing, start) = IF full = {} THEN last ELSE CHOOSE p \in full : TRUE
  BY DEF WindowEnd
<1> HIDE DEF last
<1>4. full # {} => (CHOOSE p \in full : TRUE) \in (start + 1)..last
  <2>1. full \subseteq (start + 1)..last
    OBVIOUS
  <2> HIDE DEF full
  <2>2. QED
    BY <2>1
<1>5. QED
  <2> HIDE DEF full
  <2>1. QED
    BY <1>1, <1>2, <1>3, <1>4

\* One step of the walk through the windows.
Onward(listing, from, start) ==
    IF start = Len(listing) THEN <<>> ELSE <<start>> \o from[WindowEnd(listing, start)]

LEMMA OnwardExists ==
    ASSUME NEW listing \in Seq(Kinds)
    PROVE  \E from : from = [start \in 0..Len(listing) |-> Onward(listing, from, start)]
<1> DEFINE N == Len(listing)
           S == {n \in 0..N : \E from :
                    from = [start \in (N - n)..N |-> Onward(listing, from, start)]}
<1>1. N \in Nat
  BY LenProperties
<1> HIDE DEF N
<1>2. 0 \in S
  <2> DEFINE e == [start \in (N - 0)..N |-> <<>>]
  <2>1. \A start \in (N - 0)..N : start = N
    BY <1>1
  <2>2. e = [start \in (N - 0)..N |-> Onward(listing, e, start)]
    BY <2>1 DEF Onward, N
  <2> HIDE DEF e
  <2>3. \E from : from = [start \in (N - 0)..N |-> Onward(listing, from, start)]
    BY <2>2
  <2>4. QED
    BY <1>1, <2>3
<1>3. ASSUME NEW n \in 0..(N - 1), n \in S
      PROVE  n + 1 \in S
  <2>1. PICK from : from = [start \in (N - n)..N |-> Onward(listing, from, start)]
    BY <1>3
  <2> DEFINE m == N - (n + 1)
             u == [start \in m..N |->
                      IF start = m THEN Onward(listing, from, start) ELSE from[start]]
  <2>2. m \in Nat /\ m < N /\ N - n = m + 1
    BY <1>1
  <2> HIDE DEF m
  <2>3. ASSUME NEW start \in m..N
        PROVE  u[start] = Onward(listing, u, start)
    <3>1. start \in 0..N
      BY <1>1, <2>2
    <3>2. WindowEnd(listing, start) \in start..N
          /\ (start < N => start < WindowEnd(listing, start))
      BY <3>1, WindowEndFacts DEF N
    <3> DEFINE w == WindowEnd(listing, start)
    <3>3. start < N => w \in m..N /\ w # m
      BY <1>1, <2>2, <3>2
    <3> HIDE DEF w
    <3>4. start < N => u[w] = from[w]
      BY <3>3
    <3>5. Onward(listing, u, start) = Onward(listing, from, start)
      <4>1. CASE start = N
        BY <4>1 DEF Onward, N
      <4>2. CASE start < N
        <5> HIDE DEF u
        <5>1. start # N
          BY <1>1, <3>1, <4>2
        <5>2. \A f : Onward(listing, f, start) = <<start>> \o f[w]
          BY <5>1 DEF Onward, w, N
        <5>3. QED
          BY <3>4, <4>2, <5>2
      <4>3. QED
        BY <1>1, <3>1, <4>1, <4>2
    <3>6. CASE start = m
      BY <3>5, <3>6
    <3>7. CASE start # m
      <4>1. start \in (N - n)..N
        BY <1>1, <2>2, <3>7
      <4>2. from[start] = Onward(listing, from, start)
        BY <2>1, <4>1
      <4>3. QED
        BY <3>5, <3>7, <4>2
    <3>8. QED
      BY <3>6, <3>7
  <2>4. u = [start \in m..N |-> u[start]]
    OBVIOUS
  <2> HIDE DEF u
  <2>5. u = [start \in m..N |-> Onward(listing, u, start)]
    BY <2>3, <2>4
  <2>6. n + 1 \in 0..N
    BY <1>1
  <2>7. QED
    BY <2>5, <2>6 DEF m
<1>4. N \in S
  <2> HIDE DEF S
  <2>1. \A n \in 0..N : n \in S
    BY <1>1, <1>2, <1>3, InductionUpTo
  <2>2. QED
    BY <1>1, <2>1
<1>5. PICK from : from = [start \in (N - N)..N |-> Onward(listing, from, start)]
  BY <1>4
<1>6. N - N = 0
  BY <1>1
<1>7. QED
  BY <1>5, <1>6 DEF N

\* The windows that start at the places starts are, one after the other, all of
\* the listing after place from.
Tiles(listing, starts, from) ==
    /\ starts \in Seq(Nat)
    /\ from = Len(listing) => starts = <<>>
    /\ from < Len(listing) => starts # <<>> /\ starts[1] = from
    /\ \A n \in 1..Len(starts) :
          /\ starts[n] \in from..(Len(listing) - 1)
          /\ WindowEnd(listing, starts[n])
                 = IF n < Len(starts) THEN starts[n + 1] ELSE Len(listing)

LEMMA TilesOnward ==
    ASSUME NEW listing \in Seq(Kinds), NEW start \in 0..(Len(listing) - 1), NEW rest,
           Tiles(listing, rest, WindowEnd(listing, start))
    PROVE  Tiles(listing, <<start>> \o rest, start)
<1> DEFINE w == WindowEnd(listing, start)
           starts == <<start>> \o rest
<1>1. Len(listing) \in Nat /\ start \in 0..Len(listing)
  BY LenProperties
<1>2. w \in (start + 1)..Len(listing)
  BY <1>1, WindowEndFacts
<1>3. rest \in Seq(Nat) /\ <<start>> \in Seq(Nat) /\ Len(<<start>>) = 1
  BY DEF Tiles
<1>4. /\ starts \in Seq(Nat)
      /\ Len(starts) = 1 + Len(rest)
      /\ \A n \in 1..(1 + Len(rest)) :
            starts[n] = IF n <= 1 THEN <<start>>[n] ELSE rest[n - 1]
  BY <1>3, ConcatProperties
<1>5. Len(rest) \in Nat
  BY <1>3, LenProperties
<1> HIDE DEF starts
<1>6. starts # <<>> /\ starts[1] = start
  <2>1. Len(starts) # 0
    BY <1>4, <1>5
  <2>2. QED
    BY <1>4, <1>5, <2>1, EmptySeq
<1>7. ASSUME NEW n \in 1..Len(starts)
      PROVE  /\ starts[n] \in start..(Len(listing) - 1)
             /\ WindowEnd(listing, starts[n])
                    = IF n < Len(starts) THEN starts[n + 1] ELSE Len(listing)
  <2>1. CASE n = 1
    <3>1. CASE rest = <<>>
      <4>1. Len(rest) = 0
        BY <3>1
      <4>2. w = Len(listing)
        BY <1>1, <1>2, <3>1 DEF Tiles
      <4>3. QED
        BY <1>1, <1>4, <1>6, <2>1, <4>1, <4>2
    <3>2. CASE rest # <<>>
      <4>1. Len(rest) > 0
        BY <1>3, <1>5, <3>2, EmptySeq
      <4>2. rest[1] = w
        BY <1>1, <1>2, <3>2 DEF Tiles
      <4>3. starts[2] = rest[1]
        BY <1>4, <1>5, <4>1
      <4>4. QED
        BY <1>1, <1>4, <1>5, <1>6, <2>1, <4>1, <4>2, <4>3
    <3>3. QED
      BY <3>1, <3>2
  <2>2. CASE n > 1
    <3>1. n - 1 \in 1..Len(rest)
      BY <1>4, <1>5, <2>2
    <3>2. starts[n] = rest[n - 1]
      BY <1>4, <1>5, <2>2
    <3>3. /\ rest[n - 1] \in w..(Len(listing) - 1)
          /\ WindowEnd(listing, rest[n - 1])
                 = IF n - 1 < Len(rest) THEN rest[(n - 1) + 1] ELSE Len(listing)
      BY <3>1 DEF Tiles
    <3>4. n < Len(starts) => starts[n + 1] = rest[n]
      BY <1>4, <1>5, <2>2
    <3>5. (n - 1) + 1 = n /\ (n - 1 < Len(rest) <=> n < Len(starts))
      BY <1>4, <1>5
    <3>6. rest[n - 1] \in start..(Len(listing) - 1)
      BY <1>1, <1>2, <3>3
    <3>7. QED
      BY <3>2, <3>3, <3>4, <3>5, <3>6
  <2>3. QED
    BY <1>4, <1>5, <2>1, <2>2
<1>8. QED
  BY <1>1, <1>4, <1>6, <1>7 DEF Tiles, starts

\* The later jobs read what the first window leaves.
LEMMA LaterStartsTile ==
    ASSUME NEW listing \in Seq(Kinds)
    PROVE  Tiles(listing, LaterStarts(listing), WindowEnd(listing, 0))
<1> DEFINE N == Len(listing)
           from == CHOOSE f : f = [start \in 0..N |-> Onward(listing, f, start)]
           S == {n \in 0..N : \A start \in (N - n)..N : Tiles(listing, from[start], start)}
<1>1. N \in Nat
  BY LenProperties
<1>2. from = [start \in 0..N |-> Onward(listing, from, start)]
  BY OnwardExists
<1>3. LaterStarts(listing) = from[WindowEnd(listing, 0)]
  BY DEF LaterStarts, Onward
<1> HIDE DEF N, from
<1>4. 0 \in S
  <2>1. \A start \in (N - 0)..N : start = N
    BY <1>1
  <2>2. from[N] = <<>>
    BY <1>1, <1>2 DEF Onward, N
  <2>3. Tiles(listing, <<>>, N)
    BY <1>1 DEF Tiles, N
  <2>4. QED
    BY <1>1, <2>1, <2>2, <2>3
<1>5. ASSUME NEW n \in 0..(N - 1), n \in S
      PROVE  n + 1 \in S
  <2>1. ASSUME NEW start \in (N - (n + 1))..N
        PROVE  Tiles(listing, from[start], start)
    <3>1. CASE start \in (N - n)..N
      BY <1>5, <3>1
    <3>2. CASE start = N - (n + 1)
      <4>1. start \in 0..(N - 1) /\ start \in 0..N /\ start # N
        BY <1>1, <3>2
      <4>7. WindowEnd(listing, start) \in start..N /\ start < WindowEnd(listing, start)
        BY <1>1, <4>1, WindowEndFacts DEF N
      <4>2. WindowEnd(listing, start) \in (start + 1)..N
        BY <1>1, <4>1, <4>7
      <4>3. WindowEnd(listing, start) \in (N - n)..N
        BY <1>1, <3>2, <4>2
      <4>4. Tiles(listing, from[WindowEnd(listing, start)], WindowEnd(listing, start))
        BY <1>5, <4>3
      <4>5. from[start] = <<start>> \o from[WindowEnd(listing, start)]
        BY <1>2, <4>1 DEF Onward, N
      <4>6. QED
        BY <4>1, <4>4, <4>5, TilesOnward DEF N
    <3>3. QED
      BY <1>1, <3>1, <3>2
  <2>2. n + 1 \in 0..N
    BY <1>1
  <2>3. QED
    BY <2>1, <2>2
<1>6. \A n \in 0..N : n \in S
  <2> HIDE DEF S
  <2>1. QED
    BY <1>1, <1>4, <1>5, InductionUpTo
<1>7. N \in S /\ N - N = 0
  BY <1>1, <1>6
<1>8. WindowEnd(listing, 0) \in (N - N)..N
  BY <1>1, WindowEndFacts DEF N
<1>9. QED
  BY <1>3, <1>7, <1>8

-----------------------------------------------------------------------------
(* Counting the jobs that hold a directory.                                *)

LEMMA HoldersFinite ==
    ASSUME NEW jobs \in Seq(JobType)
    PROVE  /\ Holders(jobs) \subseteq 1..Len(jobs)
           /\ IsFiniteSet(Holders(jobs)) /\ Holding(jobs) \in Nat
           /\ Holding(jobs) = 0 <=> \A n \in DOMAIN jobs : ~jobs[n].opened
<1>1. Len(jobs) \in Nat /\ DOMAIN jobs = 1..Len(jobs)
  BY LenProperties
<1>2. Holders(jobs) \subseteq 1..Len(jobs)
  BY <1>1 DEF Holders
<1>3. IsFiniteSet(1..Len(jobs))
  BY <1>1, FS_Interval
<1>4. IsFiniteSet(Holders(jobs))
  BY <1>2, <1>3, FS_Subset
<1>5. Holding(jobs) \in Nat /\ (Holding(jobs) = 0 <=> Holders(jobs) = {})
  BY <1>4, FS_CardinalityType, FS_EmptySet DEF Holding
<1>6. QED
  BY <1>2, <1>4, <1>5 DEF Holders

LEMMA HoldingNone == Holding(<<>>) = 0
<1>1. Holders(<<>>) = {}
  BY DEF Holders
<1>2. QED
  BY <1>1, FS_EmptySet DEF Holding

LEMMA HoldingOne ==
    ASSUME NEW job \in JobType
    PROVE  Holding(<<job>>) = IF job.opened THEN 1 ELSE 0
<1>1. Holders(<<job>>) = IF job.opened THEN {1} ELSE {}
  BY DEF Holders
<1>2. QED
  BY <1>1, FS_EmptySet, FS_Singleton DEF Holding

LEMMA HoldingAppend ==
    ASSUME NEW jobs \in Seq(JobType), NEW job \in JobType
    PROVE  Holding(Append(jobs, job)) = Holding(jobs) + Holding(<<job>>)
<1> DEFINE more == Append(jobs, job)
           n == Len(jobs) + 1
<1>1. Len(jobs) \in Nat /\ DOMAIN jobs = 1..Len(jobs)
  BY LenProperties
<1>2. /\ more \in Seq(JobType) /\ Len(more) = n /\ more[n] = job
      /\ \A k \in 1..Len(jobs) : more[k] = jobs[k]
  BY AppendProperties
<1>3. DOMAIN more = 1..n
  BY <1>2, LenProperties
<1> HIDE DEF more
<1>4. Holders(more) = Holders(jobs) \union (IF job.opened THEN {n} ELSE {})
  BY <1>1, <1>2, <1>3 DEF Holders
<1>5. n \notin Holders(jobs)
  BY <1>1, HoldersFinite
<1>6. /\ Cardinality(Holders(jobs) \union {n}) = Cardinality(Holders(jobs)) + 1
      /\ Cardinality(Holders(jobs)) \in Nat
  BY <1>5, HoldersFinite, FS_AddElement DEF Holding
<1>7. CASE job.opened
  BY <1>4, <1>6, <1>7, HoldingOne DEF Holding, more
<1>8. CASE ~job.opened
  <2>1. Holders(more) = Holders(jobs)
    BY <1>4, <1>8
  <2>2. QED
    BY <1>6, <1>8, <2>1, HoldingOne DEF Holding, more
<1>9. QED
  BY <1>7, <1>8

LEMMA HoldingTail ==
    ASSUME NEW jobs \in Seq(JobType), jobs # <<>>
    PROVE  Holding(jobs) = Holding(<<Head(jobs)>>) + Holding(Tail(jobs))
<1> DEFINE less == Tail(jobs)
           Others == {n \in Holders(jobs) : n # 1}
           f == [n \in Others |-> n - 1]
<1>1. Len(jobs) \in Nat /\ Len(jobs) > 0 /\ DOMAIN jobs = 1..Len(jobs)
  BY LenProperties, EmptySeq
<1>2. /\ less \in Seq(JobType) /\ Len(less) = Len(jobs) - 1
      /\ \A n \in 1..Len(less) : less[n] = jobs[n + 1]
      /\ Head(jobs) \in JobType /\ Head(jobs) = jobs[1]
  BY HeadTailProperties
<1>3. DOMAIN less = 1..Len(less)
  BY <1>2, LenProperties
<1> HIDE DEF less
<1>4. \A n \in Others : n \in 2..Len(jobs) /\ jobs[n].opened
  BY <1>1 DEF Holders
<1>5. f \in Bijection(Others, Holders(less))
  <2>1. \A n \in Others : n - 1 \in Holders(less)
    <3> TAKE n \in Others
    <3>1. n \in 2..Len(jobs) /\ jobs[n].opened
      BY <1>4
    <3>2. n - 1 \in 1..Len(less) /\ (n - 1) + 1 = n
      BY <1>1, <1>2, <3>1
    <3>3. less[n - 1] = jobs[n]
      BY <1>2, <3>2
    <3>4. QED
      BY <1>3, <3>1, <3>2, <3>3 DEF Holders
  <2>2. \A k \in Holders(less) : k + 1 \in Others /\ (k + 1) - 1 = k
    <3> TAKE k \in Holders(less)
    <3>1. k \in 1..Len(less) /\ less[k].opened
      BY <1>3 DEF Holders
    <3>2. k + 1 \in 1..Len(jobs) /\ k + 1 # 1 /\ (k + 1) - 1 = k
      BY <1>1, <1>2, <3>1
    <3>3. jobs[k + 1] = less[k]
      BY <1>2, <3>1
    <3>4. QED
      BY <1>1, <3>1, <3>2, <3>3 DEF Holders
  <2> HIDE DEF Others
  <2>3. f \in [Others -> Holders(less)]
    BY <2>1
  <2>4. \A a, b \in Others : f[a] = f[b] => a = b
    BY <1>1, <1>4
  <2>5. \A k \in Holders(less) : \E n \in Others : f[n] = k
    BY <2>2
  <2> HIDE DEF f
  <2>6. QED
    BY <2>3, <2>4, <2>5 DEF Bijection, Injection, Surjection, IsInjective
<1>6. IsFiniteSet(Others)
  <2>1. Others \subseteq Holders(jobs)
    OBVIOUS
  <2>2. QED
    BY <2>1, HoldersFinite, FS_Subset
<1>7. Cardinality(Others) = Holding(less)
  <2> HIDE DEF Others, f
  <2>1. QED
    BY <1>5, <1>6, FS_Bijection DEF Holding, ExistsBijection
<1>8. Holders(jobs) = Others \union (IF Head(jobs).opened THEN {1} ELSE {})
  BY <1>1, <1>2 DEF Holders
<1>9. 1 \notin Others
  OBVIOUS
<1> HIDE DEF Others
<1>10. Cardinality(Others \union {1}) = Cardinality(Others) + 1 /\ Cardinality(Others) \in Nat
  BY <1>6, <1>9, FS_AddElement, FS_CardinalityType
<1>11. CASE Head(jobs).opened
  BY <1>2, <1>7, <1>8, <1>10, <1>11, HoldingOne DEF Holding, less
<1>12. CASE ~Head(jobs).opened
  <2>1. Holders(jobs) = Others
    BY <1>8, <1>12
  <2>2. QED
    BY <1>2, <1>7, <1>10, <1>12, <2>1, HoldingOne DEF Holding, less
<1>13. QED
  BY <1>11, <1>12

\* The places of the jobs that hold their directory, on all levels.
Held(levels) == UNION {{k} \X Holders(levels[k].subdirs) : k \in DOMAIN levels}

LEMMA HeldByAppend ==
    ASSUME NEW levels \in Seq(LevelType), NEW level \in LevelType,
           IsFiniteSet(Held(levels))
    PROVE  /\ IsFiniteSet(Held(Append(levels, level)))
           /\ HeldBy(Append(levels, level)) = HeldBy(levels) + Holding(level.subdirs)
           /\ HeldBy(levels) \in Nat
<1> DEFINE more == Append(levels, level)
           n == Len(levels) + 1
           New == {n} \X Holders(level.subdirs)
           f == [j \in Holders(level.subdirs) |-> <<n, j>>]
<1>1. Len(levels) \in Nat /\ DOMAIN levels = 1..Len(levels)
  BY LenProperties
<1>2. /\ more \in Seq(LevelType) /\ Len(more) = n /\ more[n] = level
      /\ \A k \in 1..Len(levels) : more[k] = levels[k]
  BY AppendProperties
<1>3. DOMAIN more = 1..n
  BY <1>2, LenProperties
<1>4. level.subdirs \in Seq(JobType)
  BY DEF LevelType
<1> HIDE DEF more
<1>5. Held(more) = Held(levels) \union New
  <2>1. \A x : x \in Held(more)
            <=> \E k \in 1..n : x \in {k} \X Holders(more[k].subdirs)
    BY <1>3 DEF Held
  <2>2. \A x : x \in Held(levels)
            <=> \E k \in 1..Len(levels) : x \in {k} \X Holders(levels[k].subdirs)
    BY <1>1 DEF Held
  <2>3. \A k \in 1..n : k = n \/ k \in 1..Len(levels)
    BY <1>1
  <2>4. n \in 1..n /\ \A k \in 1..Len(levels) : k \in 1..n
    BY <1>1
  <2>5. QED
    BY <1>2, <2>1, <2>2, <2>3, <2>4
<1>6. Held(levels) \intersect New = {}
  <2>1. \A x \in Held(levels) : x[1] \in 1..Len(levels)
    BY <1>1 DEF Held
  <2>2. \A x \in New : x[1] = n
    OBVIOUS
  <2>3. n \notin 1..Len(levels)
    BY <1>1
  <2>4. QED
    BY <2>1, <2>2, <2>3
<1>7. IsFiniteSet(New) /\ Cardinality(New) = Holding(level.subdirs)
  <2>1. f \in [Holders(level.subdirs) -> New]
    OBVIOUS
  <2>2. \A a, b \in Holders(level.subdirs) : f[a] = f[b] => a = b
    OBVIOUS
  <2>3. \A x \in New : \E j \in Holders(level.subdirs) : f[j] = x
    OBVIOUS
  <2>4. f \in Bijection(Holders(level.subdirs), New)
    <3> HIDE DEF f, New
    <3>1. QED
      BY <2>1, <2>2, <2>3 DEF Bijection, Injection, Surjection, IsInjective
  <2>5. IsFiniteSet(Holders(level.subdirs))
    BY <1>4, HoldersFinite
  <2> HIDE DEF f, New
  <2>6. QED
    BY <2>4, <2>5, FS_Bijection DEF Holding, ExistsBijection
<1>8. Cardinality(Held(levels)) \in Nat /\ Holding(level.subdirs) \in Nat
  BY <1>4, HoldersFinite, FS_CardinalityType
<1>9. /\ IsFiniteSet(Held(levels) \union New)
      /\ Cardinality(Held(levels) \union New)
             = Cardinality(Held(levels)) + Cardinality(New) - Cardinality({})
  <2> HIDE DEF New
  <2>1. QED
    BY <1>6, <1>7, FS_Union
<1>10. Cardinality({}) = 0
  BY FS_EmptySet
<1>11. HeldBy(levels) = Cardinality(Held(levels)) /\ HeldBy(more) = Cardinality(Held(more))
  BY DEF HeldBy, Held
<1>12. QED
  <2> HIDE DEF New
  <2>1. QED
    BY <1>5, <1>7, <1>8, <1>9, <1>10, <1>11 DEF more

LEMMA HeldFinite ==
    ASSUME NEW levels \in Seq(LevelType)
    PROVE  IsFiniteSet(Held(levels)) /\ HeldBy(levels) \in Nat
<1> DEFINE N == Len(levels)
           S == {n \in 0..N : IsFiniteSet(Held(SubSeq(levels, 1, n)))}
<1>1. N \in Nat /\ DOMAIN levels = 1..N
  BY LenProperties
<1>2. 0 \in S
  <2>1. SubSeq(levels, 1, 0) = <<>>
    BY SubSeqEmpty
  <2>2. Held(<<>>) = {}
    BY DEF Held
  <2>3. IsFiniteSet(Held(SubSeq(levels, 1, 0)))
    BY <2>1, <2>2, FS_EmptySet
  <2>4. QED
    BY <1>1, <2>3
<1>3. ASSUME NEW n \in 0..(N - 1), n \in S
      PROVE  n + 1 \in S
  <2>1. n + 1 \in 1..N /\ n \in 0..N /\ (n + 1) - 1 = n /\ 1 \in 1..N /\ n + 1 \in 0..N
    BY <1>1
  <2>2. levels[n + 1] \in LevelType
    BY <2>1, ElementOfSeq
  <2>3. \A k \in 1..n : levels[k] \in LevelType
    BY <1>1, <2>1, ElementOfSeq
  <2>4. SubSeq(levels, 1, n) \in Seq(LevelType)
    BY <2>1, <2>3, SubSeqProperties
  <2>5. SubSeq(levels, 1, n + 1) = SubSeq(levels, 1, n) \o <<levels[n + 1]>>
    <3>1. n + 1 \in 1..Len(levels)
      BY <2>1
    <3>2. QED
      BY <2>1, <3>1, SubSeqRecursiveSecond
  <2>6. SubSeq(levels, 1, n + 1) = Append(SubSeq(levels, 1, n), levels[n + 1])
    BY <2>2, <2>4, <2>5, AppendIsConcat
  <2>7. IsFiniteSet(Held(SubSeq(levels, 1, n + 1)))
    BY <1>3, <2>2, <2>4, <2>6, HeldByAppend
  <2>8. QED
    BY <2>1, <2>7
<1>4. N \in S
  <2> HIDE DEF S
  <2>1. \A n \in 0..N : n \in S
    BY <1>1, <1>2, <1>3, InductionUpTo
  <2>2. QED
    BY <1>1, <2>1
<1>5. IsFiniteSet(Held(levels))
  BY <1>4, SubSeqFull
<1>6. QED
  BY <1>5, FS_CardinalityType DEF HeldBy, Held

\* The levels without the innermost, and with another one in its place.
LEMMA FrontAndLast ==
    ASSUME NEW T, NEW levels \in Seq(T), levels # <<>>, NEW level \in T
    PROVE  /\ Front(levels) \in Seq(T) /\ Len(Front(levels)) = Len(levels) - 1
           /\ \A k \in 1..(Len(levels) - 1) : Front(levels)[k] = levels[k]
           /\ Last(levels) \in T /\ Last(levels) = levels[Len(levels)]
           /\ levels = Append(Front(levels), Last(levels))
           /\ [levels EXCEPT ![Len(levels)] = level] = Append(Front(levels), level)
<1> DEFINE N == Len(levels)
<1>1. N \in Nat \ {0}
  BY EmptySeq
<1>2. \A k \in 1..N : levels[k] \in T
  BY ElementOfSeq
<1>3. /\ SubSeq(levels, 1, N - 1) \in Seq(T)
      /\ Len(SubSeq(levels, 1, N - 1)) = N - 1
      /\ \A k \in 1..(N - 1) : SubSeq(levels, 1, N - 1)[k] = levels[k]
  <2>1. N - 1 \in Int /\ \A k \in 1..(N - 1) : levels[k] \in T
    BY <1>1, <1>2
  <2>2. /\ SubSeq(levels, 1, N - 1) \in Seq(T)
        /\ Len(SubSeq(levels, 1, N - 1)) = IF 1 <= N - 1 THEN (N - 1) - 1 + 1 ELSE 0
        /\ \A k \in 1..((N - 1) - 1 + 1) : SubSeq(levels, 1, N - 1)[k] = levels[1 + k - 1]
    BY <2>1, SubSeqProperties
  <2>3. (N - 1) - 1 + 1 = N - 1 /\ \A k \in 1..(N - 1) : 1 + k - 1 = k
    BY <1>1
  <2>4. QED
    BY <1>1, <2>2, <2>3
<1>4. Last(levels) = levels[N] /\ levels[N] \in T
  BY <1>1, <1>2 DEF Last
<1>5. /\ Front(levels) \in Seq(T) /\ Len(Front(levels)) = N - 1
      /\ \A k \in 1..(N - 1) : Front(levels)[k] = levels[k]
  BY <1>3 DEF Front
<1>6. ASSUME NEW x \in T
      PROVE  /\ Append(Front(levels), x) \in Seq(T)
             /\ Len(Append(Front(levels), x)) = N
             /\ \A k \in 1..N :
                   Append(Front(levels), x)[k] = IF k = N THEN x ELSE levels[k]
  <2>1. /\ Append(Front(levels), x) \in Seq(T)
        /\ Len(Append(Front(levels), x)) = Len(Front(levels)) + 1
        /\ \A k \in 1..Len(Front(levels)) : Append(Front(levels), x)[k] = Front(levels)[k]
        /\ Append(Front(levels), x)[Len(Front(levels)) + 1] = x
    BY <1>5, AppendProperties
  <2>2. Len(Front(levels)) + 1 = N
    BY <1>1, <1>5
  <2>3. \A k \in 1..N : k = N \/ k \in 1..(N - 1)
    BY <1>1
  <2>4. QED
    BY <1>5, <2>1, <2>2, <2>3
<1>7. levels = Append(Front(levels), levels[N])
  BY <1>4, <1>6, SeqEqual
<1>8. [levels EXCEPT ![N] = level] = Append(Front(levels), level)
  <2>1. /\ [levels EXCEPT ![N] = level] \in Seq(T)
        /\ Len([levels EXCEPT ![N] = level]) = N
        /\ \A k \in 1..N : [levels EXCEPT ![N] = level][k] = IF k = N THEN level ELSE levels[k]
    BY <1>1, ExceptSeq
  <2> DEFINE e == [levels EXCEPT ![N] = level]
             a == Append(Front(levels), level)
  <2>2. a \in Seq(T) /\ Len(a) = N /\ \A k \in 1..N : a[k] = IF k = N THEN level ELSE levels[k]
    BY <1>6
  <2> HIDE DEF e, a
  <2>3. e \in Seq(T) /\ Len(e) = N /\ \A k \in 1..N : e[k] = IF k = N THEN level ELSE levels[k]
    BY <2>1 DEF e
  <2>4. e = a
    BY <2>2, <2>3, SeqEqual
  <2>5. QED
    BY <2>4 DEF e, a
<1>9. QED
  BY <1>4, <1>5, <1>7, <1>8

LEMMA HeldByLast ==
    ASSUME NEW levels \in Seq(LevelType), levels # <<>>, NEW level \in LevelType
    PROVE  /\ HeldBy(levels) = HeldBy(Front(levels)) + Holding(Last(levels).subdirs)
           /\ HeldBy([levels EXCEPT ![Len(levels)] = level])
                  = HeldBy(Front(levels)) + Holding(level.subdirs)
           /\ HeldBy(Front(levels)) \in Nat
<1>1. /\ Front(levels) \in Seq(LevelType) /\ Last(levels) \in LevelType
      /\ levels = Append(Front(levels), Last(levels))
      /\ [levels EXCEPT ![Len(levels)] = level] = Append(Front(levels), level)
  BY FrontAndLast
<1>2. IsFiniteSet(Held(Front(levels)))
  BY <1>1, HeldFinite
<1>3. /\ HeldBy(Append(Front(levels), Last(levels)))
             = HeldBy(Front(levels)) + Holding(Last(levels).subdirs)
      /\ HeldBy(Front(levels)) \in Nat
  BY <1>1, <1>2, HeldByAppend
<1>4. HeldBy(Append(Front(levels), level)) = HeldBy(Front(levels)) + Holding(level.subdirs)
  BY <1>1, <1>2, HeldByAppend
<1>5. QED
  BY <1>1, <1>3, <1>4

\* No job holds its directory when the count is zero, and so after a release.
LEMMA HeldByNone ==
    ASSUME NEW levels \in Seq(LevelType)
    PROVE  HeldBy(levels) = 0
              <=> \A k \in DOMAIN levels : \A n \in DOMAIN levels[k].subdirs :
                      ~levels[k].subdirs[n].opened
<1>1. IsFiniteSet(Held(levels)) /\ HeldBy(levels) = Cardinality(Held(levels))
  BY HeldFinite DEF HeldBy, Held
<1>2. HeldBy(levels) = 0 <=> Held(levels) = {}
  BY <1>1, FS_EmptySet
<1>3. Held(levels) = {} <=> \A k \in DOMAIN levels : Holders(levels[k].subdirs) = {}
  <2>1. \A k \in DOMAIN levels : \A n \in Holders(levels[k].subdirs) :
            <<k, n>> \in Held(levels)
    BY DEF Held
  <2>2. \A x \in Held(levels) : \E k \in DOMAIN levels : \E n \in Holders(levels[k].subdirs) :
            x = <<k, n>>
    BY DEF Held
  <2>3. QED
    BY <2>1, <2>2
<1>4. QED
  BY <1>2, <1>3 DEF Holders

LEMMA ReleasedFacts ==
    ASSUME NEW levels \in Seq(LevelType)
    PROVE  /\ Released(levels) \in Seq(LevelType) /\ Len(Released(levels)) = Len(levels)
           /\ \A k \in 1..Len(levels) :
                 /\ Released(levels)[k].dir = levels[k].dir
                 /\ Released(levels)[k].items = levels[k].items
                 /\ Released(levels)[k].rest = levels[k].rest
                 /\ Released(levels)[k].subdirs = Closed(levels[k].subdirs)
           /\ HeldBy(Released(levels)) = 0
<1> DEFINE R == Released(levels)
<1>1. Len(levels) \in Nat /\ DOMAIN levels = 1..Len(levels)
  BY LenProperties
<1>2. \A k \in 1..Len(levels) : levels[k] \in LevelType
  BY ElementOfSeq
<1>3. ASSUME NEW jobs \in Seq(JobType)
      PROVE  /\ Closed(jobs) \in Seq(JobType) /\ Len(Closed(jobs)) = Len(jobs)
             /\ \A n \in 1..Len(jobs) : Closed(jobs)[n] = [jobs[n] EXCEPT !.opened = FALSE]
  <2>1. Len(jobs) \in Nat /\ DOMAIN jobs = 1..Len(jobs)
    BY LenProperties
  <2>2. \A n \in 1..Len(jobs) : [jobs[n] EXCEPT !.opened = FALSE] \in JobType
    <3>1. \A n \in 1..Len(jobs) : jobs[n] \in JobType
      BY ElementOfSeq
    <3>2. QED
      BY <3>1 DEF JobType
  <2>3. Closed(jobs) = [n \in 1..Len(jobs) |-> [jobs[n] EXCEPT !.opened = FALSE]]
    BY <2>1 DEF Closed
  <2>4. QED
    BY <2>1, <2>2, <2>3, SeqDef
<1>4. ASSUME NEW k \in 1..Len(levels)
      PROVE  [levels[k] EXCEPT !.subdirs = Closed(@)] \in LevelType
  <2>1. levels[k].subdirs \in Seq(JobType)
    BY <1>2 DEF LevelType
  <2>2. Closed(levels[k].subdirs) \in Seq(JobType)
    BY <1>3, <2>1
  <2>3. QED
    BY <1>2, <2>2 DEF LevelType
<1>5. R = [k \in 1..Len(levels) |-> [levels[k] EXCEPT !.subdirs = Closed(@)]]
  BY <1>1 DEF Released
<1>6. R \in Seq(LevelType) /\ Len(R) = Len(levels)
  BY <1>1, <1>4, <1>5, SeqDef
<1>7. \A k \in 1..Len(levels) :
          /\ R[k].dir = levels[k].dir
          /\ R[k].items = levels[k].items
          /\ R[k].rest = levels[k].rest
          /\ R[k].subdirs = Closed(levels[k].subdirs)
  BY <1>2, <1>5 DEF LevelType
<1>8. HeldBy(R) = 0
  <2>1. ASSUME NEW k \in DOMAIN R, NEW n \in DOMAIN R[k].subdirs
        PROVE  ~R[k].subdirs[n].opened
    <3>1. k \in 1..Len(levels)
      BY <1>6, LenProperties
    <3>2. levels[k].subdirs \in Seq(JobType)
      BY <1>2, <3>1 DEF LevelType
    <3>3. R[k].subdirs = Closed(levels[k].subdirs)
      BY <1>7, <3>1
    <3>4. n \in 1..Len(levels[k].subdirs)
      BY <1>3, <3>2, <3>3, LenProperties
    <3>5. R[k].subdirs[n] = [levels[k].subdirs[n] EXCEPT !.opened = FALSE]
      BY <1>3, <3>2, <3>3, <3>4
    <3>6. levels[k].subdirs[n] \in JobType
      BY <3>2, <3>4, ElementOfSeq
    <3>7. QED
      BY <3>5, <3>6 DEF JobType
  <2>2. QED
    BY <1>6, <2>1, HeldByNone
<1>9. QED
  BY <1>6, <1>7, <1>8

-----------------------------------------------------------------------------
(* Counting the directories among items.                                   *)

IsDirectory(item) == IF item.kind = "directory" THEN 1 ELSE 0

LEMMA DirectoryItemsFacts ==
    ASSUME NEW items, NEW m \in Nat
    PROVE  /\ DirectoryItems(items, 0) = 0
           /\ DirectoryItems(items, m) \in Nat
           /\ DirectoryItems(items, m + 1) = DirectoryItems(items, m) + IsDirectory(items[m + 1])
<1> DEFINE Among(n) == {l \in 1..n : items[l].kind = "directory"}
<1>1. Among(0) = {}
  OBVIOUS
<1>2. Among(m) \subseteq 1..m /\ IsFiniteSet(1..m)
  BY FS_Interval
<1>3. IsFiniteSet(Among(m)) /\ Cardinality(Among(m)) \in Nat
  <2>1. IsFiniteSet(Among(m))
    BY <1>2, FS_Subset
  <2>2. QED
    BY <2>1, FS_CardinalityType
<1>4. Among(m + 1) = Among(m) \union (IF items[m + 1].kind = "directory" THEN {m + 1} ELSE {})
  <2>1. 1..(m + 1) = (1..m) \union {m + 1}
    OBVIOUS
  <2>2. QED
    BY <2>1
<1>5. m + 1 \notin Among(m)
  OBVIOUS
<1>6. \A n : DirectoryItems(items, n) = Cardinality(Among(n))
  BY DEF DirectoryItems
<1> HIDE DEF Among
<1>7. Cardinality(Among(m) \union {m + 1}) = Cardinality(Among(m)) + 1
  BY <1>3, <1>5, FS_AddElement
<1>8. DirectoryItems(items, m + 1) = DirectoryItems(items, m) + IsDirectory(items[m + 1])
  <2>1. CASE items[m + 1].kind = "directory"
    BY <1>4, <1>6, <1>7, <2>1 DEF IsDirectory
  <2>2. CASE items[m + 1].kind # "directory"
    <3>1. Among(m + 1) = Among(m)
      BY <1>4, <2>2
    <3>2. QED
      BY <1>3, <1>6, <2>2, <3>1 DEF IsDirectory
  <2>3. QED
    BY <2>1, <2>2
<1>9. QED
  BY <1>1, <1>3, <1>6, <1>8, FS_EmptySet

\* The count is of the first items only.
LEMMA DirectoryItemsSame ==
    ASSUME NEW items, NEW others, NEW m \in Nat, \A l \in 1..m : items[l].kind = others[l].kind
    PROVE  DirectoryItems(items, m) = DirectoryItems(others, m)
<1>1. {l \in 1..m : items[l].kind = "directory"} = {l \in 1..m : others[l].kind = "directory"}
  OBVIOUS
<1>2. QED
  BY <1>1 DEF DirectoryItems

\* It grows by one at each directory.
LEMMA DirectoryItemsGrow ==
    ASSUME NEW items, NEW n \in Nat, NEW m \in 1..n
    PROVE  /\ DirectoryItems(items, m) <= DirectoryItems(items, n)
           /\ items[m].kind = "directory" => DirectoryItems(items, m) > 0
<1> DEFINE D(k) == DirectoryItems(items, k)
           S == {k \in 0..(n - m) : D(m) <= D(m + k)}
<1>1. \A k \in Nat : D(k) \in Nat /\ D(k + 1) = D(k) + IsDirectory(items[k + 1])
  BY DirectoryItemsFacts
<1>2. \A k \in Nat : IsDirectory(items[k + 1]) \in {0, 1}
  BY DEF IsDirectory
<1> HIDE DEF D
<1>3. 0 \in S
  BY <1>1
<1>4. ASSUME NEW k \in 0..((n - m) - 1), k \in S
      PROVE  k + 1 \in S
  <2>1. m + k \in Nat /\ m + (k + 1) = (m + k) + 1 /\ k + 1 \in 0..(n - m) /\ m \in Nat
    OBVIOUS
  <2>2. D(m + (k + 1)) >= D(m + k) /\ D(m + k) \in Nat /\ D(m) \in Nat /\ D(m + (k + 1)) \in Nat
    <3>1. D((m + k) + 1) = D(m + k) + IsDirectory(items[(m + k) + 1]) /\ D(m + k) \in Nat
      BY <1>1, <2>1
    <3>2. IsDirectory(items[(m + k) + 1]) \in {0, 1}
      BY <1>2, <2>1
    <3>3. D(m + (k + 1)) = D((m + k) + 1)
      BY <2>1
    <3>4. D(m) \in Nat /\ D((m + k) + 1) \in Nat
      BY <1>1, <2>1
    <3>5. QED
      BY <3>1, <3>2, <3>3, <3>4
  <2>3. QED
    BY <1>4, <2>1, <2>2
<1>5. n - m \in S
  <2>1. n - m \in Nat
    OBVIOUS
  <2> HIDE DEF S
  <2>2. \A k \in 0..(n - m) : k \in S
    BY <1>3, <1>4, <2>1, InductionUpTo
  <2>3. QED
    BY <2>1, <2>2
<1>6. m + (n - m) = n
  OBVIOUS
<1>7. D(m) <= D(n)
  BY <1>5, <1>6
<1>8. ASSUME items[m].kind = "directory"
      PROVE  D(m) > 0
  <2>1. m - 1 \in Nat /\ (m - 1) + 1 = m
    OBVIOUS
  <2>2. D(m) = D(m - 1) + IsDirectory(items[m]) /\ D(m - 1) \in Nat
    BY <1>1, <2>1
  <2>3. QED
    BY <1>8, <2>2 DEF IsDirectory
<1>9. QED
  BY <1>7, <1>8 DEF D

\* Without the first item, one less is counted if that is a directory.
LEMMA DirectoryItemsTail ==
    ASSUME NEW items \in Seq(ItemType), items # <<>>, NEW m \in 0..(Len(items) - 1)
    PROVE  DirectoryItems(items, m + 1)
               = DirectoryItems(Tail(items), m) + IsDirectory(Head(items))
<1> DEFINE N == Len(items) - 1
           less == Tail(items)
           D(k) == DirectoryItems(items, k)
           E(k) == DirectoryItems(less, k)
           h == IsDirectory(Head(items))
           S == {k \in 0..N : D(k + 1) = E(k) + h}
<1>1. N \in Nat
  BY LenProperties, EmptySeq
<1>2. /\ Len(less) = N /\ \A k \in 1..N : less[k] = items[k + 1]
      /\ Head(items) = items[1]
  BY HeadTailProperties
<1>3. \A k \in Nat : D(k) \in Nat /\ D(k + 1) = D(k) + IsDirectory(items[k + 1])
  BY DirectoryItemsFacts
<1>4. \A k \in Nat : E(k) \in Nat /\ E(k + 1) = E(k) + IsDirectory(less[k + 1])
  BY DirectoryItemsFacts
<1>5. D(0) = 0 /\ E(0) = 0 /\ h \in {0, 1}
  BY DirectoryItemsFacts DEF IsDirectory
<1>6. h = IsDirectory(items[1])
  BY <1>2
<1> HIDE DEF N, D, E, h, less
<1>7. 0 \in S
  <2>1. D(0 + 1) = D(0) + IsDirectory(items[0 + 1]) /\ 0 + 1 = 1
    BY <1>3
  <2>2. QED
    BY <1>1, <1>5, <1>6, <2>1
<1>8. ASSUME NEW k \in 0..(N - 1), k \in S
      PROVE  k + 1 \in S
  <2>1. k + 1 \in 1..N /\ k \in Nat /\ k + 1 \in Nat /\ k + 1 \in 0..N
    BY <1>1
  <2>2. D((k + 1) + 1) = D(k + 1) + IsDirectory(items[(k + 1) + 1])
    BY <1>3, <2>1
  <2>3. E(k + 1) = E(k) + IsDirectory(less[k + 1]) /\ less[k + 1] = items[(k + 1) + 1]
    BY <1>2, <1>4, <2>1
  <2>4. D(k + 1) = E(k) + h
    BY <1>8
  <2>5. IsDirectory(items[(k + 1) + 1]) \in {0, 1} /\ E(k) \in Nat
    BY <1>4, <2>1 DEF IsDirectory
  <2>6. D((k + 1) + 1) = E(k + 1) + h
    BY <1>5, <2>2, <2>3, <2>4, <2>5
  <2>7. QED
    BY <2>1, <2>6
<1>9. \A k \in 0..N : k \in S
  <2> HIDE DEF S
  <2>1. QED
    BY <1>1, <1>7, <1>8, InductionUpTo
<1>10. m \in S
  BY <1>9 DEF N
<1>11. QED
  BY <1>10 DEF D, E, h, less

-----------------------------------------------------------------------------
(* The jobs of the directories among items.                                *)

LEMMA MatchNone ==
    ASSUME NEW dir
    PROVE  /\ Match(dir, <<>>, <<>>)
           /\ \A jobs \in Seq(JobType) : Match(dir, <<>>, jobs) => jobs = <<>>
<1>1. DirectoryItems(<<>>, 0) = 0
  BY DirectoryItemsFacts
<1>2. QED
  BY <1>1, EmptySeq DEF Match

LEMMA MatchAppend ==
    ASSUME NEW dir, NEW items \in Seq(ItemType), NEW jobs \in Seq(JobType),
           NEW item \in ItemType, NEW job \in JobType, Match(dir, items, jobs)
    PROVE  /\ item.kind # "directory" => Match(dir, Append(items, item), jobs)
           /\ item.kind = "directory" /\ job.of = ItemPath(dir, item)
                  => Match(dir, Append(items, item), Append(jobs, job))
<1> DEFINE more == Append(items, item)
           N == Len(items)
           D(k) == DirectoryItems(more, k)
<1>1. N \in Nat /\ DOMAIN items = 1..N /\ Len(jobs) \in Nat
  BY LenProperties
<1>2. /\ more \in Seq(ItemType) /\ Len(more) = N + 1 /\ more[N + 1] = item
      /\ \A k \in 1..N : more[k] = items[k]
  BY AppendProperties
<1>3. DOMAIN more = 1..(N + 1)
  BY <1>2, LenProperties
<1> HIDE DEF more
<1>4. \A m \in 0..N : D(m) = DirectoryItems(items, m)
  <2>1. ASSUME NEW m \in 0..N
        PROVE  D(m) = DirectoryItems(items, m)
    <3>1. m \in Nat /\ \A l \in 1..m : more[l].kind = items[l].kind
      BY <1>1, <1>2
    <3>2. QED
      BY <3>1, DirectoryItemsSame
  <2>2. QED
    BY <2>1
<1>5. D(N + 1) = Len(jobs) + IsDirectory(item)
  <2>1. D(N + 1) = D(N) + IsDirectory(more[N + 1])
    BY <1>1, DirectoryItemsFacts
  <2>2. D(N) = Len(jobs)
    BY <1>1, <1>4 DEF Match
  <2>3. QED
    BY <1>2, <2>1, <2>2
<1>6. \A m \in 1..N : items[m].kind = "directory" =>
          /\ jobs[D(m)].of = ItemPath(dir, items[m])
          /\ D(m) \in 1..Len(jobs)
  <2>1. ASSUME NEW m \in 1..N, items[m].kind = "directory"
        PROVE  jobs[D(m)].of = ItemPath(dir, items[m]) /\ D(m) \in 1..Len(jobs)
    <3>1. D(m) = DirectoryItems(items, m) /\ D(N) = DirectoryItems(items, N)
      BY <1>1, <1>4
    <3>2. DirectoryItems(items, m) <= DirectoryItems(items, N) /\ DirectoryItems(items, m) > 0
      BY <1>1, <2>1, DirectoryItemsGrow
    <3>3. DirectoryItems(items, m) \in Nat
      BY DirectoryItemsFacts
    <3>4. Len(jobs) = DirectoryItems(items, N)
      BY DEF Match
    <3>5. QED
      BY <1>1, <2>1, <3>1, <3>2, <3>3, <3>4 DEF Match
  <2>2. QED
    BY <2>1
<1>7. \A m \in 1..(N + 1) : m = N + 1 \/ m \in 1..N
  BY <1>1
<1>8. item.kind # "directory" => Match(dir, more, jobs)
  <2> HIDE DEF D
  <2>1. ASSUME item.kind # "directory"
        PROVE  /\ Len(jobs) = D(Len(more))
               /\ \A m \in DOMAIN more : more[m].kind = "directory" =>
                     jobs[D(m)].of = ItemPath(dir, more[m])
    <3>1. Len(jobs) = D(Len(more))
      BY <1>1, <1>2, <1>5, <2>1 DEF IsDirectory
    <3>2. QED
      BY <1>2, <1>3, <1>6, <1>7, <2>1, <3>1
  <2>2. QED
    BY <2>1 DEF Match, D
<1>9. ASSUME item.kind = "directory", job.of = ItemPath(dir, item)
      PROVE  Match(dir, more, Append(jobs, job))
  <2>1. /\ Len(Append(jobs, job)) = Len(jobs) + 1
        /\ Append(jobs, job)[Len(jobs) + 1] = job
        /\ \A k \in 1..Len(jobs) : Append(jobs, job)[k] = jobs[k]
    BY AppendProperties
  <2> HIDE DEF D
  <2>2. D(N + 1) = Len(jobs) + 1
    BY <1>5, <1>9 DEF IsDirectory
  <2>3. Len(Append(jobs, job)) = D(Len(more))
    BY <1>2, <2>1, <2>2
  <2>4. \A m \in DOMAIN more : more[m].kind = "directory" =>
            Append(jobs, job)[D(m)].of = ItemPath(dir, more[m])
    BY <1>2, <1>3, <1>6, <1>7, <1>9, <2>1, <2>2
  <2>5. QED
    BY <2>3, <2>4 DEF Match, D
<1>10. QED
  BY <1>8, <1>9 DEF more

LEMMA MatchTail ==
    ASSUME NEW dir, NEW items \in Seq(ItemType), NEW jobs \in Seq(JobType),
           items # <<>>, Match(dir, items, jobs)
    PROVE  /\ Head(items).kind # "directory" => Match(dir, Tail(items), jobs)
           /\ Head(items).kind = "directory" =>
                 /\ jobs # <<>> /\ Head(jobs).of = ItemPath(dir, Head(items))
                 /\ Match(dir, Tail(items), Tail(jobs))
<1> DEFINE less == Tail(items)
           N == Len(items) - 1
           D(k) == DirectoryItems(items, k)
           E(k) == DirectoryItems(less, k)
<1>1. N \in Nat /\ Len(items) = N + 1 /\ DOMAIN items = 1..(N + 1) /\ Len(jobs) \in Nat
  BY LenProperties, EmptySeq
<1>2. /\ less \in Seq(ItemType) /\ Len(less) = N /\ \A k \in 1..N : less[k] = items[k + 1]
      /\ Head(items) = items[1]
  BY HeadTailProperties
<1>3. DOMAIN less = 1..N
  BY <1>2, LenProperties
<1>4. \A m \in 0..N : D(m + 1) = E(m) + IsDirectory(Head(items))
  BY DirectoryItemsTail
<1>5. \A m \in Nat : E(m) \in Nat /\ D(m) \in Nat
  BY DirectoryItemsFacts
<1>6. D(1) = IsDirectory(Head(items))
  <2>1. /\ DirectoryItems(items, 0) = 0
        /\ DirectoryItems(items, 0 + 1) = DirectoryItems(items, 0) + IsDirectory(items[0 + 1])
    BY DirectoryItemsFacts
  <2>2. IsDirectory(items[1]) \in {0, 1}
    BY DEF IsDirectory
  <2>3. QED
    BY <1>2, <2>1, <2>2
<1>7. \A m \in 1..N : less[m].kind = "directory" => E(m) > 0 /\ E(m) <= E(N)
  BY <1>1, DirectoryItemsGrow
<1>8. /\ Len(jobs) = D(N + 1)
      /\ \A m \in 1..(N + 1) : items[m].kind = "directory" =>
             jobs[D(m)].of = ItemPath(dir, items[m])
  BY <1>1 DEF Match
<1> HIDE DEF less, N, D, E
<1>9. \A m \in 1..N : m \in 0..N /\ m + 1 \in 1..(N + 1) /\ m \in Nat
  BY <1>1
<1>10. ASSUME Head(items).kind # "directory"
       PROVE  Match(dir, less, jobs)
  <2>1. \A m \in 0..N : D(m + 1) = E(m)
    BY <1>1, <1>4, <1>5, <1>10 DEF IsDirectory
  <2>2. Len(jobs) = E(Len(less))
    BY <1>1, <1>2, <1>8, <2>1
  <2>3. \A m \in DOMAIN less : less[m].kind = "directory" =>
            jobs[E(m)].of = ItemPath(dir, less[m])
    BY <1>2, <1>3, <1>8, <1>9, <2>1
  <2>4. QED
    BY <2>2, <2>3 DEF Match, E
<1>11. ASSUME Head(items).kind = "directory"
       PROVE  /\ jobs # <<>> /\ Head(jobs).of = ItemPath(dir, Head(items))
              /\ Match(dir, less, Tail(jobs))
  <2>1. \A m \in 0..N : D(m + 1) = E(m) + 1
    BY <1>4, <1>11 DEF IsDirectory
  <2>2. Len(jobs) = E(N) + 1 /\ E(N) \in Nat /\ D(1) = 1
    <3>1. D(N + 1) = E(N) + 1 /\ E(N) \in Nat
      <4>1. N \in 0..N /\ N \in Nat
        BY <1>1
      <4>2. D(N + 1) = E(N) + 1
        BY <2>1, <4>1
      <4>3. QED
        BY <1>5, <4>1, <4>2
    <3>2. D(1) = 1
      BY <1>6, <1>11 DEF IsDirectory
    <3>3. QED
      BY <1>8, <3>1, <3>2
  <2>3. jobs # <<>>
    BY <2>2, EmptySeq
  <2>4. /\ Head(jobs) = jobs[1] /\ Len(Tail(jobs)) = Len(jobs) - 1
        /\ \A k \in 1..Len(Tail(jobs)) : Tail(jobs)[k] = jobs[k + 1]
    BY <2>3, HeadTailProperties
  <2>5. Head(jobs).of = ItemPath(dir, Head(items))
    BY <1>1, <1>2, <1>8, <1>11, <2>2, <2>4
  <2>6. Len(Tail(jobs)) = E(Len(less))
    BY <1>2, <2>2, <2>4
  <2>7. ASSUME NEW m \in 1..N, less[m].kind = "directory"
        PROVE  Tail(jobs)[E(m)].of = ItemPath(dir, less[m])
    <3>1. E(m) \in 1..Len(Tail(jobs))
      <4>1. E(m) \in Nat /\ E(m) > 0 /\ E(m) <= E(N) /\ E(N) \in Nat
        BY <1>1, <1>5, <1>7, <1>9, <2>7
      <4>2. Len(Tail(jobs)) = E(N)
        BY <1>2, <2>6
      <4>3. QED
        BY <4>1, <4>2
    <3>2. Tail(jobs)[E(m)] = jobs[E(m) + 1]
      BY <2>4, <3>1
    <3>3. jobs[D(m + 1)].of = ItemPath(dir, items[m + 1])
      BY <1>2, <1>8, <1>9, <2>7
    <3>4. QED
      BY <1>2, <1>9, <2>1, <3>2, <3>3
  <2>8. QED
    BY <1>3, <2>3, <2>5, <2>6, <2>7 DEF Match, E
<1>12. QED
  BY <1>10, <1>11 DEF less

-----------------------------------------------------------------------------
(* The levels and the scan.                                                *)

LEMMA AppendedFacts ==
    ASSUME NEW T, NEW st \in Seq(T), NEW level \in T
    PROVE  /\ Append(st, level) \in Seq(T) /\ Append(st, level) # <<>>
           /\ Len(Append(st, level)) = Len(st) + 1
           /\ Front(Append(st, level)) = st /\ Last(Append(st, level)) = level
<1> DEFINE more == Append(st, level)
<1>1. Len(st) \in Nat
  BY LenProperties
<1>2. /\ more \in Seq(T) /\ more # <<>> /\ Len(more) = Len(st) + 1
      /\ \A k \in 1..Len(st) : more[k] = st[k]
      /\ more[Len(st) + 1] = level
  BY AppendProperties
<1> HIDE DEF more
<1>3. Last(more) = level
  BY <1>2 DEF Last
<1>4. /\ Front(more) \in Seq(T) /\ Len(Front(more)) = Len(more) - 1
      /\ \A k \in 1..(Len(more) - 1) : Front(more)[k] = more[k]
  BY <1>2, FrontAndLast
<1>5. Front(more) = st
  <2>1. Len(Front(more)) = Len(st) /\ Len(more) - 1 = Len(st)
    BY <1>1, <1>2, <1>4
  <2>2. \A k \in 1..Len(Front(more)) : Front(more)[k] = st[k]
    BY <1>2, <1>4, <2>1
  <2>3. QED
    BY <1>4, <2>1, <2>2, SeqEqual
<1>6. QED
  BY <1>2, <1>3, <1>5 DEF more

LEMMA ReplacedFacts ==
    ASSUME NEW T, NEW st \in Seq(T), st # <<>>, NEW level \in T
    PROVE  LET new == [st EXCEPT ![Len(st)] = level]
           IN  /\ new \in Seq(T) /\ new # <<>> /\ Len(new) = Len(st)
               /\ Front(new) = Front(st) /\ Last(new) = level
<1>1. [st EXCEPT ![Len(st)] = level] = Append(Front(st), level)
      /\ Front(st) \in Seq(T) /\ Len(Front(st)) = Len(st) - 1
  BY FrontAndLast
<1>2. Len(st) \in Nat
  BY LenProperties
<1> DEFINE more == Append(Front(st), level)
<1>3. /\ more \in Seq(T) /\ more # <<>> /\ Len(more) = Len(Front(st)) + 1
      /\ Front(more) = Front(st) /\ Last(more) = level
  BY <1>1, AppendedFacts
<1>4. Len(more) = Len(st)
  BY <1>1, <1>2, <1>3
<1> HIDE DEF more
<1>5. [st EXCEPT ![Len(st)] = level] = more
  BY <1>1 DEF more
<1>6. QED
  BY <1>3, <1>4, <1>5

LEMMA TopFacts ==
    ASSUME TypeOK, stack # <<>>
    PROVE  /\ Top \in LevelType
           /\ Len(stack) \in Nat \ {0}
           /\ Front(stack) \in Seq(LevelType) /\ Len(Front(stack)) = Len(stack) - 1
           /\ stack = Append(Front(stack), Top)
           /\ stack[Len(stack)] = Top
<1>1. stack \in Seq(LevelType)
  BY DEF TypeOK
<1>2. Len(stack) \in Nat \ {0}
  BY <1>1, EmptySeq
<1>3. stack[Len(stack)] \in LevelType
  BY <1>1, <1>2, ElementOfSeq
<1>4. QED
  BY <1>1, <1>2, <1>3, FrontAndLast DEF Top

LEMMA NewScanType ==
    ASSUME NEW path \in Seq(Nat), NEW job \in JobType
    PROVE  NewScan(path, job) \in ScanType
<1>1. <<>> \in Seq(ItemType) /\ <<>> \in Seq(JobType)
  BY EmptySeq
<1>2. QED
  BY <1>1 DEF NewScan, ScanType, JobType

LEMMA NoScanFacts ==
    NoScan \in ScanType /\ ~NoScan.job.opened /\ ~NoScan.job.refused /\ NoScan.job.start = 0
    /\ NoScan.directories = <<>> /\ NoScan.items = <<>> /\ NoScan.path = <<>>
    /\ ~NoScan.unreadable
<1>1. <<>> \in Seq(Nat)
  BY EmptySeq
<1>2. RestJob(<<>>, 0) \in JobType
  BY <1>1 DEF RestJob, JobType
<1>3. NoScan \in ScanType
  BY <1>1, <1>2, NewScanType DEF NoScan
<1>4. QED
  BY <1>3 DEF NoScan, NewScan, RestJob

\* The parts of a scan.
LEMMA ScanTypes ==
    ASSUME TypeOK
    PROVE  /\ scan.path \in Seq(Nat) /\ scan.job \in JobType
           /\ scan.job.start \in Nat /\ scan.job.of \in Seq(Nat)
           /\ scan.job.opened \in BOOLEAN /\ scan.job.refused \in BOOLEAN
           /\ scan.place \in Nat /\ scan.end \in Nat
           /\ scan.items \in Seq(ItemType) /\ scan.directories \in Seq(JobType)
           /\ scan.rest \in Seq(JobType) /\ scan.unreadable \in BOOLEAN
  BY DEF TypeOK, ScanType, JobType

LEMMA ItemTypes ==
    ASSUME NEW place \in Nat
    PROVE  \A kind \in {"failed", "special", "file", "directory"} : Item(kind, place) \in ItemType
  BY DEF Item, ItemType, Kinds

LEMMA HereType ==
    ASSUME TypeOK
    PROVE  /\ Place \in Nat /\ Here \in Seq(Nat)
           /\ Append(scan.path, 0) \in Seq(Nat)
           /\ \A kind \in {"failed", "special", "file", "directory"} :
                 /\ Read(Item(kind, Place)) \in ScanType
                 /\ Read(Item(kind, Place))
                       = [scan EXCEPT !.place = Place,
                                      !.items = Append(scan.items, Item(kind, Place))]
<1>1. Place \in Nat
  BY ScanTypes DEF Place
<1>2. Here \in Seq(Nat) /\ Append(scan.path, 0) \in Seq(Nat)
  BY <1>1, ScanTypes, PathFacts DEF Here
<1>3. ASSUME NEW kind \in {"failed", "special", "file", "directory"}
      PROVE  /\ Read(Item(kind, Place)) \in ScanType
             /\ Read(Item(kind, Place))
                       = [scan EXCEPT !.place = Place,
                                      !.items = Append(scan.items, Item(kind, Place))]
  <2>1. Item(kind, Place) \in ItemType
    BY <1>1, ItemTypes
  <2>2. Append(scan.items, Item(kind, Place)) \in Seq(ItemType)
    BY <2>1, ScanTypes, AppendProperties
  <2>3. scan \in ScanType
    BY DEF TypeOK
  <2>4. QED
    BY <1>1, <2>2, <2>3 DEF Read, ScanType
<1>4. QED
  BY <1>1, <1>2, <1>3

\* What may come of opening ahead, and the count it is added to.
LEMMA OpenAheadFacts ==
    ASSUME TypeOK, NEW ahead \in OpenAhead
    PROVE  /\ ahead.job \in JobType /\ ahead.limit \in Int
           /\ ahead.job.of = Here /\ ahead.job.start = 0
           /\ ~(ahead.job.opened /\ ahead.job.refused)
           /\ Holding(<<ahead.job>>) = IF ahead.job.opened THEN 1 ELSE 0
           /\ ahead.job.opened => held < limit /\ ahead.limit = limit
           /\ ahead.limit = limit \/ (ahead.limit <= limit /\ held <= ahead.limit)
<1>1. Here \in Seq(Nat)
  BY HereType
<1>2. \A opened, refused \in BOOLEAN : DirectoryJob(Here, opened, refused) \in JobType
  BY <1>1 DEF DirectoryJob, JobType
<1>3. \A opened, refused \in BOOLEAN :
          /\ DirectoryJob(Here, opened, refused).of = Here
          /\ DirectoryJob(Here, opened, refused).start = 0
          /\ DirectoryJob(Here, opened, refused).opened = opened
          /\ DirectoryJob(Here, opened, refused).refused = refused
  BY DEF DirectoryJob
<1>4. held \in Int /\ limit \in Int
  BY DEF TypeOK
<1>5. /\ ahead.job \in JobType /\ ahead.limit \in Int
      /\ ahead.job.of = Here /\ ahead.job.start = 0
      /\ ~(ahead.job.opened /\ ahead.job.refused)
      /\ ahead.job.opened => held < limit /\ ahead.limit = limit
      /\ ahead.limit = limit \/ (ahead.limit <= limit /\ held <= ahead.limit)
  <2> DEFINE plain == DirectoryJob(Here, FALSE, FALSE)
             open == DirectoryJob(Here, TRUE, FALSE)
             refused == DirectoryJob(Here, FALSE, TRUE)
  <2>1. \/ ahead = [job |-> plain, limit |-> limit]
        \/ ahead = [job |-> open, limit |-> limit] /\ MayHold
        \/ ahead = [job |-> plain, limit |-> Lesser(limit, held)]
        \/ ahead = [job |-> refused, limit |-> limit]
    BY Zenon DEF OpenAhead
  <2>2. /\ plain \in JobType /\ plain.of = Here /\ plain.start = 0
        /\ ~plain.opened /\ ~plain.refused
        /\ open \in JobType /\ open.of = Here /\ open.start = 0
        /\ open.opened /\ ~open.refused
        /\ refused \in JobType /\ refused.of = Here /\ refused.start = 0
        /\ ~refused.opened /\ refused.refused
    BY <1>2, <1>3
  <2> HIDE DEF plain, open, refused
  <2>3. Lesser(limit, held) \in Int /\ Lesser(limit, held) <= limit
        /\ (Lesser(limit, held) = limit \/ held <= Lesser(limit, held))
    BY <1>4 DEF Lesser
  <2>4. QED
    BY <1>4, <2>1, <2>2, <2>3 DEF MayHold
<1>6. Holding(<<ahead.job>>) = IF ahead.job.opened THEN 1 ELSE 0
  BY <1>5, HoldingOne
<1>7. QED
  BY <1>5, <1>6

-----------------------------------------------------------------------------
(* The levels around the scan.                                             *)

LEMMA AllJobsAppend ==
    ASSUME NEW levels \in Seq(LevelType), NEW level \in LevelType
    PROVE  \A lists : AllJobs(Append(levels, level), lists)
               <=> /\ AllJobs(levels, lists) /\ LevelJobs(level, lists)
                   /\ Len(level.dir) = Len(levels)
<1> DEFINE more == Append(levels, level)
<1>1. /\ Len(levels) \in Nat /\ Len(more) = Len(levels) + 1
      /\ DOMAIN levels = 1..Len(levels) /\ DOMAIN more = 1..(Len(levels) + 1)
      /\ \A k \in 1..Len(levels) : more[k] = levels[k]
      /\ more[Len(levels) + 1] = level
  BY AppendProperties, LenProperties
<1> HIDE DEF more
<1>2. \A k \in 1..(Len(levels) + 1) : k \in 1..Len(levels) \/ k = Len(levels) + 1
  BY <1>1
<1>3. \A k \in 1..Len(levels) : k \in 1..(Len(levels) + 1)
  BY <1>1
<1>4. Len(levels) + 1 \in 1..(Len(levels) + 1)
  BY <1>1
<1>5. QED
  BY <1>1, <1>2, <1>3, <1>4 DEF AllJobs, more

\* The innermost level and those around it, while the walk goes on.
LEMMA LevelsFacts ==
    TypeOK /\ PhaseInv /\ Active
        => /\ Outer \in Seq(LevelType) /\ Inner \in LevelType
           /\ Levels = Append(Outer, Inner)
           /\ HeldBy(Levels) = HeldBy(Outer) + Holding(Inner.subdirs)
           /\ HeldBy(Outer) \in Nat /\ Holding(Inner.subdirs) \in Nat
           /\ JobsInv <=> AllJobs(Outer, listings) /\ LevelJobs(Inner, listings) /\ Len(Cur) = Len(Outer)
<1> SUFFICES ASSUME TypeOK, PhaseInv, Active
             PROVE  /\ Outer \in Seq(LevelType) /\ Inner \in LevelType
                    /\ Levels = Append(Outer, Inner)
                    /\ HeldBy(Levels) = HeldBy(Outer) + Holding(Inner.subdirs)
                    /\ HeldBy(Outer) \in Nat /\ Holding(Inner.subdirs) \in Nat
                    /\ JobsInv <=> AllJobs(Outer, listings) /\ LevelJobs(Inner, listings) /\ Len(Cur) = Len(Outer)
  OBVIOUS
<1>1. stack \in Seq(LevelType)
  BY DEF TypeOK
<1>2. ~(Scanning /\ First) => stack # <<>>
  BY DEF PhaseInv, Active, Scanning, TypeOK
<1>3. stack # <<>> => Top \in LevelType /\ Front(stack) \in Seq(LevelType)
  BY TopFacts
<1>4. Outer \in Seq(LevelType)
  BY <1>1, <1>2, <1>3 DEF Outer
<1>5. Inner \in LevelType
  <2>1. CASE Scanning
    <3>1. (IF First THEN scan.rest ELSE Top.rest) \in Seq(JobType)
      BY <1>2, <1>3, ScanTypes DEF LevelType
    <3>2. QED
      BY <2>1, <3>1, ScanTypes DEF Inner, LevelType
  <2>2. CASE ~Scanning
    BY <1>2, <1>3, <2>2 DEF Inner
  <2>3. QED
    BY <2>1, <2>2
<1>6. Levels = Append(Outer, Inner)
  BY DEF Levels
<1>7. /\ HeldBy(Levels) = HeldBy(Outer) + Holding(Inner.subdirs) /\ HeldBy(Outer) \in Nat
  BY <1>4, <1>5, <1>6, HeldFinite, HeldByAppend
<1>8. Holding(Inner.subdirs) \in Nat
  BY <1>5, HoldersFinite DEF LevelType
<1>9. JobsInv <=> AllJobs(Outer, listings) /\ LevelJobs(Inner, listings) /\ Len(Cur) = Len(Outer)
  BY <1>4, <1>5, <1>6, AllJobsAppend DEF JobsInv, Cur
<1>10. QED
  BY <1>4, <1>5, <1>6, <1>7, <1>8, <1>9

\* What the innermost level is.
LEMMA InnerScan ==
    Scanning => /\ Inner.dir = scan.path /\ Inner.items = scan.items
                /\ Inner.subdirs = scan.directories
                /\ Inner.rest = IF First THEN scan.rest ELSE Top.rest
  BY DEF Inner

\* The jobs of the walk's stack: a scan has an empty level there, or none yet.
LEMMA StackJobs ==
    TypeOK /\ PhaseInv /\ JobsInv => AllJobs(stack, listings)
<1> SUFFICES ASSUME TypeOK, PhaseInv, JobsInv
             PROVE  AllJobs(stack, listings)
  OBVIOUS
<1>1. CASE ~Active
  BY <1>1 DEF JobsInv, Levels
<1>2. CASE Active /\ Scanning /\ First
  BY <1>2, LevelsFacts DEF Outer
<1>3. CASE Active /\ ~Scanning
  <2>1. stack # <<>>
    BY <1>3 DEF Active, Scanning, PhaseInv, TypeOK
  <2>2. Levels = stack
    BY <1>3, <2>1, TopFacts DEF Levels, Outer, Inner
  <2>3. QED
    BY <2>2 DEF JobsInv
<1>4. CASE Scanning /\ ~First
  <2>1. /\ stack # <<>> /\ Top.items = <<>> /\ Top.subdirs = <<>> /\ Top.dir = scan.path
    BY <1>4 DEF PhaseInv
  <2>2. Outer = Front(stack) /\ Inner.rest = Top.rest /\ Inner.dir = scan.path
    BY <1>4, InnerScan DEF Outer
  <2>3. AllJobs(Outer, listings) /\ LevelJobs(Inner, listings) /\ Len(Cur) = Len(Outer)
    BY <1>4, LevelsFacts DEF Active, Scanning
  <2>4. LevelJobs(Top, listings) /\ Len(Top.dir) = Len(Front(stack))
    BY <2>1, <2>2, <2>3, MatchNone, EmptySeq DEF LevelJobs, Cur
  <2>5. /\ Front(stack) \in Seq(LevelType) /\ Top \in LevelType
        /\ stack = Append(Front(stack), Top)
    BY <2>1, TopFacts
  <2>6. QED
    BY <2>2, <2>3, <2>4, <2>5, AllJobsAppend
<1>5. QED
  BY <1>1, <1>2, <1>3, <1>4 DEF Active, Scanning

-----------------------------------------------------------------------------
(* Steps keep the base of the invariant.                                   *)

\* The base in terms of the innermost level and those around it.
LEMMA BaseFacts ==
    BaseInv /\ Active
        => /\ AllJobs(Outer, listings) /\ LevelJobs(Inner, listings)
           /\ Len(Inner.dir) = Len(Outer)
           /\ held = HeldBy(Outer) + Holding(Inner.subdirs) + Holding(<<scan.job>>)
           /\ HeldBy(Outer) \in Nat /\ Holding(Inner.subdirs) \in Nat
           /\ Holding(<<scan.job>>) = IF scan.job.opened THEN 1 ELSE 0
           /\ held <= limit /\ limit <= MaxHeld /\ held \in Int /\ limit \in Int
<1> SUFFICES ASSUME BaseInv, Active
             PROVE  /\ AllJobs(Outer, listings) /\ LevelJobs(Inner, listings)
                    /\ Len(Inner.dir) = Len(Outer)
                    /\ held = HeldBy(Outer) + Holding(Inner.subdirs) + Holding(<<scan.job>>)
                    /\ HeldBy(Outer) \in Nat /\ Holding(Inner.subdirs) \in Nat
                    /\ Holding(<<scan.job>>) = IF scan.job.opened THEN 1 ELSE 0
                    /\ held <= limit /\ limit <= MaxHeld /\ held \in Int /\ limit \in Int
  OBVIOUS
<1>1. TypeOK /\ PhaseInv /\ JobsInv /\ HeldInv
  BY DEF BaseInv
<1>2. Holding(<<scan.job>>) = IF scan.job.opened THEN 1 ELSE 0
  BY <1>1, ScanTypes, HoldingOne
<1>3. held \in Int /\ limit \in Int
  BY <1>1 DEF TypeOK
<1>4. QED
  BY <1>1, <1>2, <1>3, LevelsFacts DEF Cur, HeldInv

LEMMA BaseKept ==
    /\ TypeOK /\ PhaseInv /\ Active
    /\ AllJobs(Outer, listings) /\ LevelJobs(Inner, listings)
    /\ Len(Inner.dir) = Len(Outer)
    /\ held = HeldBy(Outer) + Holding(Inner.subdirs) + Holding(<<scan.job>>)
    /\ held <= limit /\ limit <= MaxHeld
    => BaseInv
<1> SUFFICES ASSUME /\ TypeOK /\ PhaseInv /\ Active
                    /\ AllJobs(Outer, listings) /\ LevelJobs(Inner, listings)
                    /\ Len(Inner.dir) = Len(Outer)
                    /\ held = HeldBy(Outer) + Holding(Inner.subdirs) + Holding(<<scan.job>>)
                    /\ held <= limit /\ limit <= MaxHeld
             PROVE  BaseInv
  OBVIOUS
<1>1. JobsInv
  BY LevelsFacts DEF Cur
<1>2. HeldInv
  BY LevelsFacts DEF HeldInv
<1>3. QED
  BY <1>1, <1>2 DEF BaseInv

\* The scan goes on at the same level.
LEMMA ScanGoesOn ==
    ASSUME BaseInv, Scanning, Scanning', TypeOK', PhaseInv',
           stack' = stack, listings' = listings,
           scan'.path = scan.path, scan'.job.start = scan.job.start,
           LevelJobs(Inner', listings),
           held' - Holding(scan'.directories) - Holding(<<scan'.job>>)
               = held - Holding(scan.directories) - Holding(<<scan.job>>),
           held' <= limit', limit' <= MaxHeld
    PROVE  BaseInv'
<1>1. Outer' = Outer
  BY DEF Outer, First
<1>2. Inner.subdirs = scan.directories /\ Inner.dir = scan.path
  BY InnerScan
<1>3. Inner'.subdirs = scan'.directories /\ Inner'.dir = scan'.path
  BY DEF Inner
<1>4. Active /\ Active'
  BY DEF Active, Scanning
<1>5. /\ AllJobs(Outer, listings) /\ Len(Inner.dir) = Len(Outer)
      /\ held = HeldBy(Outer) + Holding(Inner.subdirs) + Holding(<<scan.job>>)
      /\ HeldBy(Outer) \in Nat /\ Holding(Inner.subdirs) \in Nat
      /\ Holding(<<scan.job>>) \in {0, 1} /\ held \in Int
  BY <1>4, BaseFacts
<1>6. held' \in Int /\ Holding(scan'.directories) \in Nat /\ Holding(<<scan'.job>>) \in {0, 1}
  <2>1. held' \in Int
    BY DEF TypeOK
  <2>2. scan'.directories \in Seq(JobType) /\ scan'.job \in JobType
    BY DEF TypeOK, ScanType
  <2>3. QED
    BY <2>1, <2>2, HoldersFinite, HoldingOne
<1> DEFINE outer == HeldBy(Outer)
           sub == Holding(scan.directories)
           subN == Holding(scan'.directories)
           job == Holding(<<scan.job>>)
           jobN == Holding(<<scan'.job>>)
           heldN == held'
<1>7. /\ outer \in Nat /\ sub \in Nat /\ job \in {0, 1} /\ held = outer + sub + job
      /\ subN \in Nat /\ jobN \in {0, 1}
      /\ heldN - subN - jobN = held - sub - job
      /\ held \in Int /\ heldN \in Int
  BY <1>2, <1>5, <1>6
<1> HIDE DEF outer, sub, subN, job, jobN, heldN
<1>8. heldN = outer + subN + jobN
  BY <1>7
<1>9. held' = HeldBy(Outer') + Holding(Inner'.subdirs) + Holding(<<scan'.job>>)
  BY <1>1, <1>3, <1>8 DEF outer, subN, jobN, heldN
<1>10. AllJobs(Outer', listings') /\ LevelJobs(Inner', listings') /\ Len(Inner'.dir) = Len(Outer')
  BY <1>1, <1>2, <1>3, <1>5
<1>11. (/\ TypeOK /\ PhaseInv /\ Active
        /\ AllJobs(Outer, listings) /\ LevelJobs(Inner, listings)
        /\ Len(Inner.dir) = Len(Outer)
        /\ held = HeldBy(Outer) + Holding(Inner.subdirs) + Holding(<<scan.job>>)
        /\ held <= limit /\ limit <= MaxHeld)'
  BY <1>4, <1>9, <1>10
<1>12. QED
  BY <1>11, BaseKept, PTL

\* What the actions that read a scan leave alone.
LEMMA UnreadableStep ==
    ASSUME BaseInv, Scanning, First, ~scan.job.opened, pc = "fill", Unreadable,
           UNCHANGED <<on_error, listings, rows, refusals>>,
           stack' = stack, held' = held, held' <= limit', limit' <= MaxHeld,
           limit' \in Int
    PROVE  BaseInv'
<1>1. TypeOK /\ PhaseInv
  BY DEF BaseInv
<1>2. /\ scan' = [scan EXCEPT !.unreadable = TRUE] /\ pc' = "report"
      /\ failures' = failures \union {Append(scan.path, 0)}
  BY DEF Unreadable
<1>3. scan \in ScanType /\ scan' \in ScanType
  BY <1>1, <1>2 DEF TypeOK, ScanType
<1>4. /\ scan'.path = scan.path /\ scan'.job = scan.job /\ scan'.items = scan.items
      /\ scan'.directories = scan.directories /\ scan'.rest = scan.rest /\ scan'.unreadable
  BY <1>2, <1>3 DEF ScanType
<1>5. TypeOK'
  <2>1. Append(scan.path, 0) \in Seq(Nat)
    BY <1>1, HereType
  <2>2. QED
    BY <1>1, <1>2, <1>3, <2>1 DEF TypeOK
<1>6. Scanning' /\ First'
  BY <1>2, <1>4 DEF Scanning, First
<1>7. PhaseInv'
  BY <1>1, <1>2, <1>4, <1>6 DEF PhaseInv, Scanning, First
<1>8. Inner' = Inner
  BY <1>4, <1>6 DEF Inner
<1>9. LevelJobs(Inner, listings)
  BY BaseFacts DEF Active, Scanning
<1>10. QED
  BY <1>4, <1>5, <1>6, <1>7, <1>8, <1>9, ScanGoesOn

LEMMA FillRefusedBase == BaseInv /\ FillRefused => BaseInv'
<1> SUFFICES ASSUME BaseInv, FillRefused
             PROVE  BaseInv'
  OBVIOUS
<1>1. pc = "fill" /\ Scanning /\ First /\ ~scan.job.opened
  BY DEF FillRefused, Scanning, First, BaseInv, PhaseInv
<1>2. held <= limit /\ limit <= MaxHeld /\ limit \in Int
  BY <1>1, BaseFacts DEF Active
<1>3. QED
  BY <1>1, <1>2, UnreadableStep DEF FillRefused

LEMMA FillOpenedBase == BaseInv /\ FillOpened => BaseInv'
<1> SUFFICES ASSUME BaseInv, FillOpened
             PROVE  BaseInv'
  OBVIOUS
<1>1. TypeOK /\ PhaseInv
  BY DEF BaseInv
<1>2. /\ pc = "fill" /\ pc' = "list" /\ scan.job.opened /\ held' = held - 1
      /\ scan' = [scan EXCEPT !.job.opened = FALSE]
      /\ UNCHANGED <<on_error, stack, limit, history, failed>>
  BY DEF FillOpened
<1>3. scan \in ScanType /\ scan' \in ScanType
  BY <1>1, <1>2 DEF TypeOK, ScanType, JobType
<1>4. /\ scan'.path = scan.path /\ scan'.items = scan.items
      /\ scan'.directories = scan.directories /\ scan'.rest = scan.rest
      /\ scan'.unreadable = scan.unreadable /\ scan'.place = scan.place
      /\ scan'.job.of = scan.job.of /\ scan'.job.start = scan.job.start
      /\ scan'.job.refused = scan.job.refused /\ ~scan'.job.opened
  BY <1>2, <1>3 DEF ScanType, JobType
<1>5. /\ held = HeldBy(Outer) + Holding(Inner.subdirs) + 1
      /\ HeldBy(Outer) \in Nat /\ Holding(Inner.subdirs) \in Nat
      /\ held <= limit /\ limit <= MaxHeld /\ held \in Int /\ limit \in Int
      /\ Holding(<<scan.job>>) = 1 /\ LevelJobs(Inner, listings)
  BY <1>2, BaseFacts DEF Active
<1>6. TypeOK'
  BY <1>1, <1>2, <1>3, <1>5 DEF TypeOK, history
<1>7. Scanning /\ Scanning' /\ (First' <=> First)
  BY <1>2, <1>4 DEF Scanning, First
<1>8. PhaseInv'
  BY <1>1, <1>2, <1>4, <1>7 DEF PhaseInv, Scanning, First, history
<1>9. Inner' = Inner
  BY <1>2, <1>4, <1>7 DEF Inner, Top
<1>10. Holding(<<scan'.job>>) = 0
  BY <1>3, <1>4, HoldingOne DEF ScanType
<1>11. held' - Holding(scan'.directories) - Holding(<<scan'.job>>)
          = held - Holding(scan.directories) - Holding(<<scan.job>>)
  <2>1. scan'.directories = scan.directories /\ Holding(scan.directories) \in Nat
    BY <1>4, <1>5, <1>7, InnerScan
  <2>2. QED
    BY <1>2, <1>5, <1>10, <2>1
<1>12. held' <= limit' /\ limit' <= MaxHeld
  BY <1>2, <1>5
<1>13. QED
  BY <1>2, <1>4, <1>5, <1>6, <1>7, <1>8, <1>9, <1>11, <1>12, ScanGoesOn DEF history

LEMMA FillRestBase == BaseInv /\ FillRest => BaseInv'
<1> SUFFICES ASSUME BaseInv, FillRest
             PROVE  BaseInv'
  OBVIOUS
<1>1. TypeOK /\ PhaseInv
  BY DEF BaseInv
<1>2. /\ pc = "fill" /\ pc' = "entries" /\ scan.job.start > 0
      /\ scan' = [scan EXCEPT !.end = WindowEnd(Listing, scan.job.start)]
      /\ UNCHANGED <<on_error, stack, held, limit, history, failed>>
  BY DEF FillRest
<1>3. Scanning /\ ~First
  BY <1>1, <1>2, ScanTypes DEF Scanning, First
<1>4. WindowEnd(Listing, scan.job.start) \in Nat
  <2>1. /\ scan.path \in DOMAIN listings /\ scan.job.of = scan.path
        /\ scan.job.start \in 1..Len(listings[scan.path])
    BY <1>1, <1>3 DEF PhaseInv
  <2>2. Listing \in Seq(Kinds) /\ scan.job.start \in 1..Len(Listing)
    BY <1>1, <2>1 DEF TypeOK, Listing
  <2>3. Len(Listing) \in Nat /\ scan.job.start \in 0..Len(Listing)
    BY <2>2, LenProperties
  <2>4. WindowEnd(Listing, scan.job.start) \in scan.job.start..Len(Listing)
    BY <2>2, <2>3, WindowEndFacts
  <2>5. QED
    BY <2>3, <2>4
<1>5. scan \in ScanType /\ scan' \in ScanType
  BY <1>1, <1>2, <1>4 DEF TypeOK, ScanType
<1>6. /\ scan'.path = scan.path /\ scan'.items = scan.items
      /\ scan'.directories = scan.directories /\ scan'.rest = scan.rest
      /\ scan'.unreadable = scan.unreadable /\ scan'.place = scan.place /\ scan'.job = scan.job
  BY <1>2, <1>5 DEF ScanType
<1>7. TypeOK'
  BY <1>1, <1>2, <1>5 DEF TypeOK, history
<1>8. Scanning' /\ ~First'
  BY <1>2, <1>3, <1>6 DEF Scanning, First
<1>9. PhaseInv'
  <2>1. ~scan.job.opened /\ ~scan.job.refused /\ ~scan.unreadable
    BY <1>1, <1>2, <1>3 DEF PhaseInv
  <2>2. QED
    BY <1>1, <1>2, <1>3, <1>6, <1>8, <2>1 DEF PhaseInv, Scanning, First, history, Top
<1>10. Inner' = Inner
  BY <1>2, <1>3, <1>6, <1>8 DEF Inner, Top
<1>11. LevelJobs(Inner, listings) /\ held <= limit /\ limit <= MaxHeld
  BY <1>2, BaseFacts DEF Active
<1>12. QED
  BY <1>2, <1>3, <1>6, <1>7, <1>8, <1>9, <1>10, <1>11, ScanGoesOn DEF history

LEMMA OpenBase == BaseInv /\ Open => BaseInv'
<1> SUFFICES ASSUME BaseInv, Open
             PROVE  BaseInv'
  OBVIOUS
<1>1. TypeOK /\ PhaseInv
  BY DEF BaseInv
<1>2. pc = "fill" /\ Scanning /\ First /\ ~scan.job.opened /\ ~scan.job.refused
  BY DEF Open, Opens, Scanning, First
<1>3. held <= limit /\ limit <= MaxHeld /\ limit \in Int /\ LevelJobs(Inner, listings)
  BY <1>2, BaseFacts DEF Active
<1>4. UNCHANGED <<on_error, stack, held, limit, listings, rows, calls, refusals, failed>>
  BY DEF Open
<1>5. CASE Unreadable
  BY <1>2, <1>3, <1>4, <1>5, UnreadableStep
<1>6. CASE pc' = "list" /\ UNCHANGED <<scan, failures>>
  <2>1. TypeOK' /\ PhaseInv'
    BY <1>1, <1>2, <1>4, <1>6 DEF TypeOK, PhaseInv, Scanning, First
  <2>2. Scanning' /\ First' /\ Inner' = Inner
    BY <1>2, <1>4, <1>6 DEF Scanning, First, Inner
  <2>3. QED
    BY <1>2, <1>3, <1>4, <1>6, <2>1, <2>2, ScanGoesOn
<1>7. QED
  BY <1>5, <1>6 DEF Open

\* A release keeps the jobs and closes what they hold.
LEMMA ReleasedJobs ==
    ASSUME NEW levels \in Seq(LevelType), NEW lists, AllJobs(levels, lists)
    PROVE  AllJobs(Released(levels), lists)
<1>1. /\ Released(levels) \in Seq(LevelType) /\ Len(Released(levels)) = Len(levels)
      /\ \A k \in 1..Len(levels) :
            /\ Released(levels)[k].dir = levels[k].dir
            /\ Released(levels)[k].items = levels[k].items
            /\ Released(levels)[k].rest = levels[k].rest
            /\ Released(levels)[k].subdirs = Closed(levels[k].subdirs)
  BY ReleasedFacts
<1>2. DOMAIN levels = 1..Len(levels) /\ DOMAIN Released(levels) = 1..Len(levels)
  BY <1>1, LenProperties
<1>3. ASSUME NEW k \in 1..Len(levels)
      PROVE  LevelJobs(Released(levels)[k], lists) /\ Len(Released(levels)[k].dir) = k - 1
  <2> DEFINE jobs == levels[k].subdirs
             closed == Closed(jobs)
  <2>1. LevelJobs(levels[k], lists) /\ Len(levels[k].dir) = k - 1
    BY <1>2, <1>3 DEF AllJobs
  <2>2. jobs \in Seq(JobType) /\ levels[k] \in LevelType
    <3>1. levels[k] \in LevelType
      BY <1>3, ElementOfSeq
    <3>2. QED
      BY <3>1 DEF LevelType
  <2>3. /\ DOMAIN closed = DOMAIN jobs /\ DOMAIN jobs = 1..Len(jobs) /\ Len(jobs) \in Nat
        /\ \A n \in DOMAIN jobs : closed[n] = [jobs[n] EXCEPT !.opened = FALSE]
    BY <2>2, LenProperties DEF Closed
  <2>4. \A n \in DOMAIN jobs : jobs[n] \in JobType
    BY <2>2, <2>3, ElementOfSeq
  <2>5. \A n \in DOMAIN jobs :
            /\ closed[n].of = jobs[n].of /\ closed[n].start = jobs[n].start
            /\ ~closed[n].opened
    BY <2>3, <2>4 DEF JobType
  <2>6. Len(closed) = Len(jobs)
    <3>1. closed \in Seq(JobType)
      <4>1. \A n \in DOMAIN jobs : closed[n] \in JobType
        BY <2>3, <2>4 DEF JobType
      <4>2. closed \in [1..Len(jobs) -> JobType]
        BY <2>3, <4>1 DEF Closed
      <4>3. QED
        BY <2>3, <4>2, SeqDef
    <3>2. QED
      BY <2>3, <3>1, LenProperties
  <2>7. Match(levels[k].dir, levels[k].items, closed)
    <3> DEFINE items == levels[k].items
               D(m) == DirectoryItems(items, m)
    <3>1. /\ Len(jobs) = D(Len(items))
          /\ \A m \in DOMAIN items : items[m].kind = "directory" =>
                 jobs[D(m)].of = ItemPath(levels[k].dir, items[m])
      BY <2>1 DEF LevelJobs, Match
    <3>2. items \in Seq(ItemType) /\ Len(items) \in Nat /\ DOMAIN items = 1..Len(items)
      BY <2>2, LenProperties DEF LevelType
    <3>3. ASSUME NEW m \in DOMAIN items, items[m].kind = "directory"
          PROVE  D(m) \in DOMAIN jobs
      <4>1. D(m) \in Nat /\ D(m) > 0 /\ D(m) <= D(Len(items))
        <5>1. m \in 1..Len(items) /\ m \in Nat /\ Len(items) \in Nat
          BY <3>2, <3>3
        <5> HIDE DEF items
        <5>2. DirectoryItems(items, m) \in Nat
          BY <5>1, DirectoryItemsFacts
        <5>3. QED
          BY <3>3, <5>1, <5>2, DirectoryItemsGrow
      <4> HIDE DEF D
      <4>2. QED
        BY <2>3, <3>1, <4>1
    <3>4. \A m \in DOMAIN items : items[m].kind = "directory" =>
              closed[D(m)].of = ItemPath(levels[k].dir, items[m])
      BY <2>5, <3>1, <3>3
    <3>5. QED
      BY <2>6, <3>1, <3>4 DEF Match
  <2> HIDE DEF jobs, closed
  <2>8. \A n \in DOMAIN closed : closed[n].start = 0 /\ ~(closed[n].opened /\ closed[n].refused)
    BY <2>1, <2>3, <2>5 DEF LevelJobs, jobs
  <2>9. Released(levels)[k].subdirs = closed
    BY <1>1 DEF closed, jobs
  <2>10. /\ Released(levels)[k].dir = levels[k].dir
         /\ Released(levels)[k].items = levels[k].items
         /\ Released(levels)[k].rest = levels[k].rest
    BY <1>1, <1>3
  <2>11. QED
    BY <2>1, <2>7, <2>8, <2>9, <2>10 DEF LevelJobs
<1>4. QED
  BY <1>2, <1>3 DEF AllJobs

LEMMA OpenStarvedBase == BaseInv /\ OpenStarved => BaseInv'
<1> SUFFICES ASSUME BaseInv, OpenStarved
             PROVE  BaseInv'
  OBVIOUS
<1>1. TypeOK /\ PhaseInv
  BY DEF BaseInv
<1>2. /\ pc = "fill" /\ Scanning /\ First /\ ~scan.job.opened /\ ~scan.job.refused
      /\ scan.directories = <<>>
  BY <1>1 DEF OpenStarved, Opens, Scanning, First, PhaseInv
<1> DEFINE all == HeldBy(stack)
<1>3. /\ Outer = stack /\ Inner.subdirs = <<>> /\ Inner.dir = scan.path
  BY <1>2, InnerScan DEF Outer
<1>4. /\ AllJobs(stack, listings) /\ LevelJobs(Inner, listings) /\ Len(scan.path) = Len(stack)
      /\ held = all + 0 + 0 /\ all \in Nat /\ held <= limit /\ limit <= MaxHeld
      /\ held \in Int /\ limit \in Int
  BY <1>2, <1>3, BaseFacts, HoldingNone DEF Active
<1>5. stack' = Released(stack) /\ HeldBy(Released(stack)) = 0
      /\ stack' \in Seq(LevelType) /\ Len(stack') = Len(stack)
  <2>1. stack \in Seq(LevelType)
    BY <1>1 DEF TypeOK
  <2>2. QED
    BY <2>1, ReleasedFacts DEF OpenStarved
<1>6. /\ held' = 0 /\ limit' = Lesser(limit, held)
      /\ UNCHANGED <<on_error, listings, rows, calls, refusals, failed>>
      /\ UNCHANGED <<pc, scan, failures>> \/ Unreadable
  <2>1. held' = held - (all - HeldBy(Released(stack)))
    BY DEF OpenStarved
  <2>2. held' = 0
    BY <1>4, <1>5, <2>1
  <2>3. QED
    BY <2>2 DEF OpenStarved, RanOut
<1>7. held' <= limit' /\ limit' <= MaxHeld /\ limit' \in Int
  <2>1. MaxHeld \in Nat
    BY ScanAssumption
  <2>2. QED
    BY <1>4, <1>6, <2>1 DEF Lesser
<1>8. /\ scan' \in ScanType /\ failures' \subseteq Seq(Nat)
      /\ scan'.path = scan.path /\ scan'.job = scan.job /\ scan'.items = scan.items
      /\ scan'.directories = scan.directories /\ scan'.rest = scan.rest
      /\ scan'.place = scan.place
      /\ \/ pc' = "fill" /\ scan' = scan
         \/ pc' = "report"
  <2>1. CASE UNCHANGED <<pc, scan, failures>>
    BY <1>1, <1>2, <2>1 DEF TypeOK
  <2>2. CASE Unreadable
    <3>1. /\ scan' = [scan EXCEPT !.unreadable = TRUE] /\ pc' = "report"
          /\ failures' = failures \union {Append(scan.path, 0)}
      BY <2>2 DEF Unreadable
    <3>2. scan \in ScanType /\ scan' \in ScanType /\ failures \subseteq Seq(Nat)
      BY <1>1, <3>1 DEF TypeOK, ScanType
    <3>3. failures' \subseteq Seq(Nat)
      BY <1>1, <3>1, <3>2, HereType
    <3>4. QED
      BY <3>1, <3>2, <3>3 DEF ScanType
  <2>3. QED
    BY <1>6, <2>1, <2>2
<1>9. TypeOK'
  BY <1>1, <1>5, <1>6, <1>7, <1>8 DEF TypeOK
<1>10. Scanning' /\ First' /\ Active'
  BY <1>2, <1>8 DEF Scanning, First, Active
<1>11. PhaseInv'
  BY <1>1, <1>2, <1>8, <1>10 DEF PhaseInv, Scanning, First
<1>12. Outer' = Released(stack) /\ Inner' = Inner
  BY <1>2, <1>5, <1>8, <1>10 DEF Outer, Inner
<1>13. AllJobs(Released(stack), listings)
  BY <1>1, <1>4, ReleasedJobs DEF TypeOK
<1>14. Holding(<<scan'.job>>) = 0
  BY <1>2, <1>8, HoldingOne DEF ScanType
<1>15. held' = HeldBy(Outer') + Holding(Inner'.subdirs) + Holding(<<scan'.job>>)
  BY <1>3, <1>5, <1>6, <1>12, <1>14, HoldingNone
<1>16. (/\ TypeOK /\ PhaseInv /\ Active
        /\ AllJobs(Outer, listings) /\ LevelJobs(Inner, listings)
        /\ Len(Inner.dir) = Len(Outer)
        /\ held = HeldBy(Outer) + Holding(Inner.subdirs) + Holding(<<scan.job>>)
        /\ held <= limit /\ limit <= MaxHeld)'
  BY <1>3, <1>4, <1>5, <1>6, <1>7, <1>9, <1>10, <1>11, <1>12, <1>13, <1>15
<1>17. QED
  BY <1>16, BaseKept, PTL

\* The jobs of the later windows of the listing of the directory at path.
RestOf(path, listing) ==
    [k \in DOMAIN LaterStarts(listing) |-> RestJob(path, LaterStarts(listing)[k])]

LEMMA RestOfFacts ==
    ASSUME NEW path \in Seq(Nat), NEW listing \in Seq(Kinds)
    PROVE  LET rest == RestOf(path, listing)
               first == WindowEnd(listing, 0)
           IN  /\ rest \in Seq(JobType)
               /\ rest = <<>> => first = Len(listing)
               /\ rest # <<>> => rest[1].start = first
               /\ \A n \in 1..Len(rest) :
                     /\ rest[n].of = path /\ ~rest[n].opened /\ ~rest[n].refused
                     /\ rest[n].start \in 1..(Len(listing) - 1)
                     /\ rest[n].start \in 1..Len(listing)
                     /\ WindowEnd(listing, rest[n].start)
                            = IF n < Len(rest) THEN rest[n + 1].start ELSE Len(listing)
               /\ first \in 0..Len(listing)
<1> DEFINE rest == RestOf(path, listing)
           starts == LaterStarts(listing)
           first == WindowEnd(listing, 0)
           N == Len(listing)
<1>1. N \in Nat /\ 0 \in 0..N
  BY LenProperties
<1>2. first \in 0..N /\ (0 < N => 0 < first)
  BY <1>1, WindowEndFacts
<1>3. Tiles(listing, starts, first)
  BY LaterStartsTile
<1>4. /\ starts \in Seq(Nat) /\ DOMAIN starts = 1..Len(starts) /\ Len(starts) \in Nat
      /\ first = N => starts = <<>>
      /\ first < N => starts # <<>> /\ starts[1] = first
      /\ \A n \in 1..Len(starts) :
            /\ starts[n] \in first..(N - 1)
            /\ WindowEnd(listing, starts[n]) = IF n < Len(starts) THEN starts[n + 1] ELSE N
  BY <1>3, LenProperties DEF Tiles
<1>5. \A n \in 1..Len(starts) : starts[n] \in 1..(N - 1) /\ starts[n] \in 1..N /\ starts[n] \in Nat
  BY <1>1, <1>2, <1>4
<1>6. \A n \in 1..Len(starts) :
          /\ RestJob(path, starts[n]) \in JobType
          /\ RestJob(path, starts[n]).start = starts[n]
          /\ RestJob(path, starts[n]).of = path
          /\ ~RestJob(path, starts[n]).opened /\ ~RestJob(path, starts[n]).refused
  BY <1>5 DEF RestJob, JobType
<1>7. rest \in [1..Len(starts) -> JobType] /\ \A n \in 1..Len(starts) : rest[n] = RestJob(path, starts[n])
  BY <1>4, <1>6 DEF RestOf
<1>8. rest \in Seq(JobType) /\ Len(rest) = Len(starts)
  <2>1. rest \in Seq(JobType)
    <3> DEFINE n == Len(starts)
    <3>1. n \in Nat /\ rest \in [1..n -> JobType]
      BY <1>4, <1>7
    <3> HIDE DEF n, rest
    <3>2. QED
      BY <3>1, SeqDef
  <2>2. DOMAIN rest = 1..Len(starts)
    BY <1>7
  <2>3. QED
    BY <1>4, <2>1, <2>2, LenProperties
<1> HIDE DEF rest, starts
<1>9. rest = <<>> => first = N
  <2>1. SUFFICES ASSUME rest = <<>>
                 PROVE  first = N
    OBVIOUS
  <2>2. starts = <<>>
    BY <1>4, <1>8, <2>1, EmptySeq
  <2>3. QED
    BY <1>1, <1>2, <1>4, <2>2
<1>10. rest # <<>> => rest[1].start = first
  <2>1. SUFFICES ASSUME rest # <<>>
                 PROVE  rest[1].start = first
    OBVIOUS
  <2>2. Len(starts) # 0 /\ 1 \in 1..Len(starts)
    BY <1>4, <1>8, <2>1, EmptySeq
  <2>3. starts # <<>>
    BY <2>2, EmptySeq
  <2>4. first < N
    BY <1>1, <1>2, <1>4, <2>3
  <2>5. QED
    BY <1>4, <1>6, <1>7, <2>2, <2>4
<1>11. \A n \in 1..Len(rest) :
           /\ rest[n].of = path /\ ~rest[n].opened /\ ~rest[n].refused
           /\ rest[n].start = starts[n]
  BY <1>6, <1>7, <1>8
<1>12. ASSUME NEW n \in 1..Len(rest)
       PROVE  WindowEnd(listing, rest[n].start) = IF n < Len(rest) THEN rest[n + 1].start ELSE N
  <2>1. n < Len(rest) => n + 1 \in 1..Len(rest)
    BY <1>4, <1>8
  <2>2. QED
    BY <1>4, <1>8, <1>11, <2>1
<1>13. QED
  BY <1>2, <1>5, <1>8, <1>9, <1>10, <1>11, <1>12 DEF rest

\* What List does.
LEMMA ListFacts ==
    ASSUME TypeOK, PhaseInv, List
    PROVE  \E listing \in Seq(Kinds) :
              /\ pc = "list" /\ Scanning /\ First /\ ~scan.job.opened
              /\ scan.directories = <<>> /\ scan.items = <<>> /\ ~scan.unreadable
              /\ DOMAIN listings' = {scan.path} \union DOMAIN listings
              /\ listings'[scan.path] = listing
              /\ \A dir \in DOMAIN listings : dir # scan.path => listings'[dir] = listings[dir]
              /\ scan' \in ScanType
              /\ scan'.path = scan.path /\ scan'.job = scan.job /\ scan'.place = scan.place
              /\ scan'.directories = <<>> /\ ~scan'.unreadable
              /\ scan.place = 0
              /\ UNCHANGED <<on_error, stack, held, limit, rows, calls, refusals, failed>>
              /\ \/ /\ pc' = "entries" /\ scan'.items = <<>> /\ failures' = failures
                    /\ scan'.end = WindowEnd(listing, 0) /\ scan'.rest = RestOf(scan.path, listing)
                 \/ /\ pc' = "entries" /\ scan'.items = <<Item("failed", 0)>> /\ on_error # "Fail"
                    /\ failures' = failures \union {Append(scan.path, 0)}
                    /\ scan'.end = WindowEnd(listing, 0) /\ scan'.rest = RestOf(scan.path, listing)
                 \/ /\ pc' = "report" /\ scan'.items = <<Item("failed", 0)>> /\ on_error = "Fail"
                    /\ failures' = failures \union {Append(scan.path, 0)}
                    /\ scan'.rest = <<>>
<1>1. PICK listing \in Listings : ListWhole(listing) \/ ListCut(listing)
  BY DEF List
<1>2. listing \in Seq(Kinds)
  <2>1. PICK n \in 0..MaxEntries : listing \in [1..n -> Kinds]
    BY DEF Listings
  <2>2. n \in Nat
    BY <2>1, ScanAssumption
  <2>3. QED
    BY <2>1, <2>2, SeqDef
<1>3. /\ pc = "list" /\ Scanning /\ First /\ ~scan.job.opened
      /\ scan.directories = <<>> /\ scan.items = <<>> /\ ~scan.unreadable
      /\ scan.place = 0 /\ scan.rest = <<>>
  <2>1. pc = "list" /\ Scanning
    BY DEF List, Scanning
  <2>2. First
    BY <2>1 DEF PhaseInv
  <2>3. QED
    BY <2>1, <2>2 DEF PhaseInv, First
<1>4. UNCHANGED <<on_error, stack, held, limit, rows, calls, refusals, failed>>
  BY DEF List
<1>5. listings' = Known(listing)
  BY <1>1 DEF ListWhole, ListCut
<1>6. /\ DOMAIN listings' = {scan.path} \union DOMAIN listings
      /\ listings'[scan.path] = listing
      /\ \A dir \in DOMAIN listings : dir # scan.path => listings'[dir] = listings[dir]
  BY <1>5 DEF Known
<1>7. /\ WindowEnd(listing, 0) \in Nat /\ RestOf(scan.path, listing) \in Seq(JobType)
      /\ <<Item("failed", 0)>> \in Seq(ItemType) /\ scan.path \in Seq(Nat)
  <2>1. scan.path \in Seq(Nat)
    BY ScanTypes
  <2>2. WindowEnd(listing, 0) \in 0..Len(listing) /\ Len(listing) \in Nat
    BY <1>2, <2>1, RestOfFacts, LenProperties
  <2>3. Item("failed", 0) \in ItemType
    BY ItemTypes
  <2>4. QED
    BY <1>2, <2>1, <2>2, <2>3, RestOfFacts, EmptySeq, AppendProperties
<1>8. scan \in ScanType
  BY DEF TypeOK
<1>9. CASE ListWhole(listing)
  <2>1. /\ pc' = "entries" /\ failures' = failures
        /\ scan' = [scan EXCEPT !.end = WindowEnd(listing, 0), !.rest = RestOf(scan.path, listing)]
    BY <1>9 DEF ListWhole, RestOf
  <2>2. scan' \in ScanType
    BY <1>7, <1>8, <2>1 DEF ScanType
  <2>3. QED
    BY <1>2, <1>3, <1>4, <1>6, <1>8, <2>1, <2>2 DEF ScanType
<1>10. CASE ListCut(listing)
  <2>1. /\ failures' = failures \union {Append(scan.path, 0)}
        /\ \/ /\ on_error = "Fail" /\ pc' = "report"
              /\ scan' = [scan EXCEPT !.items = <<Item("failed", 0)>>]
           \/ /\ on_error # "Fail" /\ pc' = "entries"
              /\ scan' = [[scan EXCEPT !.items = <<Item("failed", 0)>>]
                             EXCEPT !.end = WindowEnd(listing, 0), !.rest = RestOf(scan.path, listing)]
    BY <1>10 DEF ListCut, RestOf
  <2>2. scan' \in ScanType
    BY <1>7, <1>8, <2>1 DEF ScanType
  <2>3. QED
    BY <1>2, <1>3, <1>4, <1>6, <1>8, <2>1, <2>2 DEF ScanType
<1>11. QED
  BY <1>1, <1>9, <1>10

LEMMA ListBase == BaseInv /\ List => BaseInv'
<1> SUFFICES ASSUME BaseInv, List
             PROVE  BaseInv'
  OBVIOUS
<1>1. TypeOK /\ PhaseInv
  BY DEF BaseInv
<1>2. PICK listing \in Seq(Kinds) :
              /\ pc = "list" /\ Scanning /\ First /\ ~scan.job.opened
              /\ scan.directories = <<>> /\ scan.items = <<>> /\ ~scan.unreadable
              /\ DOMAIN listings' = {scan.path} \union DOMAIN listings
              /\ listings'[scan.path] = listing
              /\ \A dir \in DOMAIN listings : dir # scan.path => listings'[dir] = listings[dir]
              /\ scan' \in ScanType
              /\ scan'.path = scan.path /\ scan'.job = scan.job /\ scan'.place = scan.place
              /\ scan'.directories = <<>> /\ ~scan'.unreadable
              /\ UNCHANGED <<on_error, stack, held, limit, rows, calls, refusals, failed>>
              /\ pc' \in {"entries", "report"}
              /\ scan'.items = <<>> \/ scan'.items = <<Item("failed", 0)>>
              /\ failures' = failures \/ failures' = failures \union {Append(scan.path, 0)}
              /\ scan'.rest = RestOf(scan.path, listing) \/ scan'.rest = <<>>
  BY <1>1, ListFacts
<1>3. TypeOK'
  <2>1. Append(scan.path, 0) \in Seq(Nat) /\ scan.path \in Seq(Nat)
    BY <1>1, HereType, ScanTypes
  <2>2. \A dir \in DOMAIN listings' : listings'[dir] \in Seq(Kinds)
    BY <1>1, <1>2 DEF TypeOK
  <2>3. QED
    BY <1>1, <1>2, <2>1, <2>2 DEF TypeOK
<1>4. Active /\ Active' /\ Scanning' /\ First'
  BY <1>2 DEF Active, Scanning, First
<1>5. PhaseInv'
  BY <1>1, <1>2, <1>4 DEF PhaseInv, Scanning, First
<1>6. /\ Outer = stack /\ Outer' = stack
      /\ Inner.dir = scan.path /\ Inner.subdirs = <<>>
      /\ Inner'.dir = scan.path /\ Inner'.subdirs = <<>>
      /\ Inner'.items = scan'.items /\ Inner'.rest = scan'.rest
  BY <1>2, <1>4 DEF Outer, Inner
<1>7. /\ AllJobs(stack, listings) /\ Len(scan.path) = Len(stack)
      /\ held = HeldBy(stack) + Holding(<<>>) + Holding(<<scan.job>>)
      /\ held <= limit /\ limit <= MaxHeld
  BY <1>4, <1>6, BaseFacts
<1>8. AllJobs(stack, listings')
  <2>1. Len(stack) \in Nat /\ DOMAIN stack = 1..Len(stack)
    BY <1>1, LenProperties DEF TypeOK
  <2>2. ASSUME NEW k \in DOMAIN stack
        PROVE  stack[k].dir # scan.path
    BY <1>7, <2>1, <2>2 DEF AllJobs
  <2>3. ASSUME NEW k \in DOMAIN stack
        PROVE  LevelJobs(stack[k], listings') /\ Len(stack[k].dir) = k - 1
    <3>1. LevelJobs(stack[k], listings) /\ Len(stack[k].dir) = k - 1
      BY <1>7, <2>3 DEF AllJobs
    <3>2. stack[k].rest # <<>> => stack[k].dir \in DOMAIN listings
      BY <3>1 DEF LevelJobs
    <3>3. stack[k].rest # <<>> => stack[k].dir \in DOMAIN listings'
                                  /\ listings'[stack[k].dir] = listings[stack[k].dir]
      BY <1>2, <2>2, <3>2
    <3>4. stack[k].rest = <<>> => DOMAIN stack[k].rest = {}
      BY EmptySeq
    <3>5. QED
      BY <3>1, <3>3, <3>4 DEF LevelJobs
  <2>4. QED
    BY <2>3 DEF AllJobs
<1>9. LevelJobs(Inner', listings')
  <2>1. Match(Inner'.dir, Inner'.items, Inner'.subdirs)
    <3>1. Match(scan.path, <<>>, <<>>)
      BY MatchNone
    <3> DEFINE cut == Item("failed", 0)
    <3>2. <<>> \in Seq(ItemType) /\ <<>> \in Seq(JobType)
          /\ cut \in ItemType /\ cut.kind # "directory"
      BY EmptySeq, ItemTypes DEF Item
    <3> HIDE DEF cut
    <3>3. Match(scan.path, Append(<<>>, cut), <<>>)
      <4>1. RestJob(<<>>, 0) \in JobType
        BY EmptySeq DEF RestJob, JobType
      <4>2. QED
        BY <3>1, <3>2, <4>1, MatchAppend
    <3>4. Append(<<>>, cut) = <<cut>>
      OBVIOUS
    <3>5. QED
      BY <1>2, <1>6, <3>1, <3>3, <3>4 DEF cut
  <2>2. \A m \in DOMAIN Inner'.items : Inner'.items[m].place = 0 => Inner'.items[m].kind = "failed"
    BY <1>2, <1>6 DEF Item
  <2>3. /\ \A n \in DOMAIN Inner'.rest :
              /\ Inner'.rest[n].of = Inner'.dir
              /\ Inner'.rest[n].start \in 1..Len(listings'[Inner'.dir])
              /\ ~Inner'.rest[n].opened /\ ~Inner'.rest[n].refused
        /\ Inner'.rest # <<>> => Inner'.dir \in DOMAIN listings'
    <3>1. CASE scan'.rest = <<>>
      BY <1>6, <3>1, EmptySeq
    <3>2. CASE scan'.rest = RestOf(scan.path, listing)
      <4>1. /\ scan'.rest \in Seq(JobType)
            /\ \A n \in 1..Len(scan'.rest) :
                  /\ scan'.rest[n].of = scan.path
                  /\ ~scan'.rest[n].opened /\ ~scan'.rest[n].refused
                  /\ scan'.rest[n].start \in 1..Len(listing)
        BY <1>1, <3>2, RestOfFacts, ScanTypes
      <4>2. DOMAIN scan'.rest = 1..Len(scan'.rest)
        BY <4>1, LenProperties
      <4>3. QED
        BY <1>2, <1>6, <4>1, <4>2
    <3>3. QED
      BY <1>2, <3>1, <3>2
  <2>4. \A n \in DOMAIN Inner'.subdirs :
          Inner'.subdirs[n].start = 0 /\ ~(Inner'.subdirs[n].opened /\ Inner'.subdirs[n].refused)
    BY <1>6, EmptySeq
  <2>5. QED
    BY <2>1, <2>2, <2>3, <2>4 DEF LevelJobs
<1>10. (/\ TypeOK /\ PhaseInv /\ Active
        /\ AllJobs(Outer, listings) /\ LevelJobs(Inner, listings)
        /\ Len(Inner.dir) = Len(Outer)
        /\ held = HeldBy(Outer) + Holding(Inner.subdirs) + Holding(<<scan.job>>)
        /\ held <= limit /\ limit <= MaxHeld)'
  BY <1>2, <1>3, <1>4, <1>5, <1>6, <1>7, <1>8, <1>9
<1>11. QED
  BY <1>10, BaseKept, PTL

\* An entry is read: its item, if it has one, comes after those of its level, and
\* its job after the others when it is a directory.
LEMMA LevelJobsAppend ==
    ASSUME NEW level \in LevelType, NEW more \in LevelType, NEW lists,
           NEW item \in ItemType, NEW job \in JobType,
           LevelJobs(level, lists), item.place > 0,
           more.dir = level.dir, more.rest = level.rest, more.items = Append(level.items, item),
           \/ item.kind # "directory" /\ more.subdirs = level.subdirs
           \/ /\ item.kind = "directory" /\ more.subdirs = Append(level.subdirs, job)
              /\ job.of = Append(level.dir, item.place)
              /\ job.start = 0 /\ ~(job.opened /\ job.refused)
    PROVE  LevelJobs(more, lists)
<1>1. level.items \in Seq(ItemType) /\ level.subdirs \in Seq(JobType)
  BY DEF LevelType
<1>2. Match(level.dir, level.items, level.subdirs)
  BY DEF LevelJobs
<1>3. item.kind = "directory" => ItemPath(level.dir, item) = Append(level.dir, item.place)
  BY DEF ItemPath
<1>4. Match(more.dir, more.items, more.subdirs)
  BY <1>1, <1>2, <1>3, MatchAppend
<1>5. \A m \in DOMAIN more.items : more.items[m].place = 0 => more.items[m].kind = "failed"
  BY <1>1, AppendProperties, LenProperties DEF LevelJobs
<1>6. \A n \in DOMAIN more.subdirs :
          more.subdirs[n].start = 0 /\ ~(more.subdirs[n].opened /\ more.subdirs[n].refused)
  <2>1. \A n \in DOMAIN level.subdirs :
            level.subdirs[n].start = 0 /\ ~(level.subdirs[n].opened /\ level.subdirs[n].refused)
    BY DEF LevelJobs
  <2>2. CASE more.subdirs = Append(level.subdirs, job) /\ job.start = 0 /\ ~(job.opened /\ job.refused)
    BY <1>1, <2>1, <2>2, AppendProperties, LenProperties
  <2>3. CASE more.subdirs = level.subdirs
    BY <2>1, <2>3
  <2>4. QED
    BY <2>2, <2>3
<1>7. QED
  BY <1>4, <1>5, <1>6 DEF LevelJobs

\* An entry is read into an item, and into a job when it is a directory.
LEMMA EntryReadBase ==
    ASSUME BaseInv, Reading, NEW kind \in {"special", "file", "directory", "failed"},
           NEW job \in JobType, NEW directories \in Seq(JobType),
           scan' = [scan EXCEPT !.place = Place, !.items = Append(scan.items, Item(kind, Place)),
                                !.directories = directories],
           \/ kind # "directory" /\ directories = scan.directories /\ held' = held
           \/ /\ kind = "directory" /\ directories = Append(scan.directories, job)
              /\ job.of = Here /\ job.start = 0 /\ ~(job.opened /\ job.refused)
              /\ held' = held + Holding(<<job>>),
           pc' \in {"entries", "report"},
           failures' = failures \/ failures' = failures \union {Here},
           limit' \in Int, held' <= limit', limit' <= MaxHeld,
           UNCHANGED <<on_error, stack, listings, rows, refusals>>
    PROVE  BaseInv'
<1>1. TypeOK /\ PhaseInv
  BY DEF BaseInv
<1>2. /\ pc = "entries" /\ Active /\ Scanning /\ Scanning'
  BY DEF Reading, Active, Scanning
<1>3. ~scan.job.opened /\ ~scan.unreadable
  BY <1>1, <1>2 DEF PhaseInv
<1> DEFINE item == Item(kind, Place)
<1>4. /\ Place \in Nat /\ Place > 0 /\ Here \in Seq(Nat) /\ item \in ItemType
      /\ item.place = Place /\ item.kind = kind
  <2>1. Place \in Nat /\ Place > 0
    BY <1>1, ScanTypes DEF Place
  <2>2. QED
    BY <1>1, <2>1, HereType, ItemTypes DEF Item
<1> HIDE DEF item
<1>5. scan \in ScanType /\ scan.items \in Seq(ItemType)
      /\ Append(scan.items, item) \in Seq(ItemType)
  BY <1>1, <1>4, ScanTypes, AppendProperties DEF TypeOK
<1>6. scan' = [scan EXCEPT !.place = Place, !.items = Append(scan.items, item),
                           !.directories = directories]
  BY DEF item
<1>7. /\ scan' \in ScanType /\ scan'.path = scan.path /\ scan'.job = scan.job
      /\ scan'.rest = scan.rest /\ scan'.unreadable = scan.unreadable
      /\ scan'.items = Append(scan.items, item) /\ scan'.directories = directories
  BY <1>4, <1>5, <1>6 DEF ScanType
<1>8. held' \in Int
  <2>1. held \in Int /\ Holding(<<job>>) \in Int
    BY <1>1, HoldingOne DEF TypeOK
  <2>2. QED
    BY <2>1
<1>9. TypeOK'
  BY <1>1, <1>4, <1>7, <1>8 DEF TypeOK
<1>10. First' <=> First
  BY <1>7 DEF First
<1>11. PhaseInv'
  BY <1>1, <1>2, <1>3, <1>7, <1>10 DEF PhaseInv, Scanning, First, Top
<1>12. LevelJobs(Inner', listings)
  <2>1. LevelJobs(Inner, listings) /\ Inner \in LevelType
    BY <1>1, <1>2, BaseFacts, LevelsFacts
  <2>2. /\ Inner.dir = scan.path /\ Inner.items = scan.items /\ Inner.subdirs = scan.directories
        /\ Inner'.dir = scan.path /\ Inner'.items = Append(scan.items, item)
        /\ Inner'.subdirs = directories /\ Inner'.rest = Inner.rest
    BY <1>2, <1>7, <1>10 DEF Inner, Top
  <2>3. Inner' \in LevelType
    <3>1. (TypeOK /\ PhaseInv /\ Active)'
      BY <1>2, <1>9, <1>11 DEF Active, Scanning
    <3>2. (Inner \in LevelType)'
      BY <3>1, LevelsFacts, PTL
    <3>3. QED
      BY <3>2
  <2>4. kind = "directory" => job.of = Append(Inner.dir, item.place)
    BY <1>4, <2>2 DEF Here
  <2>5. \/ item.kind # "directory" /\ Inner'.subdirs = Inner.subdirs
        \/ /\ item.kind = "directory" /\ Inner'.subdirs = Append(Inner.subdirs, job)
           /\ job.of = Append(Inner.dir, item.place)
           /\ job.start = 0 /\ ~(job.opened /\ job.refused)
    BY <1>4, <2>2, <2>4
  <2>6. QED
    BY <1>4, <2>1, <2>2, <2>3, <2>5, LevelJobsAppend
<1>13. held' - Holding(scan'.directories) - Holding(<<scan'.job>>)
           = held - Holding(scan.directories) - Holding(<<scan.job>>)
  <2> DEFINE old == Holding(scan.directories)
             new == Holding(directories)
             one == Holding(<<job>>)
             own == Holding(<<scan.job>>)
  <2>1. /\ old \in Nat /\ one \in Nat /\ own \in Nat /\ held \in Int
        /\ (new = old /\ held' = held) \/ (new = old + one /\ held' = held + one)
    <3>1. scan.directories \in Seq(JobType) /\ scan.job \in JobType /\ held \in Int
      BY <1>1, ScanTypes DEF TypeOK
    <3>2. old \in Nat /\ one \in Nat /\ own \in Nat
      BY <3>1, HoldersFinite, HoldingOne
    <3>3. directories = Append(scan.directories, job) => new = old + one
      BY <3>1, HoldingAppend
    <3>4. \/ directories = scan.directories /\ held' = held
          \/ directories = Append(scan.directories, job) /\ held' = held + one
      OBVIOUS
    <3>5. directories = scan.directories => new = old
      OBVIOUS
    <3> HIDE DEF old, new, one, own
    <3>6. QED
      BY <3>1, <3>2, <3>3, <3>4, <3>5
  <2> HIDE DEF old, new, one, own
  <2>2. held' - new - own = held - old - own
    BY <2>1
  <2>3. QED
    BY <1>7, <2>2 DEF old, new, own
<1>14. QED
  BY <1>2, <1>7, <1>9, <1>11, <1>12, <1>13, ScanGoesOn

LEMMA EntriesBase == BaseInv /\ Entries => BaseInv'
<1> SUFFICES ASSUME BaseInv, Entries
             PROVE  BaseInv'
  OBVIOUS
<1>1. TypeOK /\ PhaseInv
  BY DEF BaseInv
<1>2. /\ pc = "entries" /\ Active /\ Scanning
  BY DEF Entries, EntrySpecial, EntryRefused, EntryFile, EntryDirectory, EntriesEnd, Reading,
         Active, Scanning
<1>3. /\ held <= limit /\ limit <= MaxHeld /\ held \in Int /\ limit \in Int
      /\ LevelJobs(Inner, listings) /\ ~scan.job.opened /\ ~scan.unreadable
  BY <1>1, <1>2, BaseFacts DEF PhaseInv
<1>4. NoScan.job \in JobType
  BY NoScanFacts DEF ScanType
<1>5. /\ scan \in ScanType /\ scan.directories \in Seq(JobType)
      /\ \A kind \in {"failed", "special", "file", "directory"} :
            Read(Item(kind, Place))
               = [scan EXCEPT !.place = Place, !.items = Append(scan.items, Item(kind, Place)),
                              !.directories = scan.directories]
  <2>1. TypeOK /\ scan \in ScanType
    BY <1>1 DEF TypeOK
  <2>2. scan.directories \in Seq(JobType)
    BY <2>1, ScanTypes
  <2>3. ASSUME NEW kind \in {"failed", "special", "file", "directory"}
        PROVE  Read(Item(kind, Place))
                   = [scan EXCEPT !.place = Place,
                                  !.items = Append(scan.items, Item(kind, Place)),
                                  !.directories = scan.directories]
    <3>1. Read(Item(kind, Place))
              = [scan EXCEPT !.place = Place, !.items = Append(scan.items, Item(kind, Place))]
      BY <2>1, HereType
    <3>2. QED
      BY <2>1, <3>1 DEF ScanType
  <2>4. QED
    BY <2>1, <2>2, <2>3
<1>6. CASE EntrySpecial
  BY <1>3, <1>4, <1>5, <1>6, EntryReadBase DEF EntrySpecial, history, Reading
<1>7. CASE EntryFile
  <2>1. Reading /\ UNCHANGED <<on_error, stack, held, limit, listings, rows, refusals>>
        /\ (\/ scan' = Read(Item("failed", Place)) \/ scan' = Read(Item("file", Place)))
        /\ pc' \in {"entries", "report"}
        /\ (failures' = failures \/ failures' = failures \union {Here})
    BY <1>7 DEF EntryFile, FailedHere, Reading
  <2>2. QED
    BY <1>3, <1>4, <1>5, <2>1, EntryReadBase
<1>8. CASE EntryDirectory
  <2>1. PICK ahead \in OpenAhead :
            /\ Reading /\ limit' = ahead.limit
            /\ UNCHANGED <<on_error, stack, listings, rows, refusals>>
            /\ \/ FailedHere /\ held' = held
               \/ /\ scan' = [Read(Item("directory", Place)) EXCEPT
                                 !.directories = Append(@, ahead.job)]
                  /\ held' = held + Holding(<<ahead.job>>) /\ UNCHANGED <<pc, failures>>
    BY <1>8 DEF EntryDirectory
  <2>2. /\ ahead.job \in JobType /\ ahead.limit \in Int
        /\ ahead.job.of = Here /\ ahead.job.start = 0
        /\ ~(ahead.job.opened /\ ahead.job.refused)
        /\ Holding(<<ahead.job>>) = IF ahead.job.opened THEN 1 ELSE 0
        /\ ahead.job.opened => held < limit /\ ahead.limit = limit
        /\ ahead.limit = limit \/ (ahead.limit <= limit /\ held <= ahead.limit)
    BY <1>1, OpenAheadFacts
  <2>3. limit' \in Int /\ held <= limit' /\ limit' <= MaxHeld
        /\ held + Holding(<<ahead.job>>) <= limit'
    <3>1. MaxHeld \in Int
      BY ScanAssumption
    <3>2. QED
      BY <1>3, <2>1, <2>2, <3>1
  <2>4. CASE FailedHere /\ held' = held
    <3>1. /\ scan' = Read(Item("failed", Place)) /\ pc' \in {"entries", "report"}
          /\ failures' = failures \union {Here}
      BY <2>4 DEF FailedHere
    <3>2. QED
      BY <1>4, <1>5, <2>1, <2>3, <2>4, <3>1, EntryReadBase
  <2>5. CASE /\ scan' = [Read(Item("directory", Place)) EXCEPT
                            !.directories = Append(@, ahead.job)]
             /\ held' = held + Holding(<<ahead.job>>) /\ UNCHANGED <<pc, failures>>
    <3>1. Append(scan.directories, ahead.job) \in Seq(JobType)
      BY <1>5, <2>2, AppendProperties
    <3>2. scan' = [scan EXCEPT !.place = Place,
                               !.items = Append(scan.items, Item("directory", Place)),
                               !.directories = Append(scan.directories, ahead.job)]
      BY <1>5, <2>5 DEF ScanType
    <3>3. QED
      BY <1>2, <2>1, <2>2, <2>3, <2>5, <3>1, <3>2, EntryReadBase
  <2>6. QED
    BY <2>1, <2>4, <2>5
<1>9. CASE EntryRefused
  <2>1. /\ pc' = pc /\ scan' = [scan EXCEPT !.place = Place]
        /\ refusals' = refusals \union {Here}
        /\ UNCHANGED <<on_error, stack, held, limit, listings, rows, failures>>
    BY <1>9 DEF EntryRefused
  <2>2. Place \in Nat /\ Here \in Seq(Nat)
    BY <1>1, HereType
  <2>3. /\ scan' \in ScanType /\ scan'.path = scan.path /\ scan'.job = scan.job
        /\ scan'.rest = scan.rest /\ scan'.unreadable = scan.unreadable
        /\ scan'.items = scan.items /\ scan'.directories = scan.directories
    BY <1>5, <2>1, <2>2 DEF ScanType
  <2>4. TypeOK'
    BY <1>1, <2>1, <2>2, <2>3 DEF TypeOK
  <2>5. Scanning' /\ (First' <=> First)
    BY <1>2, <2>1, <2>3 DEF First, Scanning
  <2>6. PhaseInv'
    BY <1>1, <1>2, <1>3, <2>1, <2>3, <2>5 DEF PhaseInv, Scanning, First, Top
  <2>7. Inner' = Inner
    BY <1>2, <2>1, <2>3, <2>5 DEF Inner, Top
  <2>8. QED
    BY <1>2, <1>3, <2>1, <2>3, <2>4, <2>5, <2>6, <2>7, ScanGoesOn
<1>10. CASE EntriesEnd
  <2>1. /\ pc' = "report" /\ UNCHANGED <<on_error, stack, scan, held, limit, history, failed>>
    BY <1>10 DEF EntriesEnd
  <2>2. TypeOK' /\ Scanning' /\ (First' <=> First)
    BY <1>1, <2>1 DEF TypeOK, history, Scanning, First
  <2>3. PhaseInv'
    BY <1>1, <1>2, <1>3, <2>1, <2>2 DEF PhaseInv, Scanning, First, Top, history
  <2>4. Inner' = Inner
    BY <1>2, <2>1, <2>2 DEF Inner, Top
  <2>5. QED
    BY <1>2, <1>3, <2>1, <2>2, <2>3, <2>4, ScanGoesOn DEF history
<1>11. QED
  BY <1>6, <1>7, <1>8, <1>9, <1>10 DEF Entries

\* Once its scan is done a level is on the stack.
LEMMA LevelsWalked ==
    TypeOK /\ ~Scanning /\ (pc = "walk" => stack # <<>>) => Levels = stack
<1> SUFFICES ASSUME TypeOK, ~Scanning, pc = "walk" => stack # <<>>
             PROVE  Levels = stack
  OBVIOUS
<1>1. CASE Active
  <2>1. stack # <<>>
    BY <1>1 DEF Active, Scanning, TypeOK
  <2>2. QED
    BY <1>1, <2>1, TopFacts DEF Levels, Outer, Inner
<1>2. CASE ~Active
  BY <1>2 DEF Levels
<1>3. QED
  BY <1>1, <1>2

\* The count in terms of the stack and the scan.
LEMMA HeldCounted == BaseInv => HeldIsCounted
<1> SUFFICES ASSUME BaseInv
             PROVE  HeldIsCounted
  OBVIOUS
<1>1. TypeOK /\ PhaseInv /\ HeldInv
  BY DEF BaseInv
<1>2. CASE ~Scanning
  <2>1. Levels = stack
    BY <1>1, <1>2, LevelsWalked DEF PhaseInv
  <2>2. scan.directories = <<>>
    BY <1>1, <1>2, NoScanFacts DEF PhaseInv
  <2>3. HeldBy(stack) \in Nat /\ Holding(<<scan.job>>) \in Nat
    <3>1. stack \in Seq(LevelType) /\ scan.job \in JobType
      BY <1>1, ScanTypes DEF TypeOK
    <3>2. Holding(<<scan.job>>) = IF scan.job.opened THEN 1 ELSE 0
      BY <3>1, HoldingOne
    <3>3. QED
      BY <3>1, <3>2, HeldFinite
  <2>4. QED
    BY <1>1, <2>1, <2>2, <2>3, HoldingNone DEF HeldInv, HeldIsCounted
<1>3. CASE Scanning
  <2>1. /\ held = HeldBy(Outer) + Holding(scan.directories) + Holding(<<scan.job>>)
        /\ held <= limit /\ limit <= MaxHeld
    BY <1>3, BaseFacts, InnerScan DEF Active, Scanning
  <2>2. HeldBy(Outer) = HeldBy(stack)
    <3>1. CASE First
      BY <1>3, <3>1 DEF Outer
    <3>2. CASE ~First
      <4>1. stack # <<>> /\ Top.subdirs = <<>> /\ Outer = Front(stack)
        BY <1>1, <1>3, <3>2 DEF PhaseInv, Outer
      <4>2. /\ stack \in Seq(LevelType) /\ Top \in LevelType
        BY <1>1, <4>1, TopFacts DEF TypeOK
      <4>3. HeldBy(stack) = HeldBy(Front(stack)) + Holding(Top.subdirs)
            /\ HeldBy(Front(stack)) \in Nat
        BY <4>1, <4>2, HeldByLast DEF Top
      <4>4. QED
        BY <4>1, <4>3, HoldingNone
    <3>3. QED
      BY <3>1, <3>2
  <2>3. QED
    BY <2>1, <2>2 DEF HeldIsCounted
<1>4. QED
  BY <1>2, <1>3

\* The walk goes on, or ends, without a scan.
LEMMA WalkGoesOn ==
    ASSUME TypeOK', pc' \in {"walk", "done", "error"}, scan' = NoScan,
           pc' = "walk" => stack' # <<>>, AllJobs(stack', listings'),
           held' = HeldBy(stack'), held' <= limit', limit' <= MaxHeld
    PROVE  BaseInv'
<1>1. /\ ~NoScan.job.opened /\ ~NoScan.job.refused /\ NoScan.job \in JobType
      /\ ~NoScan.unreadable
  BY NoScanFacts DEF ScanType
<1>2. ~Scanning'
  BY DEF Scanning
<1>3. PhaseInv'
  BY <1>1, <1>2 DEF PhaseInv
<1>4. (TypeOK /\ ~Scanning /\ (pc = "walk" => stack # <<>>))'
  BY <1>2
<1>5. Levels' = stack'
  <2>1. (Levels = stack)'
    BY <1>4, LevelsWalked, PTL
  <2>2. QED
    BY <2>1
<1>6. JobsInv'
  BY <1>5 DEF JobsInv
<1>7. HeldInv'
  <2>1. Holding(<<scan'.job>>) = 0
    BY <1>1, HoldingOne
  <2>2. HeldBy(stack') \in Nat
    BY HeldFinite DEF TypeOK
  <2>3. QED
    BY <1>5, <2>1, <2>2 DEF HeldInv
<1>8. QED
  BY <1>3, <1>6, <1>7 DEF BaseInv

\* The walk at a level.
LEMMA WalkFacts ==
    BaseInv /\ pc = "walk"
        => /\ stack \in Seq(LevelType) /\ stack # <<>> /\ Top \in LevelType
           /\ Front(stack) \in Seq(LevelType) /\ stack = Append(Front(stack), Top)
           /\ Len(stack) \in Nat /\ Len(Front(stack)) = Len(stack) - 1
           /\ AllJobs(stack, listings) /\ AllJobs(Front(stack), listings)
           /\ LevelJobs(Top, listings) /\ Len(Top.dir) = Len(stack) - 1
           /\ scan = NoScan /\ held = HeldBy(stack)
           /\ held = HeldBy(Front(stack)) + Holding(Top.subdirs)
           /\ HeldBy(Front(stack)) \in Nat /\ Holding(Top.subdirs) \in Nat
           /\ held <= limit /\ limit <= MaxHeld /\ held \in Int /\ limit \in Int
           /\ Outer = Front(stack) /\ Inner = Top /\ Levels = stack
<1> SUFFICES ASSUME BaseInv, pc = "walk"
             PROVE  /\ stack \in Seq(LevelType) /\ stack # <<>> /\ Top \in LevelType
                    /\ Front(stack) \in Seq(LevelType) /\ stack = Append(Front(stack), Top)
                    /\ Len(stack) \in Nat /\ Len(Front(stack)) = Len(stack) - 1
                    /\ AllJobs(stack, listings) /\ AllJobs(Front(stack), listings)
                    /\ LevelJobs(Top, listings) /\ Len(Top.dir) = Len(stack) - 1
                    /\ scan = NoScan /\ held = HeldBy(stack)
                    /\ held = HeldBy(Front(stack)) + Holding(Top.subdirs)
                    /\ HeldBy(Front(stack)) \in Nat /\ Holding(Top.subdirs) \in Nat
                    /\ held <= limit /\ limit <= MaxHeld /\ held \in Int /\ limit \in Int
                    /\ Outer = Front(stack) /\ Inner = Top /\ Levels = stack
  OBVIOUS
<1>1. TypeOK /\ PhaseInv
  BY DEF BaseInv
<1>2. ~Scanning /\ Active /\ stack # <<>> /\ scan = NoScan
  BY <1>1 DEF PhaseInv, Scanning, Active
<1>3. /\ stack \in Seq(LevelType) /\ Top \in LevelType
      /\ Front(stack) \in Seq(LevelType) /\ stack = Append(Front(stack), Top)
      /\ Len(stack) \in Nat /\ Len(Front(stack)) = Len(stack) - 1
  BY <1>1, <1>2, TopFacts DEF TypeOK
<1>4. Outer = Front(stack) /\ Inner = Top /\ Levels = stack
  BY <1>1, <1>2, LevelsWalked DEF Outer, Inner
<1>5. /\ AllJobs(Front(stack), listings) /\ LevelJobs(Top, listings)
      /\ Len(Top.dir) = Len(Front(stack))
      /\ held = HeldBy(Front(stack)) + Holding(Top.subdirs) + Holding(<<scan.job>>)
      /\ HeldBy(Front(stack)) \in Nat /\ Holding(Top.subdirs) \in Nat
      /\ Holding(<<scan.job>>) = IF scan.job.opened THEN 1 ELSE 0
      /\ held <= limit /\ limit <= MaxHeld /\ held \in Int /\ limit \in Int
  BY <1>2, <1>4, BaseFacts
<1>6. ~scan.job.opened
  BY <1>2, NoScanFacts
<1>7. held = HeldBy(Front(stack)) + Holding(Top.subdirs)
  BY <1>5, <1>6
<1>8. held = HeldBy(stack)
  BY <1>2, <1>3, <1>7, HeldByLast DEF Top
<1>9. AllJobs(stack, listings)
  BY <1>1, StackJobs DEF BaseInv
<1>10. QED
  BY <1>2, <1>3, <1>4, <1>5, <1>7, <1>8, <1>9

LEMMA ScanFailsBase == BaseInv /\ ScanFails => BaseInv'
<1> SUFFICES ASSUME BaseInv, ScanFails
             PROVE  BaseInv'
  OBVIOUS
<1>1. TypeOK /\ PhaseInv /\ JobsInv
  BY DEF BaseInv
<1>2. /\ pc = "report" /\ pc' = "error" /\ scan' = NoScan /\ scan.unreadable
      /\ UNCHANGED <<on_error, stack, held, limit, listings, rows, refusals, failures>>
  BY DEF ScanFails, FailOn
<1>3. scan.directories = <<>> /\ ~scan.job.opened
  BY <1>1, <1>2 DEF PhaseInv
<1>4. TypeOK'
  BY <1>1, <1>2, NoScanFacts DEF TypeOK
<1>5. held = HeldBy(stack) /\ held <= limit /\ limit <= MaxHeld
  <2>1. Holding(<<scan.job>>) = 0
    BY <1>1, <1>3, ScanTypes, HoldingOne
  <2>2. HeldBy(stack) \in Nat
    BY <1>1, HeldFinite DEF TypeOK
  <2>3. QED
    BY <1>3, <2>1, <2>2, HeldCounted, HoldingNone DEF HeldIsCounted
<1>6. AllJobs(stack, listings)
  BY <1>1, StackJobs
<1>7. QED
  BY <1>2, <1>4, <1>5, <1>6, WalkGoesOn

LEMMA LevelEqual ==
    ASSUME NEW a \in LevelType, NEW b \in LevelType,
           a.dir = b.dir, a.items = b.items, a.subdirs = b.subdirs, a.rest = b.rest
    PROVE  a = b
<1>1. a = [dir |-> a.dir, items |-> a.items, subdirs |-> a.subdirs, rest |-> a.rest]
  BY DEF LevelType
<1>2. b = [dir |-> b.dir, items |-> b.items, subdirs |-> b.subdirs, rest |-> b.rest]
  BY DEF LevelType
<1>3. QED
  BY <1>1, <1>2

\* The scan becomes the innermost level of the stack.
LEMMA ReportFacts ==
    ASSUME BaseInv, Report
    PROVE  /\ Scanning /\ pc' = "walk" /\ scan' = NoScan
           /\ stack' = Append(Outer, Inner) /\ stack' \in Seq(LevelType) /\ stack' # <<>>
           /\ Outer \in Seq(LevelType) /\ Inner \in LevelType
           /\ UNCHANGED <<on_error, held, limit, listings, rows, refusals, failures, failed>>
           /\ ~(scan.unreadable /\ (scan.path = <<>> \/ on_error = "Fail"))
           /\ pc = "report"
<1>1. TypeOK /\ PhaseInv
  BY DEF BaseInv
<1>2. /\ Scanning /\ pc' = "walk" /\ scan' = NoScan /\ Active /\ pc = "report"
      /\ UNCHANGED <<on_error, held, limit, listings, rows, refusals, failures, failed>>
      /\ ~(scan.unreadable /\ (scan.path = <<>> \/ on_error = "Fail"))
  BY DEF Report, Scanning, Active
<1>3. Outer \in Seq(LevelType) /\ Inner \in LevelType
  BY <1>1, <1>2, LevelsFacts
<1>4. stack' = Append(Outer, Inner)
  <2>1. CASE First
    <3>1. stack' = Append(stack, [dir |-> scan.path, items |-> scan.items,
                                  subdirs |-> scan.directories, rest |-> scan.rest])
      BY <2>1 DEF Report, First
    <3>2. QED
      BY <1>2, <2>1, <3>1 DEF Outer, Inner
  <2>2. CASE ~First
    <3>1. stack # <<>> /\ Top.dir = scan.path
      BY <1>1, <1>2, <2>2 DEF PhaseInv
    <3>2. /\ stack \in Seq(LevelType) /\ Top \in LevelType /\ stack[Len(stack)] = Top
          /\ Len(stack) \in Nat \ {0} /\ DOMAIN stack = 1..Len(stack)
      BY <1>1, <3>1, TopFacts, LenProperties DEF TypeOK
    <3>3. stack' = [stack EXCEPT ![Len(stack)].items = scan.items,
                                 ![Len(stack)].subdirs = scan.directories]
      BY <2>2 DEF Report, First
    <3>4. Inner = [Top EXCEPT !.items = scan.items, !.subdirs = scan.directories]
      <4> DEFINE new == [Top EXCEPT !.items = scan.items, !.subdirs = scan.directories]
      <4>1. /\ new \in LevelType /\ new.dir = Top.dir /\ new.items = scan.items
            /\ new.subdirs = scan.directories /\ new.rest = Top.rest
        BY <1>1, <3>2, ScanTypes DEF LevelType
      <4>2. /\ Inner.dir = scan.path /\ Inner.items = scan.items
            /\ Inner.subdirs = scan.directories /\ Inner.rest = Top.rest
        BY <1>2, <2>2 DEF Inner
      <4> HIDE DEF new
      <4>3. Inner = new
        BY <1>3, <3>1, <4>1, <4>2, LevelEqual
      <4>4. QED
        BY <4>3 DEF new
    <3>5. stack' = [stack EXCEPT ![Len(stack)] = Inner]
      BY <3>2, <3>3, <3>4
    <3>6. stack' = Append(Front(stack), Inner)
      <4>1. stack # <<>> /\ stack \in Seq(LevelType) /\ Inner \in LevelType
        BY <1>3, <3>1, <3>2
      <4>2. [stack EXCEPT ![Len(stack)] = Inner] = Append(Front(stack), Inner)
        BY <4>1, FrontAndLast
      <4>3. QED
        BY <3>5, <4>2
    <3>7. QED
      BY <1>2, <2>2, <3>6 DEF Outer
  <2>3. QED
    BY <2>1, <2>2
<1>5. stack' \in Seq(LevelType) /\ stack' # <<>>
  BY <1>3, <1>4, AppendedFacts
<1>6. QED
  BY <1>2, <1>3, <1>4, <1>5

LEMMA ReportBase == BaseInv /\ Report => BaseInv'
<1> SUFFICES ASSUME BaseInv, Report
             PROVE  BaseInv'
  OBVIOUS
<1>1. TypeOK /\ PhaseInv
  BY DEF BaseInv
<1>2. /\ Scanning /\ pc' = "walk" /\ scan' = NoScan /\ pc = "report"
      /\ stack' = Append(Outer, Inner) /\ stack' \in Seq(LevelType) /\ stack' # <<>>
      /\ Outer \in Seq(LevelType) /\ Inner \in LevelType
      /\ UNCHANGED <<on_error, held, limit, listings, rows, refusals, failures, failed>>
  BY ReportFacts
<1>3. TypeOK'
  BY <1>1, <1>2, NoScanFacts DEF TypeOK
<1>4. /\ AllJobs(Outer, listings) /\ LevelJobs(Inner, listings)
      /\ Len(Inner.dir) = Len(Outer)
      /\ held = HeldBy(Outer) + Holding(Inner.subdirs) + Holding(<<scan.job>>)
      /\ HeldBy(Outer) \in Nat /\ Holding(Inner.subdirs) \in Nat
      /\ Holding(<<scan.job>>) = IF scan.job.opened THEN 1 ELSE 0
      /\ held <= limit /\ limit <= MaxHeld
  BY <1>2, BaseFacts DEF Active
<1>5. ~scan.job.opened
  BY <1>1, <1>2 DEF PhaseInv
<1>6. AllJobs(stack', listings)
  BY <1>2, <1>4, AllJobsAppend
<1>7. held = HeldBy(stack')
  <2>1. HeldBy(stack') = HeldBy(Outer) + Holding(Inner.subdirs)
    BY <1>2, HeldFinite, HeldByAppend
  <2>2. QED
    BY <1>4, <1>5, <2>1
<1>8. QED
  BY <1>2, <1>3, <1>4, <1>6, <1>7, WalkGoesOn

\* The innermost level after its first item, and after the job of that item.
Past(level) == [level EXCEPT !.items = Tail(@)]

Within(level) == [level EXCEPT !.items = Tail(@), !.subdirs = Tail(@)]

LEMMA VisitFacts ==
    ASSUME BaseInv, Visiting
    PROVE  /\ pc = "walk" /\ stack # <<>> /\ Top.items # <<>>
           /\ Past(Top) \in LevelType /\ Past(Top).dir = Top.dir /\ Past(Top).rest = Top.rest
           /\ Past(Top).items = Tail(Top.items) /\ Past(Top).subdirs = Top.subdirs
           /\ Visited = [stack EXCEPT ![Len(stack)] = Past(Top)]
           /\ Visited = Append(Front(stack), Past(Top))
           /\ Visited \in Seq(LevelType) /\ Visited # <<>> /\ Len(Visited) = Len(stack)
           /\ Front(Visited) = Front(stack) /\ Last(Visited) = Past(Top)
           /\ Head(Top.items) \in ItemType /\ Top.items \in Seq(ItemType)
           /\ Tail(Top.items) \in Seq(ItemType)
           /\ Len(Tail(Top.items)) = Len(Top.items) - 1 /\ Len(Top.items) \in Nat \ {0}
           /\ Head(Top.items) = Top.items[1]
           /\ \A m \in 1..(Len(Top.items) - 1) : Tail(Top.items)[m] = Top.items[m + 1]
<1>1. pc = "walk" /\ stack # <<>> /\ Top.items # <<>>
  BY DEF Visiting
<1>2. stack \in Seq(LevelType) /\ Top \in LevelType
  BY <1>1, WalkFacts
<1>3. Top.items \in Seq(ItemType)
  BY <1>2 DEF LevelType
<1>4. /\ Head(Top.items) \in ItemType /\ Tail(Top.items) \in Seq(ItemType)
      /\ Len(Tail(Top.items)) = Len(Top.items) - 1 /\ Len(Top.items) \in Nat \ {0}
      /\ Head(Top.items) = Top.items[1]
      /\ \A m \in 1..Len(Tail(Top.items)) : Tail(Top.items)[m] = Top.items[m + 1]
  <2>1. Len(Top.items) \in Nat \ {0}
    BY <1>1, <1>3, EmptySeq, LenProperties
  <2>2. QED
    BY <1>1, <1>3, <2>1, HeadTailProperties
<1>5. /\ Past(Top) \in LevelType /\ Past(Top).dir = Top.dir /\ Past(Top).rest = Top.rest
      /\ Past(Top).items = Tail(Top.items) /\ Past(Top).subdirs = Top.subdirs
  BY <1>2, <1>4 DEF Past, LevelType
<1>6. Visited = [stack EXCEPT ![Len(stack)] = Past(Top)]
  <2>1. stack[Len(stack)] = Top /\ Len(stack) \in DOMAIN stack
    <3>1. TypeOK
      BY DEF BaseInv
    <3>2. QED
      BY <1>1, <1>2, <3>1, TopFacts, LenProperties
  <2>2. QED
    BY <1>2, <2>1 DEF Visited, Past
<1>7. Visited = Append(Front(stack), Past(Top))
  BY <1>1, <1>2, <1>5, <1>6, FrontAndLast
<1>8. /\ Visited \in Seq(LevelType) /\ Visited # <<>> /\ Len(Visited) = Len(stack)
      /\ Front(Visited) = Front(stack) /\ Last(Visited) = Past(Top)
  <2> DEFINE past == Past(Top)
             new == [stack EXCEPT ![Len(stack)] = past]
  <2>1. stack # <<>> /\ stack \in Seq(LevelType) /\ past \in LevelType
    BY <1>1, <1>2, <1>5
  <2> HIDE DEF past
  <2>2. /\ new \in Seq(LevelType) /\ new # <<>> /\ Len(new) = Len(stack)
        /\ Front(new) = Front(stack) /\ Last(new) = past
    BY <2>1, ReplacedFacts
  <2>3. QED
    BY <1>6, <2>2 DEF past
<1>9. QED
  BY <1>1, <1>3, <1>4, <1>5, <1>6, <1>7, <1>8

\* An item that is no directory leaves the jobs alone.
LEMMA VisitBase ==
    ASSUME BaseInv, Visiting, stack' = Visited, Head(Top.items).kind # "directory",
           pc' \in {"walk", "error"}, rows' \in Seq(Seq(Nat)),
           UNCHANGED <<on_error, scan, held, limit, listings, refusals, failures>>
    PROVE  BaseInv'
<1>1. /\ stack \in Seq(LevelType) /\ Top \in LevelType /\ Front(stack) \in Seq(LevelType)
      /\ AllJobs(Front(stack), listings)
      /\ LevelJobs(Top, listings) /\ Len(Top.dir) = Len(stack) - 1
      /\ Len(Front(stack)) = Len(stack) - 1
      /\ scan = NoScan /\ held = HeldBy(stack)
      /\ held <= limit /\ limit <= MaxHeld /\ held \in Int /\ limit \in Int
      /\ HeldBy(stack) = HeldBy(Front(stack)) + Holding(Top.subdirs)
  BY WalkFacts DEF Visiting
<1>2. /\ stack # <<>> /\ Past(Top) \in LevelType /\ Past(Top).dir = Top.dir
      /\ Past(Top).rest = Top.rest
      /\ Past(Top).items = Tail(Top.items) /\ Past(Top).subdirs = Top.subdirs
      /\ Visited = [stack EXCEPT ![Len(stack)] = Past(Top)]
      /\ Visited = Append(Front(stack), Past(Top))
      /\ Visited \in Seq(LevelType) /\ Visited # <<>>
  BY VisitFacts
<1>3. LevelJobs(Past(Top), listings)
  <2>1. Top.items \in Seq(ItemType) /\ Top.items # <<>> /\ Top.subdirs \in Seq(JobType)
    BY <1>1, VisitFacts DEF LevelType
  <2>2. Match(Top.dir, Tail(Top.items), Top.subdirs)
    BY <1>1, <2>1, MatchTail DEF LevelJobs
  <2>3. \A m \in DOMAIN Tail(Top.items) :
            Tail(Top.items)[m].place = 0 => Tail(Top.items)[m].kind = "failed"
    <3>1. /\ Len(Top.items) \in Nat /\ Tail(Top.items) \in Seq(ItemType)
          /\ Len(Tail(Top.items)) = Len(Top.items) - 1
          /\ \A m \in 1..(Len(Top.items) - 1) : Tail(Top.items)[m] = Top.items[m + 1]
      BY VisitFacts
    <3>2. /\ DOMAIN Top.items = 1..Len(Top.items)
          /\ DOMAIN Tail(Top.items) = 1..(Len(Top.items) - 1)
      BY <2>1, <3>1, LenProperties
    <3>3. \A m \in DOMAIN Top.items : Top.items[m].place = 0 => Top.items[m].kind = "failed"
      BY <1>1 DEF LevelJobs
    <3>4. ASSUME NEW m \in 1..(Len(Top.items) - 1)
          PROVE  m + 1 \in 1..Len(Top.items)
      BY <3>1
    <3>5. QED
      BY <3>1, <3>2, <3>3, <3>4
  <2>4. QED
    BY <1>1, <1>2, <2>2, <2>3 DEF LevelJobs
<1>4. AllJobs(stack', listings')
  BY <1>1, <1>2, <1>3, AllJobsAppend
<1>5. HeldBy(stack') = HeldBy(stack)
  BY <1>1, <1>2, HeldByLast
<1>6. TypeOK'
  BY <1>2 DEF TypeOK, BaseInv
<1>7. QED
  BY <1>1, <1>2, <1>4, <1>5, <1>6, WalkGoesOn

LEMMA NewScanFacts ==
    ASSUME NEW path \in Seq(Nat), NEW job \in JobType
    PROVE  LET new == NewScan(path, job)
           IN  /\ new \in ScanType /\ new.path = path /\ new.job = job /\ new.place = job.start
               /\ new.items = <<>> /\ new.directories = <<>> /\ new.rest = <<>>
               /\ ~new.unreadable
<1>1. NewScan(path, job) \in ScanType
  BY NewScanType
<1>2. QED
  BY <1>1 DEF NewScan

LEMMA EmptyLevelJobs ==
    ASSUME NEW level \in LevelType, NEW lists,
           level.items = <<>>, level.subdirs = <<>>,
           \A n \in DOMAIN level.rest :
               /\ level.rest[n].of = level.dir
               /\ level.rest[n].start \in 1..Len(lists[level.dir])
               /\ ~level.rest[n].opened /\ ~level.rest[n].refused,
           level.rest # <<>> => level.dir \in DOMAIN lists
    PROVE  LevelJobs(level, lists)
  BY MatchNone, EmptySeq DEF LevelJobs

\* The walk takes the job of a directory it enters.
LEMMA EnterBase ==
    ASSUME NEW path \in Seq(Nat), NEW job \in JobType, Take(path, job),
           job.of = path, job.start = 0, ~(job.opened /\ job.refused),
           TypeOK', AllJobs(stack', listings'), Len(path) = Len(stack'),
           held' = HeldBy(stack') + Holding(<<job>>), held' <= limit', limit' <= MaxHeld
    PROVE  BaseInv'
<1>1. /\ scan' \in ScanType /\ scan'.path = path /\ scan'.job = job /\ scan'.place = 0
      /\ scan'.items = <<>> /\ scan'.directories = <<>> /\ scan'.rest = <<>>
      /\ ~scan'.unreadable /\ pc' = "fill"
  BY NewScanFacts DEF Take
<1>2. Scanning' /\ First' /\ Active'
  BY <1>1 DEF Scanning, First, Active
<1>3. PhaseInv'
  BY <1>1, <1>2 DEF PhaseInv, Scanning, First
<1>4. Outer' = stack' /\ Inner'.dir = path /\ Inner'.items = <<>>
      /\ Inner'.subdirs = <<>> /\ Inner'.rest = <<>>
  BY <1>1, <1>2 DEF Outer, Inner
<1>5. Inner' \in LevelType
  <2>1. (TypeOK /\ PhaseInv /\ Active)'
    BY <1>2, <1>3
  <2>2. (Inner \in LevelType)'
    BY <2>1, LevelsFacts, PTL
  <2>3. QED
    BY <2>2
<1>6. LevelJobs(Inner', listings')
  BY <1>4, <1>5, EmptyLevelJobs, EmptySeq
<1>7. held' = HeldBy(Outer') + Holding(Inner'.subdirs) + Holding(<<scan'.job>>)
  <2>1. HeldBy(stack') \in Nat /\ Holding(<<job>>) \in {0, 1}
    BY HeldFinite, HoldingOne DEF TypeOK
  <2>2. QED
    BY <1>1, <1>4, <2>1, HoldingNone
<1>8. (/\ TypeOK /\ PhaseInv /\ Active
       /\ AllJobs(Outer, listings) /\ LevelJobs(Inner, listings)
       /\ Len(Inner.dir) = Len(Outer)
       /\ held = HeldBy(Outer) + Holding(Inner.subdirs) + Holding(<<scan.job>>)
       /\ held <= limit /\ limit <= MaxHeld)'
  BY <1>2, <1>3, <1>4, <1>6, <1>7
<1>9. QED
  BY <1>8, BaseKept, PTL

LEMMA StartBase == BaseInv /\ Start => BaseInv'
<1> SUFFICES ASSUME BaseInv, Start
             PROVE  BaseInv'
  OBVIOUS
<1>1. TypeOK /\ PhaseInv /\ HeldInv
  BY DEF BaseInv
<1>2. /\ pc = "start" /\ Take(<<>>, Root) /\ stack = <<>>
      /\ UNCHANGED <<on_error, stack, held, limit, listings, rows, refusals, failures, failed>>
  BY <1>1 DEF Start, PhaseInv
<1>3. /\ <<>> \in Seq(Nat) /\ Root \in JobType
      /\ Root.of = <<>> /\ Root.start = 0 /\ ~Root.opened
  BY EmptySeq DEF Root, DirectoryJob, JobType
<1>4. TypeOK'
  <2>1. scan' = NewScan(<<>>, Root) /\ pc' = "fill"
    BY <1>2 DEF Take
  <2>2. QED
    BY <1>1, <1>2, <1>3, <2>1, NewScanType DEF TypeOK
<1>5. AllJobs(stack', listings') /\ Len(stack') = 0
  BY <1>2, EmptySeq DEF AllJobs
<1>6. held = HeldBy(stack) + 0 /\ held <= limit /\ limit <= MaxHeld
  <2>1. scan = NoScan /\ Levels = stack
    BY <1>1, <1>2 DEF PhaseInv, Scanning, Active, Levels
  <2>2. Holding(<<scan.job>>) = 0
    BY <1>1, <2>1, NoScanFacts, ScanTypes, HoldingOne
  <2>3. QED
    BY <1>1, <2>1, <2>2 DEF HeldInv
<1>7. Holding(<<Root>>) = 0
  BY <1>3, HoldingOne
<1>8. QED
  BY <1>2, <1>3, <1>4, <1>5, <1>6, <1>7, EnterBase, EmptySeq

LEMMA CancelledBase == BaseInv /\ Cancelled => BaseInv'
<1> SUFFICES ASSUME BaseInv, Cancelled
             PROVE  BaseInv'
  OBVIOUS
<1>1. /\ pc = "walk" /\ pc' = "error"
      /\ UNCHANGED <<on_error, stack, scan, held, limit, history>>
  BY DEF Cancelled, FailOn, Visiting
<1>2. TypeOK'
  BY <1>1 DEF BaseInv, TypeOK, history
<1>3. /\ scan = NoScan /\ held = HeldBy(stack) /\ AllJobs(stack, listings)
      /\ held <= limit /\ limit <= MaxHeld
  BY <1>1, WalkFacts
<1>4. QED
  BY <1>1, <1>2, <1>3, WalkGoesOn DEF history

LEMMA LeaveBase == BaseInv /\ Leave => BaseInv'
<1> SUFFICES ASSUME BaseInv, Leave
             PROVE  BaseInv'
  OBVIOUS
<1>1. /\ pc = "walk" /\ stack # <<>> /\ Top.items = <<>>
      /\ stack' = Front(stack) /\ pc' = IF Len(stack) = 1 THEN "done" ELSE "walk"
      /\ UNCHANGED <<on_error, scan, held, limit, history, failed>>
  BY DEF Leave, UsedUp
<1>2. /\ Front(stack) \in Seq(LevelType) /\ Len(Front(stack)) = Len(stack) - 1
      /\ Len(stack) \in Nat /\ Top \in LevelType
      /\ AllJobs(Front(stack), listings) /\ LevelJobs(Top, listings)
      /\ scan = NoScan /\ HeldBy(Front(stack)) \in Nat
      /\ held = HeldBy(Front(stack)) + Holding(Top.subdirs)
      /\ held <= limit /\ limit <= MaxHeld
  BY <1>1, WalkFacts
<1>3. TypeOK'
  BY <1>1, <1>2 DEF BaseInv, TypeOK, history
<1>4. Top.subdirs = <<>>
  BY <1>1, <1>2, MatchNone DEF LevelJobs, LevelType
<1>5. held = HeldBy(stack')
  BY <1>1, <1>2, <1>4, HoldingNone
<1>6. pc' = "walk" => stack' # <<>>
  <2>1. ASSUME pc' = "walk", stack' = <<>>
        PROVE  FALSE
    <3>1. Len(stack) # 1
      BY <1>1, <2>1
    <3>2. Len(stack') = 0
      BY <2>1
    <3>3. Len(stack) = 1
      BY <1>1, <1>2, <3>2
    <3>4. QED
      BY <3>1, <3>3
  <2>2. QED
    BY <2>1
<1>7. QED
  BY <1>1, <1>2, <1>3, <1>5, <1>6, WalkGoesOn DEF history

\* The walk enters the directory of its next item with that directory's job.
LEMMA WithinFacts ==
    ASSUME NEW level \in LevelType, Tail(level.items) \in Seq(ItemType),
           Tail(level.subdirs) \in Seq(JobType)
    PROVE  /\ Within(level) \in LevelType
           /\ Within(level).dir = level.dir /\ Within(level).rest = level.rest
           /\ Within(level).items = Tail(level.items)
           /\ Within(level).subdirs = Tail(level.subdirs)
<1> DEFINE items == Tail(level.items)
           subdirs == Tail(level.subdirs)
           new == [level EXCEPT !.items = items, !.subdirs = subdirs]
<1>1. Within(level) = new
  BY DEF Within
<1>2. items \in Seq(ItemType) /\ subdirs \in Seq(JobType)
  OBVIOUS
<1> HIDE DEF items, subdirs
<1>3. /\ new \in LevelType /\ new.dir = level.dir /\ new.rest = level.rest
      /\ new.items = items /\ new.subdirs = subdirs
  BY <1>2 DEF LevelType
<1> HIDE DEF new
<1>4. /\ Within(level) \in LevelType
      /\ Within(level).dir = level.dir /\ Within(level).rest = level.rest
      /\ Within(level).items = items /\ Within(level).subdirs = subdirs
  BY <1>1, <1>3
<1>5. QED
  BY <1>4 DEF items, subdirs

LEMMA VisitDirectoryFacts ==
    ASSUME BaseInv, VisitDirectory
    PROVE  LET item == Head(Top.items)
               job == Head(Top.subdirs)
               path == Append(Top.dir, item.place)
           IN  /\ Visiting /\ item.kind = "directory" /\ item.place \in Nat \ {0}
               /\ path \in Seq(Nat) /\ Len(path) = Len(stack)
               /\ Take(path, job) /\ rows' = Append(rows, path)
               /\ job \in JobType /\ job.of = path /\ job.start = 0
               /\ ~(job.opened /\ job.refused)
               /\ Within(Top) \in LevelType
               /\ Within(Top).dir = Top.dir /\ Within(Top).rest = Top.rest
               /\ Within(Top).items = Tail(Top.items) /\ Within(Top).subdirs = Tail(Top.subdirs)
               /\ Holding(Top.subdirs) = Holding(<<job>>) + Holding(Tail(Top.subdirs))
               /\ stack' = Append(Front(stack), Within(Top))
               /\ LevelJobs(Within(Top), listings)
               /\ UNCHANGED <<on_error, held, limit, listings, refusals, failures, failed>>
<1> DEFINE item == Head(Top.items)
           job == Head(Top.subdirs)
           path == Append(Top.dir, item.place)
<1>1. /\ Visiting /\ item.kind = "directory" /\ pc = "walk"
      /\ Take(ItemPath(Top.dir, item), job) /\ rows' = Append(rows, ItemPath(Top.dir, item))
      /\ stack' = [Visited EXCEPT ![Len(stack)].subdirs = Tail(@)]
      /\ UNCHANGED <<on_error, held, limit, listings, refusals, failures, failed>>
  BY DEF VisitDirectory, Visiting
<1>2. /\ stack \in Seq(LevelType) /\ stack # <<>> /\ Top \in LevelType
      /\ Front(stack) \in Seq(LevelType)
      /\ Len(stack) \in Nat /\ LevelJobs(Top, listings) /\ Len(Top.dir) = Len(stack) - 1
  BY <1>1, WalkFacts
<1>3. /\ Past(Top) \in LevelType /\ Past(Top).dir = Top.dir /\ Past(Top).rest = Top.rest
      /\ Past(Top).items = Tail(Top.items) /\ Past(Top).subdirs = Top.subdirs
      /\ Visited = [stack EXCEPT ![Len(stack)] = Past(Top)]
      /\ Visited \in Seq(LevelType) /\ Visited # <<>> /\ Len(Visited) = Len(stack)
      /\ Front(Visited) = Front(stack) /\ Last(Visited) = Past(Top)
      /\ item \in ItemType /\ Top.items \in Seq(ItemType) /\ Top.items # <<>>
      /\ Tail(Top.items) \in Seq(ItemType)
      /\ Len(Tail(Top.items)) = Len(Top.items) - 1 /\ Len(Top.items) \in Nat \ {0}
      /\ item = Top.items[1]
      /\ \A m \in 1..(Len(Top.items) - 1) : Tail(Top.items)[m] = Top.items[m + 1]
  BY <1>1, VisitFacts
<1>4. /\ DOMAIN Top.items = 1..Len(Top.items)
      /\ DOMAIN Tail(Top.items) = 1..(Len(Top.items) - 1)
  BY <1>3, LenProperties
<1>5. item.place \in Nat \ {0}
  <2>1. item.place = 0 => item.kind = "failed"
    <3>1. \A m \in DOMAIN Top.items : Top.items[m].place = 0 => Top.items[m].kind = "failed"
      BY <1>2 DEF LevelJobs
    <3>2. 1 \in DOMAIN Top.items
      BY <1>3, <1>4
    <3>3. QED
      BY <1>3, <3>1, <3>2
  <2>2. item.place \in Nat
    BY <1>3 DEF ItemType
  <2>3. QED
    BY <1>1, <2>1, <2>2
<1>6. ItemPath(Top.dir, item) = path /\ path \in Seq(Nat) /\ Len(path) = Len(stack)
  <2>1. Top.dir \in Seq(Nat) /\ item.place \in Nat
    BY <1>2, <1>5 DEF LevelType
  <2>2. ItemPath(Top.dir, item) = path
    BY <1>5 DEF ItemPath
  <2>3. path \in Seq(Nat) /\ Len(path) = Len(Top.dir) + 1
    BY <2>1, PathFacts
  <2>4. QED
    BY <1>2, <2>2, <2>3
<1>7. Top.subdirs \in Seq(JobType) /\ Match(Top.dir, Top.items, Top.subdirs)
  BY <1>2 DEF LevelType, LevelJobs
<1>8. /\ Top.subdirs # <<>> /\ job.of = ItemPath(Top.dir, item)
      /\ Match(Top.dir, Tail(Top.items), Tail(Top.subdirs))
  BY <1>1, <1>3, <1>7, MatchTail
<1>9. /\ job \in JobType /\ job = Top.subdirs[1] /\ Tail(Top.subdirs) \in Seq(JobType)
      /\ Len(Tail(Top.subdirs)) = Len(Top.subdirs) - 1 /\ Len(Top.subdirs) \in Nat \ {0}
      /\ DOMAIN Top.subdirs = 1..Len(Top.subdirs)
      /\ DOMAIN Tail(Top.subdirs) = 1..(Len(Top.subdirs) - 1)
      /\ \A n \in 1..(Len(Top.subdirs) - 1) : Tail(Top.subdirs)[n] = Top.subdirs[n + 1]
  <2>1. Len(Top.subdirs) \in Nat \ {0}
    BY <1>7, <1>8, EmptySeq, LenProperties
  <2>2. QED
    BY <1>7, <1>8, <2>1, HeadTailProperties, LenProperties
<1>10. \A n \in 1..Len(Top.subdirs) :
           Top.subdirs[n].start = 0 /\ ~(Top.subdirs[n].opened /\ Top.subdirs[n].refused)
  <2>1. \A n \in DOMAIN Top.subdirs :
           Top.subdirs[n].start = 0 /\ ~(Top.subdirs[n].opened /\ Top.subdirs[n].refused)
    BY <1>2 DEF LevelJobs
  <2>2. DOMAIN Top.subdirs = 1..Len(Top.subdirs)
    BY <1>9
  <2>3. QED
    BY <2>1, <2>2
<1>11. Holding(Top.subdirs) = Holding(<<job>>) + Holding(Tail(Top.subdirs))
  BY <1>7, <1>8, HoldingTail
<1>12. /\ Within(Top) \in LevelType
       /\ Within(Top).dir = Top.dir /\ Within(Top).rest = Top.rest
       /\ Within(Top).items = Tail(Top.items) /\ Within(Top).subdirs = Tail(Top.subdirs)
  <2>1. Top \in LevelType
    BY <1>2
  <2>2. Tail(Top.items) \in Seq(ItemType)
    BY <1>3
  <2>3. Tail(Top.subdirs) \in Seq(JobType)
    BY <1>9
  <2>4. QED
    BY <2>1, <2>2, <2>3, WithinFacts
<1>13. stack' = Append(Front(stack), Within(Top))
  <2> DEFINE past == Past(Top)
             new == [past EXCEPT !.subdirs = Tail(@)]
  <2>1. Visited[Len(stack)] = past
    BY <1>3 DEF Last
  <2>2. stack' = [Visited EXCEPT ![Len(stack)] = new]
    <3> HIDE DEF past
    <3>1. Len(stack) \in DOMAIN Visited
      <4>1. Len(stack) \in 1..Len(stack)
        BY <1>2, EmptySeq
      <4>2. QED
        BY <1>3, <4>1, LenProperties
    <3>2. QED
      BY <1>1, <2>1, <3>1
  <2>3. /\ new \in LevelType /\ new.dir = Top.dir /\ new.items = Tail(Top.items)
        /\ new.subdirs = Tail(Top.subdirs) /\ new.rest = Top.rest
    <3> HIDE DEF past
    <3>1. /\ past \in LevelType /\ past.dir = Top.dir /\ past.rest = Top.rest
          /\ past.items = Tail(Top.items) /\ past.subdirs = Top.subdirs
      BY <1>3 DEF past
    <3>2. QED
      BY <1>9, <3>1 DEF LevelType
  <2> HIDE DEF new
  <2>4. new = Within(Top)
    BY <1>12, <2>3, LevelEqual
  <2> DEFINE visited == Visited
  <2>5. [visited EXCEPT ![Len(visited)] = new] = Append(Front(visited), new)
    <3>1. visited # <<>> /\ visited \in Seq(LevelType) /\ new \in LevelType
      BY <1>3, <2>3
    <3> HIDE DEF visited
    <3>2. QED
      BY <3>1, FrontAndLast
  <2>6. Len(visited) = Len(stack) /\ Front(visited) = Front(stack)
    BY <1>3
  <2>7. stack' = [visited EXCEPT ![Len(stack)] = new]
    BY <2>2
  <2> HIDE DEF visited
  <2>8. stack' = Append(Front(stack), new)
    BY <2>5, <2>6, <2>7
  <2>9. QED
    BY <2>4, <2>8
<1>14. LevelJobs(Within(Top), listings)
  <2>1. \A m \in 1..Len(Top.items) : Top.items[m].place = 0 => Top.items[m].kind = "failed"
    BY <1>2, <1>4 DEF LevelJobs
  <2>2. ASSUME NEW m \in 1..(Len(Top.items) - 1)
        PROVE  m + 1 \in 1..Len(Top.items)
    BY <1>3
  <2>3. \A m \in DOMAIN Tail(Top.items) :
            Tail(Top.items)[m].place = 0 => Tail(Top.items)[m].kind = "failed"
    BY <1>3, <1>4, <2>1, <2>2
  <2>4. ASSUME NEW n \in 1..(Len(Top.subdirs) - 1)
        PROVE  n + 1 \in 1..Len(Top.subdirs)
    BY <1>9
  <2>5. \A n \in DOMAIN Tail(Top.subdirs) :
            /\ Tail(Top.subdirs)[n].start = 0
            /\ ~(Tail(Top.subdirs)[n].opened /\ Tail(Top.subdirs)[n].refused)
    BY <1>9, <1>10, <2>4
  <2>6. QED
    BY <1>2, <1>8, <1>12, <2>3, <2>5 DEF LevelJobs
<1>15. job.start = 0 /\ ~(job.opened /\ job.refused)
  <2>1. 1 \in 1..Len(Top.subdirs)
    BY <1>9
  <2>2. QED
    BY <1>9, <1>10, <2>1
<1> HIDE DEF item, job, path
<1>16. QED
  BY <1>1, <1>5, <1>6, <1>8, <1>9, <1>11, <1>12, <1>13, <1>14, <1>15 DEF item, job, path

LEMMA VisitDirectoryBase == BaseInv /\ VisitDirectory => BaseInv'
<1> SUFFICES ASSUME BaseInv, VisitDirectory
             PROVE  BaseInv'
  OBVIOUS
<1> DEFINE item == Head(Top.items)
           job == Head(Top.subdirs)
           path == Append(Top.dir, item.place)
           within == Within(Top)
<1>1. /\ Visiting /\ path \in Seq(Nat) /\ Len(path) = Len(stack)
      /\ Take(path, job) /\ rows' = Append(rows, path)
      /\ job \in JobType /\ job.of = path /\ job.start = 0
      /\ ~(job.opened /\ job.refused)
      /\ within \in LevelType /\ within.dir = Top.dir /\ within.subdirs = Tail(Top.subdirs)
      /\ Holding(Top.subdirs) = Holding(<<job>>) + Holding(Tail(Top.subdirs))
      /\ stack' = Append(Front(stack), within)
      /\ LevelJobs(within, listings)
      /\ UNCHANGED <<on_error, held, limit, listings, refusals, failures, failed>>
  BY VisitDirectoryFacts
<1> HIDE DEF job, path, within
<1>2. /\ Front(stack) \in Seq(LevelType) /\ Top \in LevelType
      /\ AllJobs(Front(stack), listings) /\ Len(Front(stack)) = Len(stack) - 1
      /\ Len(Top.dir) = Len(stack) - 1 /\ Len(stack) \in Nat
      /\ held = HeldBy(Front(stack)) + Holding(Top.subdirs)
      /\ HeldBy(Front(stack)) \in Nat
      /\ held <= limit /\ limit <= MaxHeld
  BY <1>1, WalkFacts DEF Visiting
<1>3. AllJobs(stack', listings')
  BY <1>1, <1>2, AllJobsAppend
<1>4. stack' \in Seq(LevelType) /\ Len(stack') = Len(stack)
  <2>1. stack' \in Seq(LevelType) /\ Len(stack') = Len(Front(stack)) + 1
    BY <1>1, <1>2, AppendedFacts
  <2>2. QED
    BY <1>2, <2>1
<1>5. held' = HeldBy(stack') + Holding(<<job>>)
  <2>1. HeldBy(stack') = HeldBy(Front(stack)) + Holding(within.subdirs)
    BY <1>1, <1>2, HeldFinite, HeldByAppend
  <2>2. Holding(<<job>>) \in Nat /\ Holding(Tail(Top.subdirs)) \in Nat
    <3>1. Tail(Top.subdirs) \in Seq(JobType)
      BY <1>1 DEF LevelType
    <3>2. Holding(<<job>>) = IF job.opened THEN 1 ELSE 0
      BY <1>1, HoldingOne
    <3>3. Holding(Tail(Top.subdirs)) \in Nat
      BY <3>1, HoldersFinite
    <3>4. QED
      BY <3>2, <3>3
  <2>3. QED
    BY <1>1, <1>2, <2>1, <2>2
<1>6. TypeOK'
  <2>1. scan' \in ScanType /\ pc' = "fill"
    BY <1>1, NewScanType DEF Take
  <2>2. rows' \in Seq(Seq(Nat))
    BY <1>1, AppendProperties DEF BaseInv, TypeOK
  <2>3. QED
    BY <1>1, <1>4, <2>1, <2>2 DEF BaseInv, TypeOK
<1>7. QED
  BY <1>1, <1>2, <1>3, <1>4, <1>5, <1>6, EnterBase

\* The next listing window of the innermost level is read.
LEMMA ReadOnFacts ==
    ASSUME BaseInv, ReadOn
    PROVE  LET job == Head(Top.rest)
           IN  /\ pc = "walk" /\ stack # <<>> /\ Top.items = <<>> /\ Top.rest # <<>>
               /\ Top.subdirs = <<>> /\ Take(Top.dir, job)
               /\ Top.dir \in Seq(Nat) /\ Top.dir \in DOMAIN listings
               /\ job = Top.rest[1] /\ job \in JobType /\ job.of = Top.dir
               /\ job.start \in 1..Len(listings[Top.dir]) /\ job.start > 0
               /\ ~job.opened /\ ~job.refused
               /\ stack' \in Seq(LevelType) /\ stack' # <<>> /\ Len(stack') = Len(stack)
               /\ Front(stack') = Front(stack)
               /\ Last(stack') \in LevelType /\ Last(stack').dir = Top.dir
               /\ Last(stack').items = <<>> /\ Last(stack').subdirs = <<>>
               /\ Last(stack').rest = Tail(Top.rest)
               /\ Tail(Top.rest) \in Seq(JobType) /\ Top.rest \in Seq(JobType)
               /\ Len(Tail(Top.rest)) = Len(Top.rest) - 1 /\ Len(Top.rest) \in Nat \ {0}
               /\ \A n \in 1..(Len(Top.rest) - 1) : Tail(Top.rest)[n] = Top.rest[n + 1]
               /\ UNCHANGED <<on_error, held, limit, listings, rows, refusals, failures, failed>>
<1> DEFINE job == Head(Top.rest)
           left == Tail(Top.rest)
           new == [Top EXCEPT !.rest = left]
<1>1. /\ pc = "walk" /\ stack # <<>> /\ Top.items = <<>> /\ Top.rest # <<>>
      /\ Take(Top.dir, job) /\ stack' = [stack EXCEPT ![Len(stack)].rest = Tail(@)]
      /\ UNCHANGED <<on_error, held, limit, listings, rows, refusals, failures, failed>>
  BY DEF ReadOn, UsedUp
<1>2. /\ stack \in Seq(LevelType) /\ Top \in LevelType /\ Len(stack) \in Nat
      /\ LevelJobs(Top, listings)
  BY <1>1, WalkFacts
<1>3. /\ Top.rest \in Seq(JobType) /\ Top.subdirs \in Seq(JobType) /\ Top.dir \in Seq(Nat)
  BY <1>2 DEF LevelType
<1>4. Top.subdirs = <<>>
  BY <1>1, <1>2, <1>3, MatchNone DEF LevelJobs
<1>5. Len(Top.rest) \in Nat \ {0} /\ DOMAIN Top.rest = 1..Len(Top.rest)
  BY <1>1, <1>3, EmptySeq, LenProperties
<1>6. /\ job = Top.rest[1] /\ left \in Seq(JobType) /\ Len(left) = Len(Top.rest) - 1
      /\ \A n \in 1..(Len(Top.rest) - 1) : left[n] = Top.rest[n + 1]
  BY <1>1, <1>3, <1>5, HeadTailProperties
<1>7. 1 \in DOMAIN Top.rest /\ job \in JobType
  BY <1>3, <1>5, <1>6, ElementOfSeq
<1>8. /\ job.of = Top.dir /\ job.start \in 1..Len(listings[Top.dir])
      /\ ~job.opened /\ ~job.refused /\ Top.dir \in DOMAIN listings
  BY <1>1, <1>2, <1>6, <1>7 DEF LevelJobs
<1>9. job.start > 0
  BY <1>7, <1>8 DEF JobType
<1>10. new \in LevelType /\ new.dir = Top.dir /\ new.items = Top.items
       /\ new.subdirs = Top.subdirs /\ new.rest = left
  BY <1>2, <1>6 DEF LevelType
<1>11. stack' = [stack EXCEPT ![Len(stack)] = new]
  <2>1. stack[Len(stack)] = Top /\ Len(stack) \in DOMAIN stack
    BY <1>1, <1>2, TopFacts, LenProperties DEF BaseInv
  <2>2. QED
    BY <1>1, <2>1
<1> HIDE DEF new, left, job
<1>12. /\ stack' \in Seq(LevelType) /\ stack' # <<>> /\ Len(stack') = Len(stack)
       /\ Front(stack') = Front(stack) /\ Last(stack') = new
  <2> DEFINE all == [stack EXCEPT ![Len(stack)] = new]
  <2>1. stack # <<>> /\ stack \in Seq(LevelType) /\ new \in LevelType
    BY <1>1, <1>2, <1>10
  <2>2. /\ all \in Seq(LevelType) /\ all # <<>> /\ Len(all) = Len(stack)
        /\ Front(all) = Front(stack) /\ Last(all) = new
    BY <2>1, ReplacedFacts
  <2>3. QED
    BY <1>11, <2>2
<1>13. QED
  BY <1>1, <1>3, <1>4, <1>5, <1>6, <1>7, <1>8, <1>9, <1>10, <1>12 DEF job, left

LEMMA ReadOnBase == BaseInv /\ ReadOn => BaseInv'
<1> SUFFICES ASSUME BaseInv, ReadOn
             PROVE  BaseInv'
  OBVIOUS
<1> DEFINE job == Head(Top.rest)
           left == Tail(Top.rest)
           top == Last(stack')
<1>1. /\ pc = "walk" /\ stack # <<>> /\ Top.items = <<>> /\ Top.rest # <<>>
      /\ Top.subdirs = <<>> /\ Take(Top.dir, job)
      /\ Top.dir \in Seq(Nat) /\ Top.dir \in DOMAIN listings
      /\ job \in JobType /\ job.of = Top.dir
      /\ job.start \in 1..Len(listings[Top.dir]) /\ job.start > 0
      /\ ~job.opened /\ ~job.refused
      /\ stack' \in Seq(LevelType) /\ stack' # <<>>
      /\ Front(stack') = Front(stack)
      /\ top \in LevelType /\ top.dir = Top.dir /\ top.rest = left
      /\ top.items = <<>> /\ top.subdirs = <<>>
      /\ UNCHANGED <<on_error, held, limit, listings, rows, refusals, failures, failed>>
  BY ReadOnFacts
<1>2. /\ Top.rest \in Seq(JobType) /\ left \in Seq(JobType)
      /\ Len(left) = Len(Top.rest) - 1 /\ Len(Top.rest) \in Nat \ {0}
      /\ \A n \in 1..(Len(Top.rest) - 1) : left[n] = Top.rest[n + 1]
  BY ReadOnFacts
<1> HIDE DEF job, left, top
<1>3. /\ AllJobs(Front(stack), listings) /\ LevelJobs(Top, listings)
      /\ Len(Top.dir) = Len(stack) - 1 /\ Len(Front(stack)) = Len(stack) - 1
      /\ held = HeldBy(Front(stack)) + Holding(Top.subdirs)
      /\ HeldBy(Front(stack)) \in Nat /\ Holding(Top.subdirs) \in Nat
      /\ held <= limit /\ limit <= MaxHeld
  BY <1>1, WalkFacts
<1>4. /\ scan' = NewScan(Top.dir, job) /\ pc' = "fill"
      /\ scan' \in ScanType /\ scan'.path = Top.dir /\ scan'.job = job
      /\ scan'.place = job.start
      /\ scan'.items = <<>> /\ scan'.directories = <<>> /\ scan'.rest = <<>>
      /\ ~scan'.unreadable
  BY <1>1, NewScanFacts DEF Take
<1>5. Scanning' /\ ~First' /\ Active'
  BY <1>1, <1>4 DEF Scanning, First, Active
<1>6. TypeOK'
  BY <1>1, <1>4 DEF BaseInv, TypeOK
<1>7. Top' = top
  BY DEF Top, top
<1>8. PhaseInv'
  BY <1>1, <1>4, <1>5, <1>7 DEF PhaseInv, Scanning, First
<1>9. /\ Outer' = Front(stack) /\ Inner'.dir = Top.dir /\ Inner'.items = <<>>
      /\ Inner'.subdirs = <<>> /\ Inner'.rest = left
  BY <1>1, <1>4, <1>5, <1>7 DEF Outer, Inner
<1>10. LevelJobs(Inner', listings')
  <2>1. (TypeOK /\ PhaseInv /\ Active)'
    BY <1>5, <1>6, <1>8
  <2>2. (Inner \in LevelType)'
    BY <2>1, LevelsFacts, PTL
  <2>3. DOMAIN left = 1..(Len(Top.rest) - 1) /\ DOMAIN Top.rest = 1..Len(Top.rest)
    BY <1>2, LenProperties
  <2>4. ASSUME NEW n \in 1..(Len(Top.rest) - 1)
        PROVE  n + 1 \in 1..Len(Top.rest)
    BY <1>2
  <2>5. \A n \in DOMAIN Top.rest :
            /\ Top.rest[n].of = Top.dir
            /\ Top.rest[n].start \in 1..Len(listings[Top.dir])
            /\ ~Top.rest[n].opened /\ ~Top.rest[n].refused
    BY <1>3 DEF LevelJobs
  <2>6. \A n \in DOMAIN left :
            /\ left[n].of = Top.dir
            /\ left[n].start \in 1..Len(listings[Top.dir])
            /\ ~left[n].opened /\ ~left[n].refused
    BY <1>2, <2>3, <2>4, <2>5
  <2>7. QED
    BY <1>1, <1>9, <2>2, <2>6, EmptyLevelJobs
<1>11. held' = HeldBy(Outer') + Holding(Inner'.subdirs) + Holding(<<scan'.job>>)
  <2>1. Holding(<<job>>) = 0
    BY <1>1, HoldingOne
  <2>2. QED
    BY <1>1, <1>3, <1>4, <1>9, <2>1, HoldingNone
<1>12. (/\ TypeOK /\ PhaseInv /\ Active
        /\ AllJobs(Outer, listings) /\ LevelJobs(Inner, listings)
        /\ Len(Inner.dir) = Len(Outer)
        /\ held = HeldBy(Outer) + Holding(Inner.subdirs) + Holding(<<scan.job>>)
        /\ held <= limit /\ limit <= MaxHeld)'
  BY <1>1, <1>3, <1>5, <1>6, <1>8, <1>9, <1>10, <1>11
<1>13. QED
  BY <1>12, BaseKept, PTL

-----------------------------------------------------------------------------
(* The base of the invariant, and what follows from it.                    *)

LEMMA BaseInit == Init => BaseInv
<1> SUFFICES ASSUME Init
             PROVE  BaseInv
  OBVIOUS
<1>1. /\ stack = <<>> /\ scan = NoScan /\ pc = "start" /\ held = 0 /\ limit = MaxHeld
      /\ listings = <<>> /\ DOMAIN listings = {} /\ rows = <<>> /\ refusals = {} /\ failures = {}
  BY EmptySeq DEF Init
<1>2. TypeOK
  BY <1>1, NoScanFacts, ScanAssumption, EmptySeq DEF TypeOK, Init
<1>3. Levels = <<>>
  BY <1>1 DEF Levels, Active
<1>4. PhaseInv
  BY <1>1, NoScanFacts DEF PhaseInv, Scanning
<1>5. JobsInv
  BY <1>3, EmptySeq DEF JobsInv, AllJobs
<1>6. HeldInv
  <2>1. HeldBy(<<>>) = 0
    <3>1. <<>> \in Seq(LevelType) /\ DOMAIN <<>> = {}
      BY EmptySeq
    <3>2. QED
      BY <3>1, HeldByNone
  <2>2. Holding(<<scan.job>>) = 0
    BY <1>1, NoScanFacts, HoldingOne DEF ScanType
  <2>3. QED
    BY <1>1, <1>3, <2>1, <2>2, ScanAssumption DEF HeldInv
<1>7. QED
  BY <1>2, <1>4, <1>5, <1>6 DEF BaseInv

LEMMA VisitOtherBase ==
    BaseInv /\ (VisitFile \/ VisitSkipped \/ VisitFailed) => BaseInv'
<1> SUFFICES ASSUME BaseInv, VisitFile \/ VisitSkipped \/ VisitFailed
             PROVE  BaseInv'
  OBVIOUS
<1>1. /\ Visiting /\ stack' = Visited /\ Head(Top.items).kind # "directory"
      /\ UNCHANGED <<on_error, scan, held, limit, listings, refusals, failures>>
      /\ pc' \in {"walk", "error"}
      /\ rows' = rows \/ rows' = Append(rows, ItemPath(Top.dir, Head(Top.items)))
  BY DEF VisitFile, VisitSkipped, VisitFailed, FailOn, history, Visiting
<1>2. rows \in Seq(Seq(Nat))
  BY DEF BaseInv, TypeOK
<1>3. ItemPath(Top.dir, Head(Top.items)) \in Seq(Nat)
  <2>1. Top.dir \in Seq(Nat)
    BY <1>1, WalkFacts DEF Visiting, LevelType
  <2>2. Head(Top.items).place \in Nat
    BY <1>1, VisitFacts DEF ItemType
  <2>3. QED
    BY <2>1, <2>2, PathFacts DEF ItemPath
<1>4. rows' \in Seq(Seq(Nat))
  <2> DEFINE path == ItemPath(Top.dir, Head(Top.items))
  <2>1. path \in Seq(Nat) /\ (rows' = rows \/ rows' = Append(rows, path))
    BY <1>1, <1>3
  <2> HIDE DEF path
  <2>2. Append(rows, path) \in Seq(Seq(Nat))
    BY <1>2, <2>1, AppendProperties
  <2>3. QED
    BY <1>2, <2>1, <2>2
<1>5. QED
  BY <1>1, <1>4, VisitBase

LEMMA BaseStep == BaseInv /\ [Next]_vars => BaseInv'
<1> SUFFICES ASSUME BaseInv, [Next]_vars
             PROVE  BaseInv'
  OBVIOUS
<1>1. CASE Fill
  BY <1>1, FillRefusedBase, FillOpenedBase, FillRestBase, OpenBase, OpenStarvedBase, ListBase
     DEF Fill
<1>2. CASE Visit
  BY <1>2, CancelledBase, VisitOtherBase, VisitDirectoryBase DEF Visit
<1>3. CASE UNCHANGED vars
  BY <1>3 DEF BaseInv, TypeOK, PhaseInv, JobsInv, HeldInv, vars, history,
              Levels, Inner, Outer, Active, Scanning, First, Top
<1>4. QED
  BY <1>1, <1>2, <1>3, StartBase, EntriesBase, ScanFailsBase, ReportBase, ReadOnBase, LeaveBase
     DEF Next, Step, Terminating

LEMMA Base == Spec => []BaseInv
<1>1. Init => BaseInv
  BY BaseInit
<1>2. BaseInv /\ [Next]_vars => BaseInv'
  BY BaseStep
<1>3. QED
  BY <1>1, <1>2, PTL DEF Spec

LEMMA JobsMatch == BaseInv => JobsMatchItems
<1> SUFFICES ASSUME BaseInv
             PROVE  JobsMatchItems
  OBVIOUS
<1>1. AllJobs(stack, listings)
  BY StackJobs DEF BaseInv
<1>2. QED
  BY <1>1 DEF AllJobs, LevelJobs, JobsMatchItems

\* Scanner::scan and Held: the count of open directories is that of the jobs
\* that hold one, on the levels of the walk and in the scan being made, and it
\* stays within a limit that is lowered in the middle of the walk: whatever is
\* refused, skipped, fails or is tried again, none is counted twice or lost.
THEOREM HeldIsAlwaysCounted == Spec => []HeldIsCounted
<1>1. BaseInv => HeldIsCounted
  BY HeldCounted
<1>2. QED
  BY <1>1, Base, PTL

\* walk/cut.rs: the walk takes the jobs of a scan in the order of the scan's
\* items, and that is the job of the very directory that it enters.
THEOREM JobsAlwaysMatchItems == Spec => []JobsMatchItems
<1>1. BaseInv => JobsMatchItems
  BY JobsMatch
<1>2. QED
  BY <1>1, Base, PTL

\* When no job of the levels holds its directory, those kept open are those
\* shared by the later windows of a level.
LEMMA OnlyListedOpen ==
    ASSUME NEW levels \in Seq(LevelType), NEW lists, AllJobs(levels, lists),
           \A dir \in DOMAIN lists : lists[dir] \in Seq(Kinds), HeldBy(levels) = 0
    PROVE  OpenDirectories(levels)
               = {levels[k].dir : k \in {l \in DOMAIN levels : levels[l].rest # <<>>}}
<1>1. ASSUME NEW k \in DOMAIN levels
      PROVE  KeptOpen(levels[k].subdirs) = {}
  <2>1. /\ \A n \in DOMAIN levels[k].subdirs : ~levels[k].subdirs[n].opened
        /\ \A n \in DOMAIN levels[k].subdirs : levels[k].subdirs[n].start = 0
    BY <1>1, HeldByNone DEF AllJobs, LevelJobs
  <2>2. QED
    BY <2>1 DEF KeptOpen, KeepsOpen
<1>2. ASSUME NEW k \in DOMAIN levels
      PROVE  KeptOpen(levels[k].rest)
                 = IF levels[k].rest = <<>> THEN {} ELSE {levels[k].dir}
  <2> DEFINE rest == levels[k].rest
  <2>1. rest \in Seq(JobType)
    <3>1. levels[k] \in LevelType
      BY <1>2, ElementOfSeq, LenProperties
    <3>2. QED
      BY <3>1 DEF LevelType
  <2>2. \A n \in DOMAIN rest : rest[n].of = levels[k].dir
    BY <1>2 DEF AllJobs, LevelJobs
  <2>3. \A n \in DOMAIN rest : rest[n].start > 0
    <3>1. ASSUME NEW n \in DOMAIN rest PROVE rest[n].start > 0
      <4>1. rest # <<>>
        BY <2>1, <3>1
      <4>2. levels[k].dir \in DOMAIN lists
        BY <1>2, <4>1 DEF AllJobs, LevelJobs
      <4>3. lists[levels[k].dir] \in Seq(Kinds)
        BY <4>2
      <4>4. rest[n].start \in 1..Len(lists[levels[k].dir])
        BY <1>2, <3>1 DEF AllJobs, LevelJobs
      <4>5. QED
        BY <4>3, <4>4, LenProperties
    <3>2. QED
      BY <3>1
  <2>4. KeptOpen(rest) = {rest[n].of : n \in DOMAIN rest}
    BY <2>3 DEF KeptOpen, KeepsOpen
  <2>5. CASE rest = <<>>
    BY <2>4, <2>5
  <2>6. CASE rest # <<>>
    <3>1. 1 \in DOMAIN rest
      BY <2>1, <2>6, LenProperties, EmptySeq
    <3>2. QED
      BY <2>2, <2>4, <2>6, <3>1
  <2>7. QED
    BY <2>5, <2>6
<1>3. \A k \in DOMAIN levels :
          KeptOpen(levels[k].subdirs) \union KeptOpen(levels[k].rest)
              = IF levels[k].rest = <<>> THEN {} ELSE {levels[k].dir}
  BY <1>1, <1>2
<1>4. QED
  BY <1>3 DEF OpenDirectories

\* Scanner::open: out of descriptors, the directories that waiting jobs hold are
\* closed, and the directory is tried again for as long as that closed any; it is
\* given up only when those left open are the ones that later windows share.
THEOREM AlwaysGivesUpWithNoneToClose == Spec => GivesUpWithNoneToClose
<1> DEFINE Retry ==
        OpenStarved =>
            IF scan'.unreadable
            THEN /\ held' = 0
                 /\ OpenDirectories(stack')
                        = {stack[k].dir : k \in {l \in DOMAIN stack : stack[l].rest # <<>>}}
            ELSE held' < held
<1>1. BaseInv /\ [Next]_vars => [Retry]_vars
  <2> SUFFICES ASSUME BaseInv, OpenStarved
               PROVE  Retry
    OBVIOUS
  <2>1. TypeOK /\ PhaseInv /\ JobsInv
    BY DEF BaseInv
  <2>2. /\ pc = "fill" /\ Scanning /\ First /\ ~scan.job.opened /\ ~scan.unreadable
        /\ scan.directories = <<>>
    BY <2>1 DEF OpenStarved, Opens, Scanning, First, PhaseInv
  <2>3. /\ stack \in Seq(LevelType) /\ HeldBy(stack) \in Nat
        /\ Released(stack) \in Seq(LevelType) /\ HeldBy(Released(stack)) = 0
    BY <2>1, HeldFinite, ReleasedFacts DEF TypeOK
  <2>4. held = HeldBy(stack)
    <3>1. Holding(<<scan.job>>) = 0
      BY <2>1, <2>2, ScanTypes, HoldingOne
    <3>2. QED
      BY <2>2, <2>3, <3>1, HeldCounted, HoldingNone DEF HeldIsCounted
  <2>5. held' = held - (HeldBy(stack) - 0) /\ stack' = Released(stack)
    BY <2>3 DEF OpenStarved
  <2>6. held' = 0
    BY <2>3, <2>4, <2>5
  <2>7. IF HeldBy(stack) > 0 THEN scan' = scan ELSE Unreadable
    BY <2>3 DEF OpenStarved
  <2>8. CASE HeldBy(stack) > 0
    BY <2>2, <2>3, <2>4, <2>6, <2>7, <2>8
  <2>9. CASE HeldBy(stack) = 0
    <3>1. scan'.unreadable
      BY <2>1, <2>7, <2>9 DEF Unreadable, TypeOK, ScanType
    <3>2. AllJobs(Released(stack), listings)
      BY <2>1, <2>3, StackJobs, ReleasedJobs
    <3>3. \A dir \in DOMAIN listings : listings[dir] \in Seq(Kinds)
      BY <2>1 DEF TypeOK
    <3>4. OpenDirectories(stack')
              = {stack'[k].dir : k \in {l \in DOMAIN stack' : stack'[l].rest # <<>>}}
      BY <2>3, <2>5, <3>2, <3>3, OnlyListedOpen
    <3>5. /\ DOMAIN stack = 1..Len(stack) /\ DOMAIN stack' = 1..Len(stack)
          /\ \A k \in 1..Len(stack) : stack'[k].dir = stack[k].dir /\ stack'[k].rest = stack[k].rest
      BY <2>3, <2>5, ReleasedFacts, LenProperties
    <3>6. {stack'[k].dir : k \in {l \in DOMAIN stack' : stack'[l].rest # <<>>}}
              = {stack[k].dir : k \in {l \in DOMAIN stack : stack[l].rest # <<>>}}
      BY <3>5
    <3>7. QED
      BY <2>6, <3>1, <3>4, <3>6
  <2>10. QED
    BY <2>3, <2>8, <2>9
<1>2. QED
  BY <1>1, Base, PTL DEF Spec, GivesUpWithNoneToClose


-----------------------------------------------------------------------------
(* What is read of the listings, as operators.                             *)

ListsType(lists) ==
    DOMAIN lists \subseteq Seq(Nat) /\ \A dir \in DOMAIN lists : lists[dir] \in Seq(Kinds)

\* The entries of a listing are below its directory, from place 1.
LEMMA EntryFacts ==
    ASSUME NEW lists, ListsType(lists), NEW path \in EntriesOf(lists)
    PROVE  /\ path \in Seq(Nat) /\ path # <<>>
           /\ Front(path) \in DOMAIN lists /\ Last(path) \in DOMAIN lists[Front(path)]
           /\ Last(path) \in Nat \ {0} /\ path = Append(Front(path), Last(path))
<1>1. PICK dir \in DOMAIN lists : \E p \in DOMAIN lists[dir] : path = Append(dir, p)
  BY DEF EntriesOf
<1>2. PICK p \in DOMAIN lists[dir] : path = Append(dir, p)
  BY <1>1
<1>3. dir \in Seq(Nat) /\ lists[dir] \in Seq(Kinds)
  BY DEF ListsType
<1>4. p \in Nat \ {0}
  BY <1>3, LenProperties
<1>5. /\ path \in Seq(Nat) /\ path # <<>> /\ Front(path) = dir /\ Last(path) = p
  BY <1>2, <1>3, <1>4, PathFacts
<1>6. QED
  BY <1>1, <1>2, <1>3, <1>4, <1>5

LEMMA GoesFacts ==
    ASSUME NEW lists, ListsType(lists), NEW out, NEW bad, NEW d \in Seq(Nat), NEW p \in Nat
    PROVE  /\ Append(d, p) \in EntriesOf(lists) <=> d \in DOMAIN lists /\ p \in DOMAIN lists[d]
           /\ Goes(Append(d, p), lists, out, bad)
                  <=> /\ d \in DOMAIN lists /\ p \in DOMAIN lists[d]
                      /\ lists[d][p] # "special" /\ Append(d, p) \notin out \union bad
<1>1. Front(Append(d, p)) = d /\ Last(Append(d, p)) = p
  BY PathFacts
<1>2. Append(d, p) \in EntriesOf(lists) => d \in DOMAIN lists /\ p \in DOMAIN lists[d]
  BY <1>1, EntryFacts
<1>3. d \in DOMAIN lists /\ p \in DOMAIN lists[d] => Append(d, p) \in EntriesOf(lists)
  BY DEF EntriesOf
<1>4. QED
  BY <1>1, <1>2, <1>3 DEF Goes

\* What is ahead on a level.
LEMMA AheadInNat ==
    ASSUME NEW level \in LevelType, NEW listing, level.rest # <<>> => listing \in Seq(Kinds)
    PROVE  AheadIn(level, listing) \subseteq Nat /\ Later(level, listing) \subseteq Nat \ {0}
<1>1. level.items \in Seq(ItemType) /\ level.rest \in Seq(JobType)
  BY DEF LevelType
<1>2. \A m \in DOMAIN level.items : level.items[m].place \in Nat
  <2>1. \A m \in 1..Len(level.items) : level.items[m] \in ItemType
    BY <1>1, ElementOfSeq
  <2>2. QED
    BY <1>1, <2>1, LenProperties DEF ItemType
<1>3. Later(level, listing) \subseteq Nat \ {0}
  <2>1. CASE level.rest = <<>>
    BY <2>1 DEF Later
  <2>2. CASE level.rest # <<>>
    <3>1. level.rest[1] \in JobType
      BY <1>1, <2>2, ElementOfSeq, EmptySeq, LenProperties
    <3>2. level.rest[1].start \in Nat
      BY <3>1 DEF JobType
    <3>3. Len(listing) \in Nat
      BY <2>2, LenProperties
    <3>4. QED
      BY <2>2, <3>2, <3>3 DEF Later
  <2>3. QED
    BY <2>1, <2>2
<1>4. QED
  BY <1>2, <1>3 DEF AheadIn

LEMMA AheadOfMember ==
    ASSUME NEW levels, NEW lists, NEW a
    PROVE  a \in AheadOf(levels, lists)
              <=> \E k \in DOMAIN levels : \E p \in AheadIn(levels[k], lists[levels[k].dir]) :
                      a = Append(levels[k].dir, p)
  BY DEF AheadOf

-----------------------------------------------------------------------------
(* The rows, what is ahead and what has failed, as the walk goes on.       *)

LEMMA ToSetAppend ==
    ASSUME NEW T, NEW list \in Seq(T), NEW r \in T
    PROVE  /\ ToSet(Append(list, r)) = ToSet(list) \union {r}
           /\ ToSet(list) \subseteq T
<1>1. /\ Append(list, r) \in Seq(T) /\ Len(Append(list, r)) = Len(list) + 1
      /\ \A k \in 1..Len(list) : Append(list, r)[k] = list[k]
      /\ Append(list, r)[Len(list) + 1] = r
      /\ DOMAIN list = 1..Len(list) /\ Len(list) \in Nat
  BY AppendProperties, LenProperties
<1>2. DOMAIN Append(list, r) = 1..(Len(list) + 1)
  BY <1>1, LenProperties
<1>3. \A k \in DOMAIN list : list[k] \in T
  BY <1>1, ElementOfSeq
<1>4. QED
  BY <1>1, <1>2, <1>3 DEF ToSet

\* A directory cannot be listed.
LEMMA HistoryFails ==
    ASSUME NEW policy, NEW list \in Seq(Seq(Nat)), NEW ahead, NEW lists, ListsType(lists),
           NEW out, NEW bad, NEW d \in Seq(Nat), d \notin DOMAIN lists,
           HistoryInv(policy, list, ahead, lists, out, bad, {})
    PROVE  HistoryInv(policy, list, ahead, lists, out, bad \union {Append(d, 0)}, {Append(d, 0)})
<1> DEFINE x == Append(d, 0)
           badN == bad \union {x}
<1>1. x \in Seq(Nat) /\ x # <<>> /\ Front(x) = d /\ Last(x) = 0
  BY PathFacts
<1>2. x \notin EntriesOf(lists)
  BY <1>1, EntryFacts
<1>3. /\ RowsInv(list, ahead, lists, out, bad) /\ ListsInv(list, lists, out, bad)
      /\ GoesInv(policy, list, ahead, lists, out, bad) /\ FailInv(policy, ahead, bad, {})
  BY DEF HistoryInv
<1> HIDE DEF x
<1>4. \A path : Goes(path, lists, out, badN) <=> Goes(path, lists, out, bad)
  BY <1>2 DEF Goes
<1>5. RowsInv(list, ahead, lists, out, badN)
  BY <1>3, <1>4 DEF RowsInv
<1>6. ListsInv(list, lists, out, badN)
  BY <1>1, <1>3 DEF ListsInv
<1>7. GoesInv(policy, list, ahead, lists, out, badN)
  BY <1>3, <1>4 DEF GoesInv
<1>8. FailInv(policy, ahead, badN, {x})
  BY <1>3 DEF FailInv
<1>9. QED
  BY <1>5, <1>6, <1>7, <1>8 DEF HistoryInv, x

\* The directory at dir, which the walk is to go on with, is listed.
ListedNow(dir, list, lists, listsN) ==
    /\ ListsType(lists) /\ ListsType(listsN)
    /\ dir \in Seq(Nat) /\ dir \notin DOMAIN lists
    /\ dir = <<>> \/ dir \in ToSet(list)
    /\ \A r \in ToSet(list) : Before(r, Append(dir, 0))
    /\ DOMAIN listsN = {dir} \union DOMAIN lists
    /\ \A e \in DOMAIN lists : listsN[e] = lists[e]

\* More of the directory at dir is ahead.
AheadGrows(dir, ahead, aheadN) ==
    ahead \subseteq aheadN /\ \A a \in aheadN : a \in ahead \/ \E p \in Nat : a = Append(dir, p)

\* A directory is listed, to its end or not.
LEMMA HistoryLists ==
    ASSUME NEW policy, NEW list \in Seq(Seq(Nat)), NEW ahead, NEW lists,
           NEW out, NEW bad, HistoryInv(policy, list, ahead, lists, out, bad, {}),
           NEW d, NEW listsN, ListedNow(d, list, lists, listsN),
           NEW aheadN, AheadGrows(d, ahead, aheadN),
           NEW badN, bad \subseteq badN, badN \subseteq bad \union {Append(d, 0)},
           policy = "Fail" => badN \subseteq bad \union aheadN,
           \/ \A p \in DOMAIN listsN[d] : Append(d, p) \in aheadN
           \/ policy = "Fail" /\ Append(d, 0) \in badN
    PROVE  HistoryInv(policy, list, aheadN, listsN, out, badN, {})
<1>0. /\ ListsType(lists) /\ ListsType(listsN)
      /\ d \in Seq(Nat) /\ d \notin DOMAIN lists
      /\ d = <<>> \/ d \in ToSet(list)
      /\ \A r \in ToSet(list) : Before(r, Append(d, 0))
      /\ DOMAIN listsN = {d} \union DOMAIN lists
      /\ \A e \in DOMAIN lists : listsN[e] = lists[e]
      /\ ahead \subseteq aheadN
      /\ \A a \in aheadN : a \in ahead \/ \E p \in Nat : a = Append(d, p)
  BY DEF ListedNow, AheadGrows
<1>1. /\ RowsInv(list, ahead, lists, out, bad) /\ ListsInv(list, lists, out, bad)
      /\ GoesInv(policy, list, ahead, lists, out, bad) /\ FailInv(policy, ahead, bad, {})
  BY DEF HistoryInv
<1>2. Append(d, 0) # <<>> /\ Last(Append(d, 0)) = 0
  BY <1>0, PathFacts
<1>3. \A f \in EntriesOf(lists) : f \in EntriesOf(listsN) /\ f # Append(d, 0)
  <2> SUFFICES ASSUME NEW f \in EntriesOf(lists)
               PROVE  f \in EntriesOf(listsN) /\ f # Append(d, 0)
    OBVIOUS
  <2>1. /\ Front(f) \in DOMAIN lists /\ Last(f) \in DOMAIN lists[Front(f)]
        /\ Last(f) \in Nat \ {0} /\ f = Append(Front(f), Last(f))
    BY <1>0, EntryFacts
  <2>2. Front(f) \in DOMAIN listsN /\ Last(f) \in DOMAIN listsN[Front(f)]
    BY <1>0, <2>1
  <2>3. QED
    BY <1>0, <1>2, <2>1, <2>2 DEF EntriesOf
<1>4. RowsInv(list, aheadN, listsN, out, badN)
  <2> SUFFICES ASSUME NEW r \in ToSet(list)
               PROVE  Goes(r, listsN, out, badN) /\ \A a \in aheadN : Before(r, a)
    BY <1>1 DEF RowsInv
  <2>1. Goes(r, lists, out, bad) /\ \A a \in ahead : Before(r, a)
    BY <1>1 DEF RowsInv
  <2>2. r \in EntriesOf(lists) /\ r \in EntriesOf(listsN) /\ r # Append(d, 0)
    BY <1>3, <2>1 DEF Goes
  <2>3. r \in Seq(Nat) /\ Front(r) \in DOMAIN lists
    BY <1>0, <2>2, EntryFacts
  <2>4. Goes(r, listsN, out, badN)
    BY <1>0, <2>1, <2>2, <2>3 DEF Goes
  <2>5. \A p \in Nat : Before(r, Append(d, p))
    BY <1>0, <2>3, BeforeEntries
  <2>6. QED
    BY <1>0, <2>1, <2>4, <2>5
<1>5. ListsInv(list, listsN, out, badN)
  BY <1>0, <1>1, <1>2, <1>3 DEF ListsInv
<1>6. GoesInv(policy, list, aheadN, listsN, out, badN)
  <2> SUFFICES ASSUME NEW dir \in DOMAIN listsN, NEW p \in DOMAIN listsN[dir],
                      Goes(Append(dir, p), listsN, out, badN)
               PROVE  \/ Append(dir, p) \in ToSet(list) \union aheadN
                      \/ policy = "Fail" /\ \E q \in 0..(p - 1) : Append(dir, q) \in badN
    BY DEF GoesInv
  <2>1. dir \in Seq(Nat) /\ listsN[dir] \in Seq(Kinds)
    BY <1>0 DEF ListsType
  <2>2. p \in Nat \ {0}
    BY <2>1, LenProperties
  <2>3. CASE dir = d
    <3>1. 0 \in 0..(p - 1)
      BY <2>2
    <3>2. QED
      BY <2>3, <3>1
  <2>4. CASE dir # d
    <3>1. dir \in DOMAIN lists /\ p \in DOMAIN lists[dir] /\ listsN[dir] = lists[dir]
      BY <1>0, <2>4
    <3>2. Goes(Append(dir, p), lists, out, bad)
      BY <1>0, <2>1, <2>2, <3>1, GoesFacts
    <3>3. \/ Append(dir, p) \in ToSet(list) \union ahead
          \/ policy = "Fail" /\ \E q \in 0..(p - 1) : Append(dir, q) \in bad
      BY <1>1, <3>1, <3>2 DEF GoesInv
    <3>4. QED
      BY <1>0, <3>3
  <2>5. QED
    BY <2>3, <2>4
<1>7. FailInv(policy, aheadN, badN, {})
  BY <1>0, <1>1 DEF FailInv
<1>8. QED
  BY <1>4, <1>5, <1>6, <1>7 DEF HistoryInv

\* Less is ahead: the entry at path is refused or has failed, or under Fail it
\* has failed and what comes after it in its directory is not read any more.
AheadShrinks(policy, dir, place, ahead, aheadN, outN, badN) ==
    /\ aheadN \subseteq ahead
    /\ \A a \in ahead \ aheadN :
          \/ a = Append(dir, place) /\ a \in outN \union badN
          \/ /\ policy = "Fail" /\ Append(dir, place) \in badN
             /\ \E q \in Nat : place < q /\ a = Append(dir, q)
    /\ policy = "Fail" => \A a \in ahead \ aheadN : a \notin badN

\* The entry is read.
LEMMA HistoryReads ==
    ASSUME NEW policy, NEW list \in Seq(Seq(Nat)), NEW ahead, NEW lists, ListsType(lists),
           NEW out, NEW bad, HistoryInv(policy, list, ahead, lists, out, bad, {}),
           NEW d \in DOMAIN lists, NEW p \in DOMAIN lists[d], Append(d, p) \in ahead,
           NEW aheadN, NEW outN, out \subseteq outN, outN \subseteq out \union {Append(d, p)},
           NEW badN, bad \subseteq badN, badN \subseteq bad \union {Append(d, p)},
           AheadShrinks(policy, d, p, ahead, aheadN, outN, badN)
    PROVE  HistoryInv(policy, list, aheadN, lists, outN, badN, {})
<1>0. /\ aheadN \subseteq ahead
      /\ \A a \in ahead \ aheadN :
            \/ a = Append(d, p) /\ a \in outN \union badN
            \/ /\ policy = "Fail" /\ Append(d, p) \in badN
               /\ \E q \in Nat : p < q /\ a = Append(d, q)
      /\ policy = "Fail" => \A a \in ahead \ aheadN : a \notin badN
  BY DEF AheadShrinks
<1> DEFINE here == Append(d, p)
<1>1. /\ RowsInv(list, ahead, lists, out, bad) /\ ListsInv(list, lists, out, bad)
      /\ GoesInv(policy, list, ahead, lists, out, bad) /\ FailInv(policy, ahead, bad, {})
  BY DEF HistoryInv
<1>2. d \in Seq(Nat) /\ p \in Nat \ {0} /\ here \in Seq(Nat)
  <2>1. d \in Seq(Nat) /\ lists[d] \in Seq(Kinds)
    BY DEF ListsType
  <2>2. p \in Nat \ {0}
    BY <2>1, LenProperties
  <2>3. QED
    BY <2>1, <2>2, PathFacts
<1>3. here \in EntriesOf(lists)
  BY DEF EntriesOf
<1>4. RowsInv(list, aheadN, lists, outN, badN)
  <2> SUFFICES ASSUME NEW r \in ToSet(list)
               PROVE  Goes(r, lists, outN, badN) /\ \A a \in aheadN : Before(r, a)
    BY <1>1 DEF RowsInv
  <2>1. Goes(r, lists, out, bad) /\ \A a \in ahead : Before(r, a)
    BY <1>1 DEF RowsInv
  <2>2. r \in Seq(Nat)
    BY <2>1, EntryFacts DEF Goes
  <2>3. Before(r, here)
    BY <2>1
  <2>4. r # here
    BY <1>2, <2>2, <2>3, BeforeIsNot
  <2>5. Goes(r, lists, outN, badN)
    BY <2>1, <2>4 DEF Goes
  <2>6. QED
    BY <1>0, <2>1, <2>5
<1>5. ListsInv(list, lists, outN, badN)
  BY <1>1, <1>3 DEF ListsInv
<1>6. GoesInv(policy, list, aheadN, lists, outN, badN)
  <2> SUFFICES ASSUME NEW dir \in DOMAIN lists, NEW m \in DOMAIN lists[dir],
                      Goes(Append(dir, m), lists, outN, badN)
               PROVE  \/ Append(dir, m) \in ToSet(list) \union aheadN
                      \/ policy = "Fail" /\ \E q \in 0..(m - 1) : Append(dir, q) \in badN
    BY DEF GoesInv
  <2>1. dir \in Seq(Nat) /\ lists[dir] \in Seq(Kinds)
    BY DEF ListsType
  <2>2. m \in Nat \ {0}
    BY <2>1, LenProperties
  <2>3. Append(dir, m) \notin outN \union badN /\ Goes(Append(dir, m), lists, out, bad)
    BY DEF Goes
  <2>4. \/ Append(dir, m) \in ToSet(list) \union ahead
        \/ policy = "Fail" /\ \E q \in 0..(m - 1) : Append(dir, q) \in bad
    BY <1>1, <2>3 DEF GoesInv
  <2>5. CASE Append(dir, m) \in ahead \ aheadN
    <3>1. PICK q \in Nat : /\ policy = "Fail" /\ here \in badN /\ p < q
                           /\ Append(dir, m) = Append(d, q)
      BY <1>0, <2>3, <2>5
    <3>2. dir = d /\ m = q
      BY <1>2, <2>1, <2>2, <3>1, SamePath
    <3>3. p \in 0..(m - 1)
      BY <1>2, <2>2, <3>1, <3>2
    <3>4. QED
      BY <3>1, <3>2, <3>3
  <2>6. QED
    BY <1>0, <2>4, <2>5
<1>7. FailInv(policy, aheadN, badN, {})
  BY <1>0, <1>1 DEF FailInv
<1>8. QED
  BY <1>4, <1>5, <1>6, <1>7 DEF HistoryInv

\* The walk comes to the first path of what is ahead, and puts it in a row if it
\* is an entry that goes there.
LEMMA HistoryVisits ==
    ASSUME NEW policy, NEW list \in Seq(Seq(Nat)), NEW ahead, NEW lists, ListsType(lists),
           NEW out, NEW bad, HistoryInv(policy, list, ahead, lists, out, bad, {}),
           NEW p \in Seq(Nat), p \in ahead, NEW aheadN, aheadN \subseteq ahead,
           ahead \subseteq aheadN \union {p}, \A a \in aheadN : Before(p, a),
           policy = "Fail" => p \notin bad,
           NEW listN,
           \/ listN = Append(list, p) /\ Goes(p, lists, out, bad)
           \/ listN = list /\ ~Goes(p, lists, out, bad)
    PROVE  HistoryInv(policy, listN, aheadN, lists, out, bad, {})
<1>1. /\ RowsInv(list, ahead, lists, out, bad) /\ ListsInv(list, lists, out, bad)
      /\ GoesInv(policy, list, ahead, lists, out, bad) /\ FailInv(policy, ahead, bad, {})
  BY DEF HistoryInv
<1>2. ToSet(Append(list, p)) = ToSet(list) \union {p}
  BY ToSetAppend
<1>3. RowsInv(listN, aheadN, lists, out, bad)
  <2>1. CASE listN = list
    BY <1>1, <2>1 DEF RowsInv
  <2>2. CASE listN = Append(list, p) /\ Goes(p, lists, out, bad)
    <3>1. \A r \in ToSet(listN) : Goes(r, lists, out, bad) /\ \A a \in aheadN : Before(r, a)
      BY <1>1, <1>2, <2>2 DEF RowsInv
    <3>2. /\ DOMAIN list = 1..Len(list) /\ DOMAIN listN = 1..(Len(list) + 1) /\ Len(list) \in Nat
          /\ \A k \in 1..Len(list) : listN[k] = list[k]
          /\ listN[Len(list) + 1] = p
      BY <2>2, AppendProperties, LenProperties
    <3>3. ASSUME NEW k \in DOMAIN listN, NEW l \in DOMAIN listN, k < l
          PROVE  Before(listN[k], listN[l])
      <4>1. k \in 1..Len(list) /\ (l \in 1..Len(list) \/ l = Len(list) + 1)
        BY <3>2, <3>3
      <4>2. list[k] \in ToSet(list)
        BY <3>2, <4>1 DEF ToSet
      <4>3. Before(list[k], p)
        BY <1>1, <4>2 DEF RowsInv
      <4>4. QED
        BY <1>1, <3>2, <3>3, <4>1, <4>3 DEF RowsInv
    <3>4. QED
      BY <3>1, <3>3 DEF RowsInv
  <2>3. QED
    BY <2>1, <2>2
<1>4. ToSet(list) \subseteq ToSet(listN)
  BY <1>2
<1>5. ListsInv(listN, lists, out, bad)
  BY <1>1, <1>4 DEF ListsInv
<1>6. GoesInv(policy, listN, aheadN, lists, out, bad)
  <2> SUFFICES ASSUME NEW dir \in DOMAIN lists, NEW m \in DOMAIN lists[dir],
                      Goes(Append(dir, m), lists, out, bad)
               PROVE  \/ Append(dir, m) \in ToSet(listN) \union aheadN
                      \/ policy = "Fail" /\ \E q \in 0..(m - 1) : Append(dir, q) \in bad
    BY DEF GoesInv
  <2>1. \/ Append(dir, m) \in ToSet(list) \union ahead
        \/ policy = "Fail" /\ \E q \in 0..(m - 1) : Append(dir, q) \in bad
    BY <1>1 DEF GoesInv
  <2>2. Append(dir, m) = p => p \in ToSet(listN)
    BY <1>2
  <2>3. QED
    BY <1>4, <2>1, <2>2
<1>7. FailInv(policy, aheadN, bad, {})
  BY <1>1 DEF FailInv
<1>8. QED
  BY <1>3, <1>5, <1>6, <1>7 DEF HistoryInv

\* Nothing is ahead any more.
LEMMA HistoryEnds ==
    ASSUME NEW policy, NEW list, NEW lists, ListsType(lists),
           NEW out, NEW bad, HistoryInv(policy, list, {}, lists, out, bad, {})
    PROVE  ToSet(list) = {path \in EntriesOf(lists) : Goes(path, lists, out, bad)}
<1>1. /\ RowsInv(list, {}, lists, out, bad)
      /\ GoesInv(policy, list, {}, lists, out, bad) /\ FailInv(policy, {}, bad, {})
  BY DEF HistoryInv
<1>2. \A r \in ToSet(list) : r \in EntriesOf(lists) /\ Goes(r, lists, out, bad)
  BY <1>1 DEF RowsInv, Goes
<1>3. ASSUME NEW path \in EntriesOf(lists), Goes(path, lists, out, bad)
      PROVE  path \in ToSet(list)
  <2>1. /\ Front(path) \in DOMAIN lists /\ Last(path) \in DOMAIN lists[Front(path)]
        /\ path = Append(Front(path), Last(path))
    BY EntryFacts
  <2>2. \/ path \in ToSet(list)
        \/ policy = "Fail" /\ \E q \in 0..(Last(path) - 1) : Append(Front(path), q) \in bad
    BY <1>1, <1>3, <2>1 DEF GoesInv
  <2>3. QED
    BY <1>1, <2>2 DEF FailInv
<1>4. QED
  BY <1>2, <1>3

\* What goes into a row and is before x.
GoneBefore(x, lists, out, bad) ==
    {path \in EntriesOf(lists) : Goes(path, lists, out, bad) /\ Before(path, x)}

\* The walk fails on x, which is not after anything ahead.
LEMMA HistoryStops ==
    ASSUME NEW policy, NEW list \in Seq(Seq(Nat)), NEW ahead, ahead \subseteq Seq(Nat),
           NEW lists, ListsType(lists), NEW out, NEW bad, NEW lost,
           HistoryInv(policy, list, ahead, lists, out, bad, lost),
           NEW x \in Seq(Nat), x \in bad, lost \subseteq {x},
           \A a \in ahead : a = x \/ Before(x, a), \A r \in ToSet(list) : Before(r, x)
    PROVE  /\ ToSet(list) = GoneBefore(x, lists, out, bad)
           /\ policy = "Fail" => \A f \in bad : ~Before(f, x)
<1>1. /\ RowsInv(list, ahead, lists, out, bad)
      /\ GoesInv(policy, list, ahead, lists, out, bad) /\ FailInv(policy, ahead, bad, lost)
  BY DEF HistoryInv
<1>2. \A r \in ToSet(list) : r \in EntriesOf(lists) /\ Goes(r, lists, out, bad)
  BY <1>1 DEF RowsInv, Goes
<1>3. \A a \in Seq(Nat) : a = x \/ Before(x, a) => ~Before(a, x)
  BY BeforeIsNot
<1>4. policy = "Fail" => \A f \in bad : f \in Seq(Nat) /\ (f = x \/ Before(x, f))
  BY <1>1 DEF FailInv
<1>5. ASSUME NEW path \in EntriesOf(lists), Goes(path, lists, out, bad), Before(path, x)
      PROVE  path \in ToSet(list)
  <2>1. /\ path \in Seq(Nat)
        /\ Front(path) \in DOMAIN lists /\ Last(path) \in DOMAIN lists[Front(path)]
        /\ Last(path) \in Nat \ {0} /\ path = Append(Front(path), Last(path))
    BY EntryFacts
  <2>2. \/ path \in ToSet(list) \union ahead
        \/ policy = "Fail" /\ \E q \in 0..(Last(path) - 1) : Append(Front(path), q) \in bad
    BY <1>1, <1>5, <2>1 DEF GoesInv
  <2>3. path \notin ahead
    BY <1>3, <1>5, <2>1
  <2>4. ASSUME policy = "Fail", NEW q \in 0..(Last(path) - 1), Append(Front(path), q) \in bad
        PROVE  FALSE
    <3> DEFINE f == Append(Front(path), q)
    <3>1. Front(path) \in Seq(Nat) /\ q \in Nat /\ q < Last(path)
      BY <2>1 DEF ListsType
    <3>2. f \in Seq(Nat) /\ Before(f, path)
      <4>1. Before(Append(Front(path), q), Append(Front(path), Last(path)))
        BY <2>1, <3>1, EntriesInOrder
      <4>2. QED
        BY <2>1, <3>1, <4>1, PathFacts
    <3>3. f = x \/ Before(x, f)
      BY <1>4, <2>4
    <3> HIDE DEF f
    <3>4. Before(f, x)
      BY <1>5, <2>1, <3>2, BeforeTransitive
    <3>5. QED
      BY <1>3, <3>2, <3>3, <3>4
  <2>5. QED
    BY <2>2, <2>3, <2>4
<1>6. \A path \in GoneBefore(x, lists, out, bad) : path \in ToSet(list)
  BY <1>5 DEF GoneBefore
<1>7. \A r \in ToSet(list) : r \in GoneBefore(x, lists, out, bad)
  BY <1>2 DEF GoneBefore
<1>8. \A f \in bad : policy = "Fail" => ~Before(f, x)
  BY <1>3, <1>4
<1>9. QED
  BY <1>6, <1>7, <1>8

LEMMA RootIsFirst ==
    ASSUME NEW f \in Seq(Nat), f # <<>>
    PROVE  ~Before(f, Append(<<>>, 0))
<1>1. <<>> \in Seq(Nat) /\ Len(<<>>) = 0
  BY EmptySeq
<1>2. DOMAIN Append(<<>>, 0) = {1} /\ Append(<<>>, 0)[1] = 0
  BY <1>1, PathFacts
<1>3. 1 \in DOMAIN f /\ f[1] \in Nat
  BY LenProperties, EmptySeq, ElementOfSeq
<1>4. QED
  BY <1>2, <1>3 DEF Before

-----------------------------------------------------------------------------
(* The levels, as the walk goes on.                                        *)

\* What is said of a level is about what is in its own directory.
LEMMA LevelKept ==
    ASSUME NEW level \in LevelType, NEW levelN, levelN.dir = level.dir,
           levelN.items = level.items, levelN.rest = level.rest,
           NEW lists, NEW listsN, lists[level.dir] = listsN[level.dir],
           level.dir \in DOMAIN lists => level.dir \in DOMAIN listsN,
           level.dir \in DOMAIN lists => lists[level.dir] \in Seq(Kinds),
           level.rest # <<>> => level.dir \in DOMAIN lists,
           NEW out, NEW bad, NEW outN, NEW badN,
           \A p \in Nat : Append(level.dir, p) \in outN <=> Append(level.dir, p) \in out,
           \A p \in Nat : Append(level.dir, p) \in badN <=> Append(level.dir, p) \in bad,
           LevelInv(level, lists, out, bad)
    PROVE  LevelInv(levelN, listsN, outN, badN)
<1> DEFINE listing == lists[level.dir]
<1>1. /\ RestInv(level.rest, listing)
      /\ \A m \in DOMAIN level.items :
            /\ ItemInv(level.dir, level.items[m], listing, out, bad)
            /\ level.items[m].place <= ReadTo(level, listing)
            /\ \A n \in 1..(m - 1) : level.items[n].place < level.items[m].place
      /\ level.items # <<>> => level.dir \in DOMAIN lists
      /\ \A p \in Later(level, listing) : Append(level.dir, p) \notin out \union bad
  BY DEF LevelInv
<1>2. ReadTo(levelN, listing) = ReadTo(level, listing)
      /\ Later(levelN, listing) = Later(level, listing)
  BY DEF ReadTo, Later
<1>3. Later(level, listing) \subseteq Nat
  BY AheadInNat
<1>4. \A m \in DOMAIN level.items : level.items[m].place \in Nat
  <2>1. level.items \in Seq(ItemType)
    BY DEF LevelType
  <2>2. \A m \in DOMAIN level.items : level.items[m] \in ItemType
    BY <2>1, ElementOfSeq, LenProperties
  <2>3. QED
    BY <2>2 DEF ItemType
<1>5. \A m \in DOMAIN level.items :
          ItemInv(level.dir, level.items[m], listing, outN, badN)
  BY <1>1, <1>4 DEF ItemInv
<1>6. \A p \in Later(level, listing) : Append(level.dir, p) \notin outN \union badN
  BY <1>1, <1>3
<1> HIDE DEF listing
<1>7. /\ RestInv(levelN.rest, listing)
      /\ \A m \in DOMAIN levelN.items :
            /\ ItemInv(levelN.dir, levelN.items[m], listing, outN, badN)
            /\ levelN.items[m].place <= ReadTo(levelN, listing)
            /\ \A n \in 1..(m - 1) : levelN.items[n].place < levelN.items[m].place
      /\ levelN.items # <<>> => levelN.dir \in DOMAIN listsN
      /\ \A p \in Later(levelN, listing) : Append(levelN.dir, p) \notin outN \union badN
  BY <1>1, <1>2, <1>5, <1>6
<1>8. QED
  BY <1>7 DEF LevelInv, listing

\* The jobs of the levels may have changed.
SameLevels(levels, levelsN) ==
    /\ DOMAIN levelsN = DOMAIN levels
    /\ \A k \in DOMAIN levels :
          /\ levelsN[k].dir = levels[k].dir /\ levelsN[k].items = levels[k].items
          /\ levelsN[k].rest = levels[k].rest

\* The listings of the levels are the same.
SameListings(levels, lists, listsN) ==
    \A k \in DOMAIN levels :
        levels[k].dir \in DOMAIN listsN /\ listsN[levels[k].dir] = lists[levels[k].dir]

\* No more of their entries are among those refused or failed.
SameEntries(levels, paths, pathsN) ==
    \A k \in DOMAIN levels : \A p \in Nat :
        Append(levels[k].dir, p) \in pathsN <=> Append(levels[k].dir, p) \in paths

LEMMA OuterKept ==
    ASSUME NEW levels \in Seq(LevelType), NEW levelsN, SameLevels(levels, levelsN),
           NEW lists, ListsType(lists), NEW listsN, SameListings(levels, lists, listsN),
           NEW out, NEW outN, SameEntries(levels, out, outN),
           NEW bad, NEW badN, SameEntries(levels, bad, badN),
           NEW path, OuterInv(levels, lists, out, bad, path)
    PROVE  /\ OuterInv(levelsN, listsN, outN, badN, path)
           /\ AheadOf(levelsN, listsN) = AheadOf(levels, lists)
<1>1. ASSUME NEW k \in DOMAIN levels
      PROVE  /\ LevelInv(levelsN[k], listsN, outN, badN) /\ levelsN[k].dir \in DOMAIN listsN
             /\ AheadIn(levelsN[k], listsN[levelsN[k].dir])
                    = AheadIn(levels[k], lists[levels[k].dir])
             /\ \A l \in 1..(k - 1) : levelsN[k].dir[l] = path[l]
             /\ \A p \in AheadIn(levelsN[k], listsN[levelsN[k].dir]) : path[k] < p
  <2>1. /\ levels[k] \in LevelType /\ levelsN[k].dir = levels[k].dir
        /\ levelsN[k].items = levels[k].items /\ levelsN[k].rest = levels[k].rest
    BY ElementOfSeq, LenProperties DEF SameLevels
  <2>2. /\ LevelInv(levels[k], lists, out, bad) /\ levels[k].dir \in DOMAIN lists
        /\ \A l \in 1..(k - 1) : levels[k].dir[l] = path[l]
        /\ \A p \in AheadIn(levels[k], lists[levels[k].dir]) : path[k] < p
    BY DEF OuterInv
  <2>3. lists[levels[k].dir] \in Seq(Kinds)
    BY <2>2 DEF ListsType
  <2>4. /\ levels[k].dir \in DOMAIN listsN /\ listsN[levels[k].dir] = lists[levels[k].dir]
        /\ \A p \in Nat :
              /\ Append(levels[k].dir, p) \in outN <=> Append(levels[k].dir, p) \in out
              /\ Append(levels[k].dir, p) \in badN <=> Append(levels[k].dir, p) \in bad
    BY DEF SameListings, SameEntries
  <2>5. LevelInv(levelsN[k], listsN, outN, badN)
    BY <2>1, <2>2, <2>3, <2>4, LevelKept
  <2>6. AheadIn(levelsN[k], listsN[levelsN[k].dir]) = AheadIn(levels[k], lists[levels[k].dir])
    BY <2>1, <2>4 DEF AheadIn, Later
  <2>7. QED
    BY <2>1, <2>2, <2>4, <2>5, <2>6
<1>2. OuterInv(levelsN, listsN, outN, badN, path)
  BY <1>1 DEF OuterInv, SameLevels
<1>3. \A a : a \in AheadOf(levelsN, listsN) <=> a \in AheadOf(levels, lists)
  <2>1. /\ DOMAIN levelsN = DOMAIN levels
        /\ \A k \in DOMAIN levels :
              /\ levelsN[k].dir = levels[k].dir
              /\ AheadIn(levelsN[k], listsN[levelsN[k].dir])
                     = AheadIn(levels[k], lists[levels[k].dir])
    BY <1>1 DEF SameLevels
  <2> TAKE a
  <2>2. a \in AheadOf(levelsN, listsN)
           <=> \E k \in DOMAIN levelsN : \E p \in AheadIn(levelsN[k], listsN[levelsN[k].dir]) :
                   a = Append(levelsN[k].dir, p)
    BY AheadOfMember
  <2>3. a \in AheadOf(levels, lists)
           <=> \E k \in DOMAIN levels : \E p \in AheadIn(levels[k], lists[levels[k].dir]) :
                   a = Append(levels[k].dir, p)
    BY AheadOfMember
  <2>4. QED
    BY <2>1, <2>2, <2>3
<1>4. QED
  BY <1>2, <1>3

\* What is ahead on the levels around comes after all of the directory inside.
LEMMA OuterComesAfter ==
    ASSUME NEW levels \in Seq(LevelType), NEW lists, ListsType(lists), NEW out, NEW bad,
           NEW path \in Seq(Nat), Len(path) = Len(levels),
           \A k \in DOMAIN levels : Len(levels[k].dir) = k - 1,
           OuterInv(levels, lists, out, bad, path), NEW a \in AheadOf(levels, lists)
    PROVE  a \in Seq(Nat) /\ \A p \in Nat : Before(Append(path, p), a)
<1>1. PICK k \in DOMAIN levels : \E q \in AheadIn(levels[k], lists[levels[k].dir]) :
                                     a = Append(levels[k].dir, q)
  BY AheadOfMember
<1>2. PICK q \in AheadIn(levels[k], lists[levels[k].dir]) : a = Append(levels[k].dir, q)
  BY <1>1
<1>3. /\ levels[k].dir \in DOMAIN lists /\ \A l \in 1..(k - 1) : levels[k].dir[l] = path[l]
      /\ path[k] < q
  BY DEF OuterInv
<1>4. levels[k] \in LevelType /\ k \in 1..Len(path) /\ Len(path) \in Nat
  BY ElementOfSeq, LenProperties
<1>5. levels[k].dir \in Seq(Nat) /\ lists[levels[k].dir] \in Seq(Kinds)
  BY <1>3, <1>4 DEF LevelType, ListsType
<1>6. q \in Nat
  BY <1>4, <1>5, AheadInNat
<1>7. a \in Seq(Nat)
  BY <1>2, <1>5, <1>6, PathFacts
<1>8. ASSUME NEW p \in Nat
      PROVE  Before(Append(path, p), a)
  <2> DEFINE s == Append(path, p)
             d == levels[k].dir
  <2>1. /\ s \in Seq(Nat) /\ Len(s) = Len(path) + 1 /\ \A l \in 1..Len(path) : s[l] = path[l]
    BY PathFacts
  <2>2. Len(d) = k - 1 /\ d \in Seq(Nat)
    BY <1>5
  <2>3. /\ Len(d) < Len(s) /\ \A l \in 1..Len(d) : d[l] = s[l]
        /\ s[Len(d) + 1] < q
    <3>1. Len(d) < Len(s) /\ Len(d) + 1 = k
      BY <1>4, <2>1, <2>2
    <3>2. s[k] = path[k]
      BY <1>4, <2>1
    <3>3. \A l \in 1..Len(d) : d[l] = s[l]
      BY <1>3, <1>4, <2>1, <2>2
    <3>4. QED
      BY <1>3, <3>1, <3>2, <3>3
  <2> HIDE DEF s
  <2>4. Before(s, Append(d, q))
    BY <1>6, <2>1, <2>2, <2>3, InsideBefore
  <2>5. QED
    BY <1>2, <2>4 DEF s
<1>9. QED
  BY <1>7, <1>8

LEMMA AheadOfAppend ==
    ASSUME NEW levels \in Seq(LevelType), NEW level \in LevelType, NEW lists
    PROVE  AheadOf(Append(levels, level), lists)
               = AheadOf(levels, lists) \union AheadAt(level, lists[level.dir], {})
<1> DEFINE both == Append(levels, level)
           n == Len(levels)
<1>1. /\ n \in Nat /\ DOMAIN levels = 1..n
      /\ \A k \in 1..n : both[k] = levels[k]
      /\ both[n + 1] = level
  BY AppendProperties, LenProperties
<1>2. DOMAIN both = 1..(n + 1)
  BY AppendProperties, LenProperties
<1> HIDE DEF both, n
<1>3. ASSUME NEW a
      PROVE  a \in AheadOf(both, lists)
                <=> a \in AheadOf(levels, lists) \union AheadAt(level, lists[level.dir], {})
  <2>1. a \in AheadOf(both, lists)
           <=> \E k \in DOMAIN both : \E q \in AheadIn(both[k], lists[both[k].dir]) :
                   a = Append(both[k].dir, q)
    BY AheadOfMember
  <2>2. a \in AheadOf(levels, lists)
           <=> \E k \in DOMAIN levels : \E q \in AheadIn(levels[k], lists[levels[k].dir]) :
                   a = Append(levels[k].dir, q)
    BY AheadOfMember
  <2>3. a \in AheadAt(level, lists[level.dir], {})
           <=> \E q \in AheadIn(level, lists[level.dir]) : a = Append(level.dir, q)
    BY DEF AheadAt
  <2>4. DOMAIN both = DOMAIN levels \union {n + 1}
    BY <1>1, <1>2
  <2>5. \A k \in DOMAIN levels : both[k] = levels[k]
    BY <1>1
  <2>6. (\E k \in DOMAIN both : \E q \in AheadIn(both[k], lists[both[k].dir]) :
             a = Append(both[k].dir, q))
           <=> \/ \E k \in DOMAIN levels : \E q \in AheadIn(levels[k], lists[levels[k].dir]) :
                      a = Append(levels[k].dir, q)
               \/ \E q \in AheadIn(level, lists[level.dir]) : a = Append(level.dir, q)
    BY <1>1, <2>4, <2>5
  <2>7. QED
    BY <2>1, <2>2, <2>3, <2>6
<1>4. QED
  BY <1>3 DEF both

\* The walk goes into the directory at place p of the innermost level.
LEMMA OuterGrows ==
    ASSUME NEW levels \in Seq(LevelType), NEW level \in LevelType, NEW lists,
           NEW out, NEW bad, Len(level.dir) = Len(levels),
           OuterInv(levels, lists, out, bad, level.dir),
           LevelInv(level, lists, out, bad), level.dir \in DOMAIN lists,
           NEW p \in Nat, \A q \in AheadIn(level, lists[level.dir]) : p < q
    PROVE  /\ OuterInv(Append(levels, level), lists, out, bad, Append(level.dir, p))
           /\ AheadOf(Append(levels, level), lists)
                  = AheadOf(levels, lists) \union AheadAt(level, lists[level.dir], {})
<1> DEFINE both == Append(levels, level)
           path == Append(level.dir, p)
           n == Len(levels)
<1>1. /\ both \in Seq(LevelType) /\ n \in Nat /\ DOMAIN levels = 1..n
      /\ \A k \in 1..n : both[k] = levels[k]
      /\ both[n + 1] = level
  BY AppendProperties, LenProperties
<1>2. DOMAIN both = 1..(n + 1)
  BY AppendProperties, LenProperties
<1>3. level.dir \in Seq(Nat)
  BY DEF LevelType
<1>4. /\ \A l \in 1..n : path[l] = level.dir[l]
      /\ path[n + 1] = p
  BY <1>3, PathFacts
<1> HIDE DEF both, path, n
<1>5. ASSUME NEW k \in 1..(n + 1)
      PROVE  /\ LevelInv(both[k], lists, out, bad) /\ both[k].dir \in DOMAIN lists
             /\ \A l \in 1..(k - 1) : both[k].dir[l] = path[l]
             /\ \A q \in AheadIn(both[k], lists[both[k].dir]) : path[k] < q
  <2>1. CASE k = n + 1
    <3>1. both[k] = level /\ path[k] = p
      BY <1>1, <1>4, <2>1
    <3>2. \A l \in 1..(k - 1) : level.dir[l] = path[l]
      BY <1>1, <1>4, <2>1
    <3>3. QED
      BY <3>1, <3>2
  <2>2. CASE k # n + 1
    <3>1. k \in 1..n
      BY <1>1, <2>2
    <3>2. both[k] = levels[k] /\ path[k] = level.dir[k]
      BY <1>1, <1>4, <3>1
    <3>3. /\ LevelInv(levels[k], lists, out, bad) /\ levels[k].dir \in DOMAIN lists
          /\ \A l \in 1..(k - 1) : levels[k].dir[l] = level.dir[l]
          /\ \A q \in AheadIn(levels[k], lists[levels[k].dir]) : level.dir[k] < q
      BY <1>1, <3>1 DEF OuterInv
    <3>4. \A l \in 1..(k - 1) : l \in 1..n
      BY <1>1, <3>1
    <3>5. \A l \in 1..(k - 1) : both[k].dir[l] = path[l]
      BY <1>4, <3>2, <3>3, <3>4
    <3>6. QED
      BY <3>2, <3>3, <3>5
  <2>3. QED
    BY <2>1, <2>2
<1>6. OuterInv(both, lists, out, bad, path)
  BY <1>2, <1>5 DEF OuterInv
<1>7. AheadOf(both, lists) = AheadOf(levels, lists) \union AheadAt(level, lists[level.dir], {})
  BY AheadOfAppend DEF both
<1>8. QED
  BY <1>6, <1>7 DEF both, path

\* The walk leaves the directory at path.
LEMMA OuterLeaves ==
    ASSUME NEW levels \in Seq(LevelType), NEW level \in LevelType, NEW lists,
           NEW out, NEW bad, NEW path, Len(level.dir) = Len(levels),
           OuterInv(Append(levels, level), lists, out, bad, path)
    PROVE  OuterInv(levels, lists, out, bad, level.dir) /\ LevelInv(level, lists, out, bad)
<1> DEFINE both == Append(levels, level)
           n == Len(levels)
<1>1. /\ n \in Nat /\ DOMAIN levels = 1..n
      /\ \A k \in 1..n : both[k] = levels[k]
      /\ both[n + 1] = level
  BY AppendProperties, LenProperties
<1>2. DOMAIN both = 1..(n + 1)
  BY AppendProperties, LenProperties
<1> HIDE DEF n
<1>3. \A k \in 1..(n + 1) :
          /\ LevelInv(both[k], lists, out, bad) /\ both[k].dir \in DOMAIN lists
          /\ \A l \in 1..(k - 1) : both[k].dir[l] = path[l]
          /\ \A q \in AheadIn(both[k], lists[both[k].dir]) : path[k] < q
  BY <1>2 DEF OuterInv
<1> HIDE DEF both
<1>4. n + 1 \in 1..(n + 1) /\ (n + 1) - 1 = n
  BY <1>1
<1>5. LevelInv(level, lists, out, bad) /\ \A l \in 1..n : level.dir[l] = path[l]
  BY <1>1, <1>3, <1>4
<1>6. ASSUME NEW k \in 1..n
      PROVE  /\ LevelInv(levels[k], lists, out, bad) /\ levels[k].dir \in DOMAIN lists
             /\ \A l \in 1..(k - 1) : levels[k].dir[l] = level.dir[l]
             /\ \A q \in AheadIn(levels[k], lists[levels[k].dir]) : level.dir[k] < q
  <2>1. k \in 1..(n + 1) /\ both[k] = levels[k] /\ level.dir[k] = path[k]
    BY <1>1, <1>5
  <2>2. \A l \in 1..(k - 1) : l \in 1..n
    BY <1>1
  <2>3. QED
    BY <1>3, <1>5, <2>1, <2>2
<1>7. QED
  BY <1>1, <1>5, <1>6 DEF OuterInv

-----------------------------------------------------------------------------
(* The scan and the levels of the walk.                                    *)

LEMMA OtherEntries ==
    \A d, e \in Seq(Nat) : d # e => \A p, q \in Nat : Append(d, p) # Append(e, q)
  BY SamePath

\* What the actions start from.
LEMMA ReadFacts ==
    BaseInv /\ ReadInv /\ Active
        => /\ Outer \in Seq(LevelType) /\ Inner \in LevelType
           /\ Cur \in Seq(Nat) /\ Cur = Inner.dir /\ Len(Cur) = Len(Outer)
           /\ \A k \in DOMAIN Outer : Len(Outer[k].dir) = k - 1
           /\ ListsType(listings) /\ rows \in Seq(Seq(Nat))
           /\ Inner.rest # <<>> => Cur \in DOMAIN listings
           /\ WindowInv /\ UnlistedInv
           /\ OuterInv(Outer, listings, refusals, failures, Cur)
           /\ LevelInv(Inner, listings, refusals, failures)
           /\ HistoryInv(on_error, rows, Ahead, listings, refusals, failures, Lost)
<1> SUFFICES ASSUME BaseInv, ReadInv, Active
             PROVE  /\ Outer \in Seq(LevelType) /\ Inner \in LevelType
                    /\ Cur \in Seq(Nat) /\ Cur = Inner.dir /\ Len(Cur) = Len(Outer)
                    /\ \A k \in DOMAIN Outer : Len(Outer[k].dir) = k - 1
                    /\ ListsType(listings) /\ rows \in Seq(Seq(Nat))
                    /\ Inner.rest # <<>> => Cur \in DOMAIN listings
                    /\ WindowInv /\ UnlistedInv
                    /\ OuterInv(Outer, listings, refusals, failures, Cur)
                    /\ LevelInv(Inner, listings, refusals, failures)
                    /\ HistoryInv(on_error, rows, Ahead, listings, refusals, failures, Lost)
  OBVIOUS
<1>1. TypeOK /\ PhaseInv
  BY DEF BaseInv
<1>2. Outer \in Seq(LevelType) /\ Inner \in LevelType
  BY <1>1, LevelsFacts
<1>3. AllJobs(Outer, listings) /\ LevelJobs(Inner, listings) /\ Len(Inner.dir) = Len(Outer)
  BY BaseFacts
<1>4. Cur \in Seq(Nat) /\ Cur = Inner.dir
  BY <1>2 DEF Cur, LevelType
<1>5. \A k \in DOMAIN Outer : Len(Outer[k].dir) = k - 1
  BY <1>3 DEF AllJobs
<1>6. ListsType(listings) /\ rows \in Seq(Seq(Nat))
  BY <1>1 DEF TypeOK, ListsType
<1>7. Inner.rest # <<>> => Cur \in DOMAIN listings
  BY <1>3, <1>4 DEF LevelJobs
<1>8. QED
  BY <1>2, <1>3, <1>4, <1>5, <1>6, <1>7 DEF ReadInv

\* What the actions leave when they only go from one phase to the next.
LEMMA ReadSame ==
    ASSUME BaseInv, ReadInv, Active, Active', SameLevels(Outer, Outer'),
           Inner'.dir = Inner.dir, Inner'.items = Inner.items, Inner'.rest = Inner.rest,
           Unread' = Unread, UNCHANGED <<on_error, listings, rows, refusals, failures>>,
           on_error = "Fail" => Lost' = Lost, WindowInv', UnlistedInv'
    PROVE  ReadInv'
<1>1. /\ Outer \in Seq(LevelType) /\ Inner \in LevelType /\ Cur = Inner.dir
      /\ ListsType(listings)
      /\ Inner.rest # <<>> => Cur \in DOMAIN listings
      /\ OuterInv(Outer, listings, refusals, failures, Cur)
      /\ LevelInv(Inner, listings, refusals, failures)
      /\ HistoryInv(on_error, rows, Ahead, listings, refusals, failures, Lost)
  BY ReadFacts
<1>2. Cur' = Cur
  BY DEF Cur
<1>3. /\ SameListings(Outer, listings, listings)
      /\ SameEntries(Outer, refusals, refusals) /\ SameEntries(Outer, failures, failures)
  BY <1>1 DEF OuterInv, SameListings, SameEntries
<1>4. /\ OuterInv(Outer', listings, refusals, failures, Cur)
      /\ AheadOf(Outer', listings) = AheadOf(Outer, listings)
  BY <1>1, <1>3, OuterKept
<1>5. LevelInv(Inner', listings, refusals, failures)
  BY <1>1, LevelKept DEF ListsType
<1>6. AheadAt(Inner', listings[Cur], Unread) = AheadAt(Inner, listings[Cur], Unread)
  BY DEF AheadAt, AheadIn, Later
<1>7. Ahead' = Ahead
  BY <1>2, <1>4, <1>6 DEF Ahead
<1>8. HistoryInv(on_error, rows, Ahead, listings, refusals, failures, Lost')
  BY <1>1 DEF HistoryInv, FailInv
<1>9. QED
  BY <1>2, <1>4, <1>5, <1>7, <1>8 DEF ReadInv

\* The first scan of a directory before it is listed.
LEMMA UnlistedFacts ==
    ASSUME BaseInv, ReadInv, pc \in {"fill", "list"}, First
    PROVE  /\ Active /\ Scanning /\ Unlisted /\ Outer = stack /\ Cur = scan.path
           /\ Inner.dir = scan.path /\ Inner.items = <<>> /\ Inner.rest = <<>>
           /\ ~scan.unreadable /\ Lost = {} /\ Unread = {}
           /\ scan.path \in Seq(Nat) /\ scan.path \notin DOMAIN listings
           /\ scan.path = <<>> \/ scan.path \in ToSet(rows)
           /\ \A r \in ToSet(rows) : Before(r, Append(scan.path, 0))
           /\ Ahead = AheadOf(Outer, listings)
<1>1. TypeOK /\ PhaseInv
  BY DEF BaseInv
<1>2. Active /\ Scanning /\ Unlisted /\ Outer = stack
  BY DEF Active, Scanning, Unlisted, Outer
<1>3. /\ Inner.dir = scan.path /\ Inner.items = <<>> /\ Inner.rest = <<>> /\ ~scan.unreadable
  BY <1>1, <1>2, InnerScan DEF PhaseInv
<1>4. Lost = {} /\ Unread = {} /\ Cur = scan.path
  BY <1>3 DEF Lost, Unread, Cur
<1>5. /\ scan.path \in Seq(Nat) /\ scan.path \notin DOMAIN listings
      /\ scan.path = <<>> \/ scan.path \in ToSet(rows)
      /\ \A r \in ToSet(rows) : Before(r, Append(scan.path, 0))
  BY <1>1, <1>2, ReadFacts, ScanTypes DEF UnlistedInv
<1>6. AheadAt(Inner, listings[Cur], Unread) = {}
  BY <1>3, <1>4 DEF AheadAt, AheadIn, Later
<1>7. Ahead = AheadOf(Outer, listings)
  BY <1>6 DEF Ahead
<1>8. QED
  BY <1>2, <1>3, <1>4, <1>5, <1>7

-----------------------------------------------------------------------------
(* Filling a scan.                                                         *)

\* The scan cannot read its directory; the jobs may have been closed.
LEMMA UnreadableRead ==
    ASSUME BaseInv, ReadInv, pc = "fill", First, Unreadable,
           SameLevels(stack, stack'),
           UNCHANGED <<on_error, listings, rows, refusals>>
    PROVE  ReadInv'
<1>1. TypeOK /\ PhaseInv
  BY DEF BaseInv
<1>2. /\ Active /\ Scanning /\ Outer = stack /\ Cur = scan.path
      /\ Inner.dir = scan.path /\ Inner.items = <<>> /\ Inner.rest = <<>>
      /\ Lost = {} /\ Unread = {}
      /\ scan.path \in Seq(Nat) /\ scan.path \notin DOMAIN listings
      /\ scan.path = <<>> \/ scan.path \in ToSet(rows)
      /\ \A r \in ToSet(rows) : Before(r, Append(scan.path, 0))
  BY UnlistedFacts
<1>3. /\ Outer \in Seq(LevelType) /\ Inner \in LevelType /\ Len(scan.path) = Len(stack)
      /\ \A k \in DOMAIN stack : Len(stack[k].dir) = k - 1
      /\ ListsType(listings) /\ rows \in Seq(Seq(Nat))
      /\ OuterInv(stack, listings, refusals, failures, scan.path)
      /\ HistoryInv(on_error, rows, Ahead, listings, refusals, failures, {})
  BY <1>2, ReadFacts
<1>4. /\ scan' = [scan EXCEPT !.unreadable = TRUE] /\ pc' = "report"
      /\ failures' = failures \union {Append(scan.path, 0)}
  BY DEF Unreadable
<1>5. /\ scan'.path = scan.path /\ scan'.job = scan.job /\ scan'.items = scan.items
      /\ scan'.directories = scan.directories /\ scan'.rest = scan.rest /\ scan'.unreadable
  BY <1>1, <1>4 DEF TypeOK, ScanType
<1>6. Active' /\ Scanning' /\ First' /\ Unlisted' /\ Unread' = {}
  BY <1>4, <1>5 DEF Active, Scanning, First, Unlisted, Unread
<1>7. Outer' = stack' /\ Inner' = Inner /\ Cur' = scan.path
  BY <1>2, <1>5, <1>6 DEF Outer, Inner, Cur
<1>8. Lost' = {Append(scan.path, 0)}
  BY <1>5 DEF Lost
<1>9. ASSUME NEW k \in DOMAIN stack
      PROVE  /\ stack[k].dir \in DOMAIN listings
             /\ \A p \in Nat : Append(stack[k].dir, p) \in failures'
                                  <=> Append(stack[k].dir, p) \in failures
  <2>1. stack[k].dir \in DOMAIN listings /\ stack[k].dir \in Seq(Nat)
    BY <1>3, <1>9 DEF OuterInv, ListsType
  <2>2. stack[k].dir # scan.path
    BY <1>2, <2>1
  <2>3. \A p \in Nat : Append(stack[k].dir, p) # Append(scan.path, 0)
    BY <1>2, <2>1, <2>2, OtherEntries
  <2>4. QED
    BY <1>4, <2>1, <2>3
<1>10. /\ OuterInv(stack', listings, refusals, failures', scan.path)
       /\ AheadOf(stack', listings) = AheadOf(stack, listings)
  <2>1. /\ stack \in Seq(LevelType) /\ ListsType(listings)
        /\ OuterInv(stack, listings, refusals, failures, scan.path)
    BY <1>2, <1>3
  <2>2. /\ SameListings(stack, listings, listings)
        /\ SameEntries(stack, refusals, refusals) /\ SameEntries(stack, failures, failures')
    BY <1>9 DEF SameListings, SameEntries
  <2>3. QED
    BY <2>1, <2>2, OuterKept
<1>11. LevelInv(Inner', listings, refusals, failures')
  BY <1>2, <1>7, EmptySeq DEF LevelInv, RestInv, Later
<1>12. Ahead' = Ahead
  BY <1>2, <1>6, <1>7, <1>10 DEF Ahead
<1>13. HistoryInv(on_error, rows, Ahead, listings, refusals, failures', Lost')
  BY <1>2, <1>3, <1>4, <1>8, HistoryFails
<1>14. WindowInv'
  BY <1>4, <1>5, <1>6 DEF WindowInv
<1>15. UnlistedInv'
  BY <1>2, <1>5 DEF UnlistedInv
<1>16. QED
  BY <1>7, <1>10, <1>11, <1>12, <1>13, <1>14, <1>15 DEF ReadInv

LEMMA FillRefusedRead == BaseInv /\ ReadInv /\ FillRefused => ReadInv'
<1> SUFFICES ASSUME BaseInv, ReadInv, FillRefused
             PROVE  ReadInv'
  OBVIOUS
<1>1. pc = "fill" /\ First /\ SameLevels(stack, stack')
  BY DEF FillRefused, BaseInv, PhaseInv, SameLevels
<1>2. QED
  BY <1>1, UnreadableRead DEF FillRefused

LEMMA FillOpenedRead == BaseInv /\ ReadInv /\ FillOpened => ReadInv'
<1> SUFFICES ASSUME BaseInv, ReadInv, FillOpened
             PROVE  ReadInv'
  OBVIOUS
<1>1. TypeOK /\ PhaseInv
  BY DEF BaseInv
<1>2. /\ pc = "fill" /\ pc' = "list" /\ First
      /\ scan' = [scan EXCEPT !.job.opened = FALSE]
      /\ UNCHANGED <<on_error, stack, listings, rows, refusals, failures>>
  BY <1>1 DEF FillOpened, history, PhaseInv
<1>3. /\ scan'.path = scan.path /\ scan'.items = scan.items
      /\ scan'.directories = scan.directories /\ scan'.rest = scan.rest
      /\ scan'.unreadable = scan.unreadable /\ scan'.job.start = scan.job.start
  BY <1>1, <1>2 DEF TypeOK, ScanType, JobType
<1>4. /\ Active /\ Unread = {} /\ Lost = {} /\ ~scan.unreadable /\ UnlistedInv /\ Unlisted
  BY <1>2, UnlistedFacts, ReadFacts
<1>5. Active' /\ Scanning' /\ First' /\ Unread' = {} /\ Lost' = {}
  BY <1>2, <1>3, <1>4 DEF Active, Scanning, First, Unread, Lost
<1>6. SameLevels(Outer, Outer') /\ Inner' = Inner
  BY <1>2, <1>3, <1>5 DEF Outer, Inner, Scanning, SameLevels
<1>7. WindowInv'
  BY <1>2, <1>3, <1>4, <1>5 DEF WindowInv
<1>8. UnlistedInv'
  BY <1>2, <1>3, <1>4 DEF UnlistedInv
<1>9. QED
  BY <1>2, <1>4, <1>5, <1>6, <1>7, <1>8, ReadSame

LEMMA FillRestRead == BaseInv /\ ReadInv /\ FillRest => ReadInv'
<1> SUFFICES ASSUME BaseInv, ReadInv, FillRest
             PROVE  ReadInv'
  OBVIOUS
<1>1. TypeOK /\ PhaseInv
  BY DEF BaseInv
<1>2. /\ pc = "fill" /\ pc' = "entries" /\ ~First /\ Scanning
      /\ scan' = [scan EXCEPT !.end = WindowEnd(Listing, scan.job.start)]
      /\ UNCHANGED <<on_error, stack, listings, rows, refusals, failures>>
  BY DEF FillRest, history, First, Scanning
<1>3. /\ scan'.path = scan.path /\ scan'.items = scan.items
      /\ scan'.directories = scan.directories /\ scan'.rest = scan.rest
      /\ scan'.unreadable = scan.unreadable /\ scan'.job = scan.job
      /\ scan'.place = scan.place /\ scan'.end = WindowEnd(Listing, scan.job.start)
  BY <1>1, <1>2 DEF TypeOK, ScanType
<1>4. /\ scan.job.of = scan.path /\ scan.path \in DOMAIN listings
      /\ scan.job.start \in 1..Len(listings[scan.path]) /\ ~scan.unreadable
      /\ scan.place = scan.job.start /\ scan.items = <<>>
  BY <1>1, <1>2 DEF PhaseInv
<1>5. Active /\ WindowInv
  BY <1>2, ReadFacts DEF Active
<1>6. Active' /\ Scanning' /\ ~First' /\ Lost' = Lost /\ ~Unlisted'
  BY <1>2, <1>3 DEF Active, Scanning, First, Lost, Unlisted
<1>7. SameLevels(Outer, Outer') /\ Inner' = Inner
  BY <1>2, <1>3, <1>6 DEF Outer, Inner, Scanning, Top, SameLevels
<1>8. Listing' = Listing /\ Listing = listings[scan.path]
  BY <1>2, <1>3, <1>4 DEF Listing
<1>9. Unread' = Unread
  BY <1>2, <1>3, <1>4, <1>6 DEF Unread
<1>10. scan'.place <= scan'.end
  <2>1. Listing \in Seq(Kinds)
    BY <1>1, <1>4, <1>8 DEF TypeOK
  <2>2. scan.job.start \in 0..Len(Listing)
    BY <1>4, <1>8, <2>1, LenProperties
  <2>3. WindowEnd(Listing, scan.job.start) \in scan.job.start..Len(Listing)
    BY <2>1, <2>2, WindowEndFacts
  <2>4. QED
    BY <1>3, <1>4, <2>1, <2>3, LenProperties
<1>11. scan'.end = ReadTo(Inner', Listing')
  BY <1>2, <1>3, <1>4, <1>5, <1>7, <1>8 DEF WindowInv
<1>12. WindowInv'
  <2>1. \A p \in Unread' : Append(scan'.path, p) \notin refusals' \union failures'
    BY <1>2, <1>3, <1>5, <1>9 DEF WindowInv
  <2>2. ~scan'.unreadable /\ scan'.path \in DOMAIN listings' /\ pc' = "entries" /\ scan'.items = <<>>
    BY <1>2, <1>3, <1>4
  <2>3. QED
    BY <1>10, <1>11, <2>1, <2>2, EmptySeq DEF WindowInv
<1>13. UnlistedInv'
  BY <1>6 DEF UnlistedInv
<1>14. QED
  BY <1>2, <1>5, <1>6, <1>7, <1>9, <1>12, <1>13, ReadSame

LEMMA OpenRead == BaseInv /\ ReadInv /\ Open => ReadInv'
<1> SUFFICES ASSUME BaseInv, ReadInv, Open
             PROVE  ReadInv'
  OBVIOUS
<1>1. /\ pc = "fill" /\ First /\ SameLevels(stack, stack')
      /\ UNCHANGED <<on_error, stack, listings, rows, refusals>>
  BY DEF Open, Opens, First, SameLevels
<1>2. CASE Unreadable
  BY <1>1, <1>2, UnreadableRead
<1>3. CASE pc' = "list" /\ UNCHANGED <<scan, failures>>
  <2>1. Active /\ Unread = {} /\ Lost = {} /\ ~scan.unreadable /\ UnlistedInv /\ Unlisted
    BY <1>1, UnlistedFacts, ReadFacts
  <2>2. Active' /\ Scanning' /\ First' /\ Unread' = {} /\ Lost' = {}
    BY <1>1, <1>3, <2>1 DEF Active, Scanning, First, Unread, Lost
  <2>3. SameLevels(Outer, Outer') /\ Inner' = Inner
    BY <1>1, <1>3, <2>2 DEF Outer, Inner, Scanning, SameLevels
  <2>4. WindowInv'
    BY <1>3, <2>1, <2>2 DEF WindowInv
  <2>5. UnlistedInv'
    BY <1>1, <1>3, <2>1 DEF UnlistedInv
  <2>6. QED
    BY <1>1, <1>3, <2>1, <2>2, <2>3, <2>4, <2>5, ReadSame
<1>4. QED
  BY <1>2, <1>3 DEF Open

LEMMA OpenStarvedRead == BaseInv /\ ReadInv /\ OpenStarved => ReadInv'
<1> SUFFICES ASSUME BaseInv, ReadInv, OpenStarved
             PROVE  ReadInv'
  OBVIOUS
<1>1. /\ pc = "fill" /\ First /\ stack' = Released(stack)
      /\ UNCHANGED <<on_error, listings, rows, refusals>>
      /\ UNCHANGED <<pc, scan, failures>> \/ Unreadable
  BY DEF OpenStarved, Opens, First
<1>2. stack \in Seq(LevelType)
  BY DEF BaseInv, TypeOK
<1>3. SameLevels(stack, stack')
  BY <1>1, <1>2, ReleasedFacts, LenProperties DEF SameLevels
<1>4. CASE Unreadable
  BY <1>1, <1>3, <1>4, UnreadableRead
<1>5. CASE UNCHANGED <<pc, scan, failures>>
  <2>1. /\ Active /\ Unread = {} /\ Lost = {} /\ ~scan.unreadable /\ UnlistedInv /\ Unlisted
        /\ Outer = stack
    BY <1>1, UnlistedFacts, ReadFacts
  <2>2. Active' /\ Scanning' /\ First' /\ Unread' = {} /\ Lost' = {}
    BY <1>1, <1>5, <2>1 DEF Active, Scanning, First, Unread, Lost
  <2>3. Outer' = stack' /\ SameLevels(Outer, Outer') /\ Inner' = Inner
    BY <1>1, <1>3, <1>5, <2>1, <2>2 DEF Outer, Inner, Scanning
  <2>4. WindowInv'
    BY <1>1, <1>5, <2>1, <2>2 DEF WindowInv
  <2>5. UnlistedInv'
    BY <1>1, <1>5, <2>1 DEF UnlistedInv
  <2>6. QED
    BY <1>1, <1>3, <1>5, <2>1, <2>2, <2>3, <2>4, <2>5, ReadSame
<1>6. QED
  BY <1>1, <1>4, <1>5

LEMMA OneItem ==
    ASSUME NEW item, NEW items, items = <<item>>
    PROVE  DOMAIN items = {1} /\ items[1] = item /\ items # <<>>
  OBVIOUS

LEMMA ListRead == BaseInv /\ ReadInv /\ List => ReadInv'
<1> SUFFICES ASSUME BaseInv, ReadInv, List
             PROVE  ReadInv'
  OBVIOUS
<1>1. TypeOK /\ PhaseInv
  BY DEF BaseInv
<1> DEFINE x == Append(scan.path, 0)
<1>2. PICK listing \in Seq(Kinds) :
              /\ pc = "list" /\ Scanning /\ First /\ ~scan.job.opened
              /\ scan.directories = <<>> /\ scan.items = <<>> /\ ~scan.unreadable
              /\ DOMAIN listings' = {scan.path} \union DOMAIN listings
              /\ listings'[scan.path] = listing
              /\ \A dir \in DOMAIN listings : dir # scan.path => listings'[dir] = listings[dir]
              /\ scan' \in ScanType
              /\ scan'.path = scan.path /\ scan'.job = scan.job /\ scan'.place = scan.place
              /\ scan'.directories = <<>> /\ ~scan'.unreadable
              /\ scan.place = 0
              /\ UNCHANGED <<on_error, stack, held, limit, rows, calls, refusals, failed>>
              /\ \/ /\ pc' = "entries" /\ scan'.items = <<>> /\ failures' = failures
                    /\ scan'.end = WindowEnd(listing, 0) /\ scan'.rest = RestOf(scan.path, listing)
                 \/ /\ pc' = "entries" /\ scan'.items = <<Item("failed", 0)>> /\ on_error # "Fail"
                    /\ failures' = failures \union {x}
                    /\ scan'.end = WindowEnd(listing, 0) /\ scan'.rest = RestOf(scan.path, listing)
                 \/ /\ pc' = "report" /\ scan'.items = <<Item("failed", 0)>> /\ on_error = "Fail"
                    /\ failures' = failures \union {x}
                    /\ scan'.rest = <<>>
  BY <1>1, ListFacts
<1>3. /\ Active /\ Outer = stack /\ Cur = scan.path
      /\ scan.path \in Seq(Nat) /\ scan.path \notin DOMAIN listings
      /\ scan.path = <<>> \/ scan.path \in ToSet(rows)
      /\ \A r \in ToSet(rows) : Before(r, x)
      /\ Ahead = AheadOf(stack, listings) /\ Lost = {}
  BY <1>2, UnlistedFacts
<1>4. /\ stack \in Seq(LevelType)
      /\ \A k \in DOMAIN stack : Len(stack[k].dir) = k - 1
      /\ ListsType(listings) /\ rows \in Seq(Seq(Nat))
      /\ OuterInv(stack, listings, refusals, failures, scan.path)
      /\ HistoryInv(on_error, rows, Ahead, listings, refusals, failures, {})
  BY <1>3, ReadFacts
<1>5. /\ failures \subseteq failures' /\ failures' \subseteq failures \union {x}
      /\ pc' \in {"entries", "report"}
      /\ scan'.items \in {<<>>, <<Item("failed", 0)>>}
      /\ scan'.items # <<>> => x \in failures'
      /\ failures' # failures => scan'.items = <<Item("failed", 0)>>
  BY <1>2
<1>6. /\ Active' /\ Scanning' /\ First' /\ ~Unlisted' /\ Lost' = {}
      /\ Unread' = IF pc' = "entries" THEN 1..scan'.end ELSE {}
  BY <1>2, <1>5 DEF Active, Scanning, First, Unlisted, Lost, Unread
<1>7. /\ Outer' = stack /\ Inner'.dir = scan.path /\ Inner'.items = scan'.items
      /\ Inner'.rest = scan'.rest /\ Cur' = scan.path /\ Inner' \in LevelType
  <2>1. /\ Inner' = [dir |-> scan'.path, items |-> scan'.items, subdirs |-> scan'.directories,
                     rest |-> scan'.rest]
        /\ Outer' = stack'
    BY <1>6 DEF Inner, Outer
  <2>2. Inner' \in LevelType
    BY <1>2, <2>1 DEF ScanType, LevelType
  <2>3. QED
    BY <1>2, <2>1, <2>2 DEF Cur
<1>8. ListsType(listings') /\ \A e \in DOMAIN listings : listings'[e] = listings[e]
  BY <1>2, <1>3, <1>4 DEF ListsType
<1>9. ASSUME NEW k \in DOMAIN stack
      PROVE  /\ stack[k].dir \in DOMAIN listings'
             /\ listings'[stack[k].dir] = listings[stack[k].dir]
             /\ \A p \in Nat : Append(stack[k].dir, p) \in failures'
                                  <=> Append(stack[k].dir, p) \in failures
  <2>1. stack[k].dir \in DOMAIN listings /\ stack[k].dir \in Seq(Nat)
    BY <1>4, <1>9 DEF OuterInv, ListsType
  <2>2. stack[k].dir # scan.path
    BY <1>3, <2>1
  <2>3. \A p \in Nat : Append(stack[k].dir, p) # x
    BY <1>3, <2>1, <2>2, OtherEntries
  <2>4. QED
    BY <1>2, <1>5, <1>8, <2>1, <2>3
<1>10. /\ OuterInv(stack, listings', refusals, failures', scan.path)
       /\ AheadOf(stack, listings') = AheadOf(stack, listings)
  <2>1. /\ SameLevels(stack, stack) /\ SameListings(stack, listings, listings')
        /\ SameEntries(stack, refusals, refusals) /\ SameEntries(stack, failures, failures')
    BY <1>9 DEF SameLevels, SameListings, SameEntries
  <2>2. /\ stack \in Seq(LevelType) /\ ListsType(listings)
        /\ OuterInv(stack, listings, refusals, failures, scan.path)
    BY <1>4
  <2>3. QED
    BY <2>1, <2>2, OuterKept
\* Nothing of the directory has been refused or has failed yet.
<1>11. \A p \in Nat \ {0} : Append(scan.path, p) \notin refusals \union failures'
  <2> SUFFICES ASSUME NEW p \in Nat \ {0}
               PROVE  Append(scan.path, p) \notin refusals \union failures'
    OBVIOUS
  <2>1. Append(scan.path, p) \notin EntriesOf(listings)
    BY <1>3, <1>4, GoesFacts
  <2>2. Last(Append(scan.path, p)) = p /\ Last(x) = 0
    BY <1>3, PathFacts
  <2>3. Append(scan.path, p) \notin refusals \union failures
    BY <1>4, <2>1, <2>2 DEF HistoryInv, ListsInv
  <2>4. QED
    BY <1>5, <2>2, <2>3
<1> HIDE DEF x
<1> DEFINE first == WindowEnd(listing, 0)
<1>12. /\ scan'.rest \in Seq(JobType) /\ first \in 0..Len(listing) /\ Len(listing) \in Nat
       /\ RestInv(scan'.rest, listing)
       /\ pc' = "entries" =>
             /\ scan'.end = first
             /\ scan'.rest = <<>> => first = Len(listing)
             /\ scan'.rest # <<>> => scan'.rest[1].start = first
  <2>1. Len(listing) \in Nat /\ scan'.rest \in Seq(JobType)
    BY <1>2, LenProperties DEF ScanType
  <2>2. CASE scan'.rest = <<>> /\ pc' = "report"
    <3>1. first \in 0..Len(listing)
      BY <1>3, RestOfFacts
    <3>2. RestInv(scan'.rest, listing)
      BY <2>2, EmptySeq DEF RestInv
    <3>3. QED
      BY <2>1, <2>2, <3>1, <3>2
  <2>3. CASE scan'.rest = RestOf(scan.path, listing) /\ scan'.end = first
    <3> DEFINE rest == scan'.rest
    <3>1. /\ rest \in Seq(JobType)
          /\ rest = <<>> => first = Len(listing)
          /\ rest # <<>> => rest[1].start = first
          /\ \A n \in 1..Len(rest) :
                /\ rest[n].start \in 1..(Len(listing) - 1)
                /\ WindowEnd(listing, rest[n].start)
                       = IF n < Len(rest) THEN rest[n + 1].start ELSE Len(listing)
          /\ first \in 0..Len(listing)
      BY <1>3, <2>3, RestOfFacts
    <3>2. DOMAIN rest = 1..Len(rest)
      BY <3>1, LenProperties
    <3>3. RestInv(rest, listing)
      BY <3>1, <3>2 DEF RestInv
    <3>4. QED
      BY <2>1, <2>3, <3>1, <3>3
  <2>4. QED
    BY <1>2, <2>2, <2>3
<1>13. /\ ReadTo(Inner', listing) = IF scan'.rest = <<>> THEN Len(listing) ELSE scan'.rest[1].start
       /\ Later(Inner', listing)
              = IF scan'.rest = <<>> THEN {} ELSE (scan'.rest[1].start + 1)..Len(listing)
       /\ Later(Inner', listing) \subseteq Nat \ {0}
       /\ AheadIn(Inner', listing) \subseteq Nat
  BY <1>7, AheadInNat DEF ReadTo, Later
<1> HIDE DEF first
<1>14. ReadTo(Inner', listing) >= 0
  <2>1. CASE scan'.rest = <<>>
    BY <1>12, <1>13, <2>1
  <2>2. CASE scan'.rest # <<>>
    <3>1. scan'.rest[1] \in JobType
      BY <1>12, <2>2, ElementOfSeq, EmptySeq, LenProperties
    <3>2. QED
      BY <1>13, <2>2, <3>1 DEF JobType
  <2>3. QED
    BY <2>1, <2>2
<1>15. LevelInv(Inner', listings', refusals, failures')
  <2>1. RestInv(Inner'.rest, listing)
    BY <1>7, <1>12
  <2>2. \A p \in Later(Inner', listing) : Append(scan.path, p) \notin refusals \union failures'
    BY <1>11, <1>13
  <2>3. ASSUME NEW m \in DOMAIN Inner'.items
        PROVE  /\ ItemInv(scan.path, Inner'.items[m], listing, refusals, failures')
               /\ Inner'.items[m].place <= ReadTo(Inner', listing)
               /\ \A n \in 1..(m - 1) : Inner'.items[n].place < Inner'.items[m].place
    <3>1. Inner'.items = <<Item("failed", 0)>>
      BY <1>5, <1>7, <2>3, EmptySeq
    <3>2. m = 1 /\ Inner'.items[m] = Item("failed", 0) /\ x \in failures'
      BY <1>5, <1>7, <2>3, <3>1, OneItem
    <3>3. ItemInv(scan.path, Inner'.items[m], listing, refusals, failures')
      BY <3>2 DEF ItemInv, Item, x
    <3>4. Inner'.items[m].place <= ReadTo(Inner', listing)
      BY <1>14, <3>2 DEF Item
    <3>5. 1..(m - 1) = {}
      BY <3>2
    <3>6. QED
      BY <3>3, <3>4, <3>5
  <2>4. scan.path \in DOMAIN listings' /\ listings'[scan.path] = listing
    BY <1>2
  <2>5. QED
    BY <1>7, <2>1, <2>2, <2>3, <2>4 DEF LevelInv
<1>16. Unread' \subseteq Nat \ {0}
  BY <1>6, <1>12
<1>17. Ahead' = AheadOf(stack, listings) \union AheadAt(Inner', listing, Unread')
  BY <1>2, <1>7, <1>10 DEF Ahead
<1>18. \A p : p \in AheadIn(Inner', listing) \union Unread' => Append(scan.path, p) \in Ahead'
  BY <1>7, <1>17 DEF AheadAt
<1>19. \A a \in Ahead' : a \in Ahead \/ \E p \in Nat : a = Append(scan.path, p)
  BY <1>3, <1>7, <1>13, <1>16, <1>17 DEF AheadAt
<1>20. scan'.items # <<>> => x \in Ahead'
  <2>1. ASSUME scan'.items # <<>>
        PROVE  0 \in AheadIn(Inner', listing)
    <3>1. Inner'.items = <<Item("failed", 0)>>
      BY <1>5, <1>7, <2>1
    <3>2. 1 \in DOMAIN Inner'.items /\ Inner'.items[1].place = 0
      BY <3>1, OneItem DEF Item
    <3>3. QED
      BY <3>2 DEF AheadIn
  <2>2. QED
    BY <1>18, <2>1 DEF x
<1>21. pc' = "entries" => \A p \in DOMAIN listing : Append(scan.path, p) \in Ahead'
  <2> SUFFICES ASSUME pc' = "entries", NEW p \in DOMAIN listing
               PROVE  p \in AheadIn(Inner', listing) \union Unread'
    BY <1>18
  <2>1. p \in 1..Len(listing)
    BY LenProperties
  <2>2. CASE p <= first
    BY <1>6, <1>12, <2>1, <2>2
  <2>3. CASE p > first
    <3>1. scan'.rest # <<>> /\ scan'.rest[1].start = first
      BY <1>12, <2>1, <2>3
    <3>2. p \in Later(Inner', listing)
      BY <1>12, <1>13, <2>1, <2>3, <3>1
    <3>3. QED
      BY <3>2 DEF AheadIn
  <2>4. QED
    BY <1>12, <2>1, <2>2, <2>3
<1>22. HistoryInv(on_error, rows, Ahead', listings', refusals, failures', {})
  <2>1. AheadGrows(scan.path, Ahead, Ahead')
    BY <1>3, <1>17, <1>19 DEF AheadGrows
  <2>2. on_error = "Fail" => failures' \subseteq failures \union Ahead'
    <3>1. failures' # failures => scan'.items # <<>>
      BY <1>5, OneItem
    <3>2. QED
      BY <1>5, <1>20, <3>1
  <2>3. \/ \A p \in DOMAIN listings'[scan.path] : Append(scan.path, p) \in Ahead'
        \/ on_error = "Fail" /\ Append(scan.path, 0) \in failures'
    BY <1>2, <1>21 DEF x
  <2>4. ListedNow(scan.path, rows, listings, listings')
    BY <1>2, <1>3, <1>4, <1>8 DEF ListedNow, x
  <2>5. failures \subseteq failures' /\ failures' \subseteq failures \union {Append(scan.path, 0)}
    BY <1>5 DEF x
  <2>6. /\ rows \in Seq(Seq(Nat))
        /\ HistoryInv(on_error, rows, Ahead, listings, refusals, failures, {})
    BY <1>4
  <2>7. QED
    BY <2>1, <2>2, <2>3, <2>4, <2>5, <2>6, HistoryLists
<1>23. WindowInv'
  <2>1. \A p \in Unread' : Append(scan'.path, p) \notin refusals' \union failures'
    BY <1>2, <1>11, <1>16
  <2>2. ~scan'.unreadable /\ scan'.path \in DOMAIN listings' /\ pc' # "fill"
    BY <1>2
  <2>3. ASSUME pc' = "entries"
        PROVE  /\ scan'.place <= scan'.end /\ scan'.end = ReadTo(Inner', Listing')
               /\ \A m \in DOMAIN scan'.items : scan'.items[m].place <= scan'.place
    <3>1. Listing' = listing
      BY <1>1, <1>2 DEF Listing, PhaseInv
    <3>2. scan'.end = ReadTo(Inner', listing) /\ scan'.place = 0 /\ 0 <= scan'.end
      BY <1>2, <1>12, <1>13, <2>3
    <3>3. ASSUME NEW m \in DOMAIN scan'.items
          PROVE  scan'.items[m].place = 0
      <4>1. scan'.items = <<Item("failed", 0)>>
        BY <1>5, <3>3, EmptySeq
      <4>2. QED
        BY <3>3, <4>1, OneItem DEF Item
    <3>4. QED
      BY <3>1, <3>2, <3>3
  <2>4. QED
    BY <2>1, <2>2, <2>3 DEF WindowInv
<1>24. UnlistedInv'
  BY <1>6 DEF UnlistedInv
<1>25. QED
  BY <1>2, <1>6, <1>7, <1>10, <1>15, <1>22, <1>23, <1>24 DEF ReadInv

-----------------------------------------------------------------------------
(* Reading the entries of a window.                                        *)

\* One more entry of the level's directory is read.
LEMMA LevelReads ==
    ASSUME NEW level \in LevelType, NEW levelN, levelN.dir = level.dir, levelN.rest = level.rest,
           NEW lists, ListsType(lists), level.dir \in DOMAIN lists,
           NEW out, NEW bad, LevelInv(level, lists, out, bad),
           NEW place \in DOMAIN lists[level.dir], place <= ReadTo(level, lists[level.dir]),
           \A m \in DOMAIN level.items : level.items[m].place < place,
           Append(level.dir, place) \notin out \union bad,
           NEW outN, out \subseteq outN, outN \subseteq out \union {Append(level.dir, place)},
           NEW badN, bad \subseteq badN, badN \subseteq bad \union {Append(level.dir, place)},
           NEW item \in ItemType, item.place = place,
           \/ levelN.items = level.items
           \/ /\ levelN.items = Append(level.items, item)
              /\ \/ item.kind = "failed" /\ Append(level.dir, place) \in badN
                 \/ item.kind = lists[level.dir][place] /\ outN = out /\ badN = bad
    PROVE  LevelInv(levelN, lists, outN, badN)
<1> DEFINE listing == lists[level.dir]
           here == Append(level.dir, place)
<1>1. /\ level.dir \in Seq(Nat) /\ listing \in Seq(Kinds) /\ place \in Nat \ {0}
      /\ level.items \in Seq(ItemType) /\ level.rest \in Seq(JobType) /\ Len(listing) \in Nat
  <2>1. level.dir \in Seq(Nat) /\ listing \in Seq(Kinds)
    BY DEF ListsType
  <2>2. place \in Nat \ {0} /\ Len(listing) \in Nat
    BY <2>1, LenProperties
  <2>3. QED
    BY <2>1, <2>2 DEF LevelType
<1>2. /\ RestInv(level.rest, listing)
      /\ \A m \in DOMAIN level.items :
            /\ ItemInv(level.dir, level.items[m], listing, out, bad)
            /\ level.items[m].place <= ReadTo(level, listing)
            /\ \A n \in 1..(m - 1) : level.items[n].place < level.items[m].place
      /\ \A p \in Later(level, listing) : Append(level.dir, p) \notin out \union bad
  BY DEF LevelInv
<1>0. listing[place] # "failed"
  <2>1. place \in 1..Len(listing)
    BY <1>1, LenProperties
  <2>2. listing[place] \in Kinds
    BY <1>1, <2>1, ElementOfSeq
  <2>3. QED
    BY <2>2 DEF Kinds
<1>3. ReadTo(levelN, listing) = ReadTo(level, listing)
      /\ Later(levelN, listing) = Later(level, listing)
  BY DEF ReadTo, Later
<1>4. \A p \in Nat : p # place => Append(level.dir, p) # here
  BY <1>1, SamePath
<1>5. \A p \in Later(level, listing) : Append(level.dir, p) \notin outN \union badN
  <2> SUFFICES ASSUME NEW p \in Later(level, listing)
               PROVE  Append(level.dir, p) \notin outN \union badN
    OBVIOUS
  <2>1. level.rest # <<>> /\ p \in (level.rest[1].start + 1)..Len(listing)
    BY DEF Later
  <2>2. level.rest[1].start \in Nat
    <3>1. level.rest[1] \in JobType
      BY <1>1, <2>1, ElementOfSeq, EmptySeq, LenProperties
    <3>2. QED
      BY <3>1 DEF JobType
  <2>3. place <= level.rest[1].start
    BY <2>1 DEF ReadTo
  <2>4. p \in Nat /\ p # place
    BY <1>1, <2>1, <2>2, <2>3
  <2>5. QED
    BY <1>2, <1>4, <2>4
<1>6. \A m \in DOMAIN level.items : level.items[m].place \in Nat
  <2>1. \A m \in DOMAIN level.items : level.items[m] \in ItemType
    BY <1>1, ElementOfSeq, LenProperties
  <2>2. QED
    BY <2>1 DEF ItemType
<1>7. ASSUME NEW m \in DOMAIN level.items
      PROVE  ItemInv(level.dir, level.items[m], listing, outN, badN)
  <2>1. level.items[m].place \in Nat /\ level.items[m].place # place
    BY <1>1, <1>6
  <2>2. Append(level.dir, level.items[m].place) # here
    BY <1>4, <2>1
  <2>3. ItemInv(level.dir, level.items[m], listing, out, bad)
    BY <1>2
  <2>4. QED
    BY <2>2, <2>3 DEF ItemInv
<1> HIDE DEF listing
<1>8. CASE levelN.items = level.items
  <2>1. /\ RestInv(levelN.rest, listing)
        /\ \A m \in DOMAIN levelN.items :
              /\ ItemInv(levelN.dir, levelN.items[m], listing, outN, badN)
              /\ levelN.items[m].place <= ReadTo(levelN, listing)
              /\ \A n \in 1..(m - 1) : levelN.items[n].place < levelN.items[m].place
        /\ levelN.items # <<>> => levelN.dir \in DOMAIN lists
        /\ \A p \in Later(levelN, listing) : Append(levelN.dir, p) \notin outN \union badN
    BY <1>2, <1>3, <1>5, <1>7, <1>8
  <2>2. QED
    BY <2>1 DEF LevelInv, listing
<1>9. CASE /\ levelN.items = Append(level.items, item)
           /\ \/ item.kind = "failed" /\ here \in badN
              \/ item.kind = listing[place] /\ outN = out /\ badN = bad
  <2> DEFINE items == levelN.items
             n == Len(level.items)
  <2>1. /\ n \in Nat /\ DOMAIN level.items = 1..n /\ DOMAIN items = 1..(n + 1)
        /\ \A m \in 1..n : items[m] = level.items[m]
        /\ items[n + 1] = item
    BY <1>1, <1>9, AppendProperties, LenProperties
  <2> HIDE DEF items, n
  <2>2. ItemInv(level.dir, item, listing, outN, badN)
    <3>1. CASE item.kind = "failed" /\ here \in badN
      BY <3>1 DEF ItemInv, listing
    <3>2. CASE item.kind = listing[place] /\ outN = out /\ badN = bad
      BY <1>0, <3>2 DEF ItemInv, listing
    <3>3. QED
      BY <1>9, <3>1, <3>2
  <2>3. ASSUME NEW m \in DOMAIN items
        PROVE  /\ ItemInv(level.dir, items[m], listing, outN, badN)
               /\ items[m].place <= ReadTo(level, listing)
               /\ \A l \in 1..(m - 1) : items[l].place < items[m].place
    <3>1. CASE m \in 1..n
      <4>1. items[m] = level.items[m] /\ m \in DOMAIN level.items
        BY <2>1, <3>1
      <4>2. \A l \in 1..(m - 1) : items[l] = level.items[l]
        BY <2>1, <3>1
      <4>3. QED
        BY <1>2, <1>7, <4>1, <4>2
    <3>2. CASE m = n + 1
      <4>1. items[m] = item /\ item.place <= ReadTo(level, listing)
        BY <2>1, <3>2 DEF listing
      <4>2. \A l \in 1..(m - 1) : l \in DOMAIN level.items /\ items[l] = level.items[l]
        BY <2>1, <3>2
      <4>3. \A l \in 1..(m - 1) : items[l].place < items[m].place
        BY <4>1, <4>2
      <4>4. QED
        BY <2>2, <4>1, <4>3
    <3>3. QED
      BY <2>1, <2>3, <3>1, <3>2
  <2>4. /\ RestInv(levelN.rest, listing)
        /\ \A m \in DOMAIN items :
              /\ ItemInv(levelN.dir, items[m], listing, outN, badN)
              /\ items[m].place <= ReadTo(levelN, listing)
              /\ \A l \in 1..(m - 1) : items[l].place < items[m].place
        /\ items # <<>> => levelN.dir \in DOMAIN lists
        /\ \A p \in Later(levelN, listing) : Append(levelN.dir, p) \notin outN \union badN
    BY <1>2, <1>3, <1>5, <2>3
  <2>5. QED
    BY <2>4 DEF LevelInv, listing, items
<1>10. QED
  BY <1>8, <1>9 DEF listing

LEMMA ReadingFacts ==
    ASSUME BaseInv, ReadInv, Reading
    PROVE  /\ pc = "entries" /\ Active /\ Scanning
           /\ Inner.dir = scan.path /\ Inner.items = scan.items /\ Cur = scan.path
           /\ scan.path \in Seq(Nat) /\ scan.path \in DOMAIN listings
           /\ Listing = listings[scan.path] /\ Listing \in Seq(Kinds)
           /\ scan.place \in Nat /\ scan.end \in Nat /\ Place = scan.place + 1 /\ Place <= scan.end
           /\ scan.end = ReadTo(Inner, Listing) /\ Place \in DOMAIN Listing
           /\ scan.items \in Seq(ItemType)
           /\ \A m \in DOMAIN scan.items : scan.items[m].place \in Nat /\ scan.items[m].place < Place
           /\ Unread = Place..scan.end /\ ~scan.unreadable /\ Lost = {}
           /\ \A p \in Unread : Append(scan.path, p) \notin refusals \union failures
           /\ Here = Append(scan.path, Place)
<1>1. TypeOK /\ PhaseInv
  BY DEF BaseInv
<1>2. pc = "entries" /\ Active /\ Scanning /\ scan.place < scan.end
  BY DEF Reading, Active, Scanning
<1>3. /\ Inner.dir = scan.path /\ Inner.items = scan.items /\ Cur = scan.path
  BY <1>2, InnerScan DEF Cur
<1>4. /\ scan.path \in Seq(Nat) /\ scan.place \in Nat /\ scan.end \in Nat
      /\ scan.items \in Seq(ItemType)
  BY <1>1, ScanTypes
<1>5. /\ WindowInv /\ LevelInv(Inner, listings, refusals, failures)
      /\ Inner \in LevelType /\ ListsType(listings)
  BY <1>2, ReadFacts
<1>6. ~scan.unreadable /\ Lost = {} /\ scan.job.of = scan.path
  BY <1>1, <1>2 DEF PhaseInv, Lost
<1>7. /\ scan.path \in DOMAIN listings /\ scan.end = ReadTo(Inner, Listing)
      /\ \A m \in DOMAIN scan.items : scan.items[m].place <= scan.place
      /\ \A p \in Unread : Append(scan.path, p) \notin refusals \union failures
  BY <1>2, <1>5 DEF WindowInv
<1>8. Listing = listings[scan.path] /\ Listing \in Seq(Kinds)
  BY <1>5, <1>6, <1>7 DEF Listing, ListsType
<1>9. \A m \in DOMAIN scan.items : scan.items[m].place \in Nat
  <2>1. \A m \in DOMAIN scan.items : scan.items[m] \in ItemType
    BY <1>4, ElementOfSeq, LenProperties
  <2>2. QED
    BY <2>1 DEF ItemType
<1>10. scan.end <= Len(Listing) /\ Len(Listing) \in Nat
  <2>1. Len(Listing) \in Nat
    BY <1>8, LenProperties
  <2>2. CASE Inner.rest = <<>>
    BY <1>7, <2>1, <2>2 DEF ReadTo
  <2>3. CASE Inner.rest # <<>>
    <3>1. 1 \in DOMAIN Inner.rest
      BY <1>5, <2>3, EmptySeq, LenProperties DEF LevelType
    <3>2. RestInv(Inner.rest, Listing)
      BY <1>3, <1>5, <1>8 DEF LevelInv
    <3>3. Inner.rest[1].start \in 1..(Len(Listing) - 1)
      BY <3>1, <3>2 DEF RestInv
    <3>4. QED
      BY <1>7, <2>1, <2>3, <3>3 DEF ReadTo
  <2>4. QED
    BY <2>1, <2>2, <2>3
<1>11. Place \in DOMAIN Listing
  BY <1>2, <1>4, <1>8, <1>10, LenProperties DEF Place
<1>12. Unread = Place..scan.end
  BY <1>2 DEF Unread, Place
<1>13. QED
  BY <1>2, <1>3, <1>4, <1>6, <1>7, <1>8, <1>9, <1>11, <1>12 DEF Place, Here

\* The entry at Place is read, and is in an item then, or refused.
EntryReads(item) ==
    /\ scan'.path = scan.path /\ scan'.job = scan.job /\ scan'.place = Place
    /\ scan'.end = scan.end /\ scan'.rest = scan.rest /\ scan'.unreadable = scan.unreadable
    /\ UNCHANGED <<on_error, stack, listings, rows>>
    /\ \/ /\ scan'.items = scan.items /\ pc' = "entries" /\ KindHere # "special"
          /\ refusals' = refusals \union {Here} /\ failures' = failures
       \/ /\ scan'.items = Append(scan.items, item) /\ refusals' = refusals
          /\ \/ /\ item.kind = "failed" /\ failures' = failures \union {Here}
                /\ pc' = IF on_error = "Fail" THEN "report" ELSE "entries"
             \/ item.kind = Listing[Place] /\ failures' = failures /\ pc' = "entries"

LEMMA EntryRead ==
    ASSUME BaseInv, ReadInv, Reading, NEW item \in ItemType, item.place = Place,
           EntryReads(item)
    PROVE  ReadInv'
<1> DEFINE listing == listings[scan.path]
<1>1. /\ pc = "entries" /\ Active /\ Scanning
      /\ Inner.dir = scan.path /\ Inner.items = scan.items /\ Cur = scan.path
      /\ scan.path \in Seq(Nat) /\ scan.path \in DOMAIN listings
      /\ Listing = listing /\ listing \in Seq(Kinds)
      /\ scan.place \in Nat /\ scan.end \in Nat /\ Place = scan.place + 1 /\ Place <= scan.end
      /\ scan.end = ReadTo(Inner, listing) /\ Place \in DOMAIN listing
      /\ scan.items \in Seq(ItemType)
      /\ \A m \in DOMAIN scan.items : scan.items[m].place \in Nat /\ scan.items[m].place < Place
      /\ Unread = Place..scan.end /\ ~scan.unreadable /\ Lost = {}
      /\ \A p \in Unread : Append(scan.path, p) \notin refusals \union failures
      /\ Here = Append(scan.path, Place)
  BY ReadingFacts
<1>2. /\ Outer \in Seq(LevelType) /\ Inner \in LevelType /\ Len(scan.path) = Len(Outer)
      /\ \A k \in DOMAIN Outer : Len(Outer[k].dir) = k - 1
      /\ ListsType(listings) /\ rows \in Seq(Seq(Nat))
      /\ OuterInv(Outer, listings, refusals, failures, scan.path)
      /\ LevelInv(Inner, listings, refusals, failures)
      /\ HistoryInv(on_error, rows, Ahead, listings, refusals, failures, {})
  BY <1>1, ReadFacts
<1>3. /\ scan'.path = scan.path /\ scan'.job = scan.job /\ scan'.place = Place
      /\ scan'.end = scan.end /\ scan'.rest = scan.rest /\ ~scan'.unreadable
      /\ UNCHANGED <<on_error, stack, listings, rows>>
      /\ pc' \in {"entries", "report"} /\ (pc' = "report" => on_error = "Fail")
      /\ refusals \subseteq refusals' /\ refusals' \subseteq refusals \union {Here}
      /\ failures \subseteq failures' /\ failures' \subseteq failures \union {Here}
      /\ scan'.items = scan.items => Here \in refusals' /\ failures' = failures
      /\ pc' = "report" => Here \in failures'
  <2>1. Append(scan.items, item) # scan.items
    BY <1>1, AppendProperties, LenProperties
  <2>2. /\ scan'.path = scan.path /\ scan'.job = scan.job /\ scan'.place = Place
        /\ scan'.end = scan.end /\ scan'.rest = scan.rest /\ ~scan'.unreadable
        /\ UNCHANGED <<on_error, stack, listings, rows>>
    BY <1>1 DEF EntryReads
  <2>3. CASE /\ scan'.items = scan.items /\ pc' = "entries"
             /\ refusals' = refusals \union {Here} /\ failures' = failures
    BY <2>2, <2>3
  <2>4. CASE /\ scan'.items = Append(scan.items, item) /\ refusals' = refusals
             /\ failures' = failures \union {Here}
             /\ pc' = IF on_error = "Fail" THEN "report" ELSE "entries"
    BY <2>1, <2>2, <2>4
  <2>5. CASE /\ scan'.items = Append(scan.items, item) /\ refusals' = refusals
             /\ failures' = failures /\ pc' = "entries"
    BY <2>1, <2>2, <2>5
  <2>6. QED
    BY <2>3, <2>4, <2>5 DEF EntryReads
<1>4. \/ scan'.items = scan.items /\ pc' = "entries" /\ Here \in refusals' /\ failures' = failures
      \/ scan'.items = Append(scan.items, item)
  BY DEF EntryReads
<1>5. /\ Active' /\ Scanning' /\ (First' <=> First) /\ ~Unlisted' /\ Lost' = {}
      /\ Unread' = IF pc' = "entries" THEN (Place + 1)..scan.end ELSE {}
  BY <1>1, <1>3 DEF Active, Scanning, First, Unlisted, Lost, Unread
<1>6. /\ Outer' = Outer /\ Inner'.dir = scan.path /\ Inner'.items = scan'.items
      /\ Inner'.rest = Inner.rest /\ Cur' = scan.path
  BY <1>1, <1>3, <1>5 DEF Outer, Inner, Cur, Top
<1>7. /\ ReadTo(Inner', listing) = ReadTo(Inner, listing)
      /\ Later(Inner', listing) = Later(Inner, listing)
  BY <1>6 DEF ReadTo, Later
<1>8. \A m \in DOMAIN scan'.items :
          scan'.items[m].place \in {scan.items[n].place : n \in DOMAIN scan.items} \union {Place}
  <2>1. CASE scan'.items = scan.items
    BY <2>1
  <2>2. CASE scan'.items = Append(scan.items, item)
    <3>1. /\ DOMAIN scan.items = 1..Len(scan.items) /\ Len(scan.items) \in Nat
          /\ DOMAIN scan'.items = 1..(Len(scan.items) + 1)
          /\ \A m \in 1..Len(scan.items) : scan'.items[m] = scan.items[m]
          /\ scan'.items[Len(scan.items) + 1] = item
      BY <1>1, <2>2, AppendProperties, LenProperties
    <3>2. ASSUME NEW m \in DOMAIN scan'.items
          PROVE  scan'.items[m].place \in {scan.items[n].place : n \in DOMAIN scan.items}
                                          \union {Place}
      <4>1. m \in 1..Len(scan.items) \/ m = Len(scan.items) + 1
        BY <3>1, <3>2
      <4>2. QED
        BY <3>1, <4>1
    <3>3. QED
      BY <3>2
  <2>3. QED
    BY <1>4, <2>1, <2>2
<1>9. /\ \A n \in DOMAIN scan.items : \E m \in DOMAIN scan'.items :
              scan'.items[m].place = scan.items[n].place
      /\ scan'.items = Append(scan.items, item)
            => \E m \in DOMAIN scan'.items : scan'.items[m].place = Place
  <2>1. CASE scan'.items = scan.items /\ scan'.items # Append(scan.items, item)
    BY <2>1
  <2>2. CASE scan'.items = Append(scan.items, item)
    <3>1. /\ DOMAIN scan.items = 1..Len(scan.items) /\ Len(scan.items) \in Nat
          /\ DOMAIN scan'.items = 1..(Len(scan.items) + 1)
          /\ \A m \in 1..Len(scan.items) : scan'.items[m] = scan.items[m]
          /\ scan'.items[Len(scan.items) + 1] = item
      BY <1>1, <2>2, AppendProperties, LenProperties
    <3>2. \A n \in 1..Len(scan.items) : n \in 1..(Len(scan.items) + 1)
      BY <3>1
    <3>3. Len(scan.items) + 1 \in 1..(Len(scan.items) + 1)
      BY <3>1
    <3>4. QED
      BY <3>1, <3>2, <3>3
  <2>3. QED
    BY <1>4, <2>1, <2>2
<1> HIDE DEF listing
<1> DEFINE before == AheadIn(Inner, listing) \union Unread
           after == AheadIn(Inner', listing) \union Unread'
<1>10. /\ after \subseteq before
       /\ \A p \in before \ after :
             \/ p = Place /\ Here \in refusals' /\ failures' = failures
             \/ p > Place /\ p \in Unread /\ on_error = "Fail" /\ Here \in failures'
       /\ Place \in before /\ before \subseteq Nat
  <2>1. /\ AheadIn(Inner, listing)
              = {scan.items[m].place : m \in DOMAIN scan.items} \union Later(Inner, listing)
        /\ AheadIn(Inner', listing)
              = {scan'.items[m].place : m \in DOMAIN scan'.items} \union Later(Inner, listing)
    BY <1>1, <1>6, <1>7 DEF AheadIn
  <2>2. Unread' \subseteq Unread /\ Place \in Unread /\ Unread \subseteq Nat
    BY <1>1, <1>5
  <2>3. after \subseteq before
    BY <1>8, <2>1, <2>2
  <2>4. AheadIn(Inner, listing) \subseteq Nat
    BY <1>1, <1>2, AheadInNat
  <2>5. ASSUME NEW p \in before \ after
        PROVE  \/ p = Place /\ Here \in refusals' /\ failures' = failures
               \/ p > Place /\ p \in Unread /\ on_error = "Fail" /\ Here \in failures'
    <3>1. p \in Unread \ Unread'
      BY <1>9, <2>1, <2>5
    <3>2. CASE p = Place
      BY <1>4, <1>9, <2>1, <2>5, <3>2
    <3>3. CASE p # Place
      <4>1. p > Place /\ pc' = "report"
        BY <1>1, <1>3, <1>5, <3>1, <3>3
      <4>2. QED
        BY <1>3, <3>1, <4>1
    <3>4. QED
      BY <3>2, <3>3
  <2>6. QED
    BY <2>2, <2>3, <2>4, <2>5
<1> HIDE DEF before, after
<1>11. \A p \in Nat : p # Place => Append(scan.path, p) # Here
  BY <1>1, SamePath
<1>12. ASSUME NEW k \in DOMAIN Outer
       PROVE  /\ Outer[k].dir \in DOMAIN listings
              /\ \A p \in Nat : Append(Outer[k].dir, p) # Here
  <2>1. Outer[k].dir \in DOMAIN listings /\ Outer[k].dir \in Seq(Nat)
    BY <1>2, <1>12 DEF OuterInv, ListsType
  <2>2. Outer[k].dir # scan.path
    <3>1. k \in 1..Len(Outer) /\ Len(Outer) \in Nat
      BY <1>2, LenProperties
    <3>2. Len(Outer[k].dir) = k - 1 /\ Len(scan.path) = Len(Outer)
      BY <1>2
    <3>3. QED
      BY <3>1, <3>2
  <2>3. ASSUME NEW p \in Nat
        PROVE  Append(Outer[k].dir, p) # Here
    <3>1. Place \in Nat /\ scan.path \in Seq(Nat) /\ Outer[k].dir \in Seq(Nat)
      BY <1>1, <2>1
    <3>2. Append(Outer[k].dir, p) # Append(scan.path, Place)
      BY <2>2, <3>1, OtherEntries
    <3>3. QED
      BY <1>1, <3>2
  <2>4. QED
    BY <2>1, <2>3
<1>13. /\ OuterInv(Outer, listings, refusals', failures', scan.path)
  <2>1. /\ SameLevels(Outer, Outer) /\ SameListings(Outer, listings, listings)
        /\ SameEntries(Outer, refusals, refusals') /\ SameEntries(Outer, failures, failures')
    BY <1>3, <1>12 DEF SameLevels, SameListings, SameEntries
  <2>2. /\ Outer \in Seq(LevelType) /\ ListsType(listings)
        /\ OuterInv(Outer, listings, refusals, failures, scan.path)
    BY <1>2
  <2>3. QED
    BY <2>1, <2>2, OuterKept
<1>14. /\ Ahead = AheadOf(Outer, listings) \union {Append(scan.path, p) : p \in before}
       /\ Ahead' = AheadOf(Outer, listings) \union {Append(scan.path, p) : p \in after}
  BY <1>1, <1>3, <1>6 DEF Ahead, AheadAt, listing, before, after

<1>15. AheadShrinks(on_error, scan.path, Place, Ahead, Ahead', refusals', failures')
  <2>1. Ahead' \subseteq Ahead
    BY <1>10, <1>14
  <2>2. ASSUME NEW a \in Ahead \ Ahead'
        PROVE  /\ \/ a = Append(scan.path, Place) /\ a \in refusals' \union failures'
                  \/ /\ on_error = "Fail" /\ Append(scan.path, Place) \in failures'
                     /\ \E q \in Nat : Place < q /\ a = Append(scan.path, q)
               /\ a \notin failures'
    <3>1. PICK p \in before \ after : a = Append(scan.path, p)
      BY <1>14, <2>2
    <3>2. CASE p = Place /\ Here \in refusals' /\ failures' = failures
      <4>1. Here \notin failures
        BY <1>1
      <4>2. QED
        BY <1>1, <3>1, <3>2, <4>1
    <3>3. CASE p > Place /\ p \in Unread /\ on_error = "Fail" /\ Here \in failures'
      <4>1. p \in Nat /\ p # Place /\ a \notin failures
        BY <1>1, <3>1, <3>3
      <4>2. a # Here
        BY <1>11, <3>1, <4>1
      <4>3. QED
        BY <1>1, <1>3, <3>1, <3>3, <4>1, <4>2
    <3>4. QED
      BY <1>10, <3>1, <3>2, <3>3
  <2>3. QED
    BY <2>1, <2>2 DEF AheadShrinks
<1>16. HistoryInv(on_error, rows, Ahead', listings, refusals', failures', {})
  <2>1. Append(scan.path, Place) \in Ahead
    BY <1>10, <1>14
  <2>2. /\ refusals \subseteq refusals' /\ refusals' \subseteq refusals \union {Append(scan.path, Place)}
        /\ failures \subseteq failures' /\ failures' \subseteq failures \union {Append(scan.path, Place)}
    BY <1>1, <1>3
  <2>3. /\ rows \in Seq(Seq(Nat)) /\ ListsType(listings)
        /\ HistoryInv(on_error, rows, Ahead, listings, refusals, failures, {})
        /\ scan.path \in DOMAIN listings /\ Place \in DOMAIN listings[scan.path]
    BY <1>1, <1>2 DEF listing
  <2>4. QED
    BY <1>15, <2>1, <2>2, <2>3, HistoryReads
<1>17. LevelInv(Inner', listings, refusals', failures')
  <2>1. /\ Inner \in LevelType /\ Inner'.dir = Inner.dir /\ Inner'.rest = Inner.rest
        /\ ListsType(listings) /\ Inner.dir \in DOMAIN listings
        /\ LevelInv(Inner, listings, refusals, failures)
    BY <1>1, <1>2, <1>6
  <2>2. /\ Place \in DOMAIN listings[Inner.dir] /\ Place <= ReadTo(Inner, listings[Inner.dir])
        /\ \A m \in DOMAIN Inner.items : Inner.items[m].place < Place
        /\ Append(Inner.dir, Place) \notin refusals \union failures
    <3>1. Append(scan.path, Place) \notin refusals \union failures
      BY <1>1
    <3>2. QED
      BY <1>1, <3>1 DEF listing
  <2>3. /\ refusals \subseteq refusals' /\ refusals' \subseteq refusals \union {Append(Inner.dir, Place)}
        /\ failures \subseteq failures' /\ failures' \subseteq failures \union {Append(Inner.dir, Place)}
    BY <1>1, <1>3
  <2>4. \/ Inner'.items = Inner.items
        \/ /\ Inner'.items = Append(Inner.items, item)
           /\ \/ item.kind = "failed" /\ Append(Inner.dir, Place) \in failures'
              \/ /\ item.kind = listings[Inner.dir][Place]
                 /\ refusals' = refusals /\ failures' = failures
    BY <1>1, <1>6 DEF EntryReads, listing
  <2>5. QED
    BY <2>1, <2>2, <2>3, <2>4, LevelReads
<1>18. WindowInv'
  <2>1. \A p \in Unread' : Append(scan'.path, p) \notin refusals' \union failures'
    <3> SUFFICES ASSUME NEW p \in Unread'
                 PROVE  Append(scan.path, p) \notin refusals' \union failures'
      BY <1>3
    <3>1. p \in Unread /\ p \in Nat /\ p # Place
      BY <1>1, <1>5
    <3>2. QED
      BY <1>1, <1>3, <1>11, <3>1
  <2>2. /\ ~scan'.unreadable /\ scan'.path \in DOMAIN listings' /\ pc' # "fill"
        /\ scan'.place <= scan'.end
    BY <1>1, <1>3
  <2>3. Listing' = listing
    BY <1>1, <1>3 DEF Listing, listing
  <2>4. scan'.end = ReadTo(Inner', Listing')
    BY <1>1, <1>3, <1>7, <2>3
  <2>5. \A m \in DOMAIN scan'.items : scan'.items[m].place <= scan'.place
    <3> SUFFICES ASSUME NEW m \in DOMAIN scan'.items
                 PROVE  scan'.items[m].place <= Place
      BY <1>3
    <3>1. CASE scan'.items[m].place = Place
      BY <1>1, <3>1
    <3>2. ASSUME NEW n \in DOMAIN scan.items, scan'.items[m].place = scan.items[n].place
          PROVE  scan'.items[m].place <= Place
      BY <1>1, <3>2
    <3>3. QED
      BY <1>8, <3>1, <3>2
  <2>6. QED
    BY <2>1, <2>2, <2>4, <2>5 DEF WindowInv
<1>19. UnlistedInv'
  BY <1>5 DEF UnlistedInv
<1>20. QED
  BY <1>3, <1>5, <1>6, <1>13, <1>16, <1>17, <1>18, <1>19 DEF ReadInv

\* Every entry is read in one way or another.
LEMMA EntriesAreRead ==
    ASSUME BaseInv, Entries, ~EntriesEnd
    PROVE  Reading /\ \E item \in ItemType : item.place = Place /\ EntryReads(item)
<1> DEFINE Goal == Reading /\ \E item \in ItemType : item.place = Place /\ EntryReads(item)
<1>1. TypeOK /\ PhaseInv /\ scan \in ScanType
  BY DEF BaseInv, TypeOK
<1>2. /\ Place \in Nat
      /\ \A kind \in {"failed", "special", "file", "directory"} :
            /\ Item(kind, Place) \in ItemType
            /\ Item(kind, Place).kind = kind /\ Item(kind, Place).place = Place
            /\ Read(Item(kind, Place))
                  = [scan EXCEPT !.place = Place,
                                 !.items = Append(scan.items, Item(kind, Place))]
  <2>1. Place \in Nat
    BY <1>1, HereType
  <2>2. QED
    BY <1>1, <2>1, HereType, ItemTypes DEF Item
<1>3. ASSUME NEW kind \in {"failed", "special", "file", "directory"},
             scan' = Read(Item(kind, Place))
      PROVE  /\ scan'.path = scan.path /\ scan'.job = scan.job /\ scan'.place = Place
             /\ scan'.end = scan.end /\ scan'.rest = scan.rest
             /\ scan'.unreadable = scan.unreadable
             /\ scan'.items = Append(scan.items, Item(kind, Place))
  <2> DEFINE item == Item(kind, Place)
  <2>1. scan' = [scan EXCEPT !.place = Place, !.items = Append(scan.items, item)]
    BY <1>2, <1>3
  <2> HIDE DEF item
  <2>2. QED
    BY <1>1, <2>1 DEF ScanType, item
<1>4. ASSUME Reading, FailedHere, UNCHANGED <<on_error, stack, listings, rows, refusals>>
      PROVE  Goal
  <2>1. EntryReads(Item("failed", Place))
    BY <1>2, <1>3, <1>4 DEF FailedHere, EntryReads
  <2>2. QED
    BY <1>2, <1>4, <2>1
<1>5. CASE EntrySpecial
  <2>1. Reading /\ KindHere = "special" /\ scan' = Read(Item("special", Place))
        /\ UNCHANGED <<on_error, pc, stack, listings, rows, refusals, failures>>
    BY <1>5 DEF EntrySpecial, history
  <2>2. EntryReads(Item("special", Place))
    BY <1>2, <1>3, <2>1 DEF EntryReads, KindHere, Reading
  <2>3. QED
    BY <1>2, <2>1, <2>2
<1>6. CASE EntryRefused
  <2>1. /\ Reading /\ KindHere # "special" /\ scan' = [scan EXCEPT !.place = Place]
        /\ refusals' = refusals \union {Here}
        /\ UNCHANGED <<on_error, pc, stack, listings, rows, failures>>
    BY <1>6 DEF EntryRefused
  <2>2. /\ scan'.path = scan.path /\ scan'.job = scan.job /\ scan'.place = Place
        /\ scan'.end = scan.end /\ scan'.rest = scan.rest
        /\ scan'.unreadable = scan.unreadable /\ scan'.items = scan.items
    BY <1>1, <2>1 DEF ScanType
  <2>3. EntryReads(Item("failed", Place))
    BY <2>1, <2>2 DEF EntryReads, Reading
  <2>4. QED
    BY <1>2, <2>1, <2>3
<1>7. CASE EntryFile
  <2>1. Reading /\ KindHere = "file" /\ UNCHANGED <<on_error, stack, listings, rows, refusals>>
        /\ (FailedHere \/ (scan' = Read(Item("file", Place)) /\ UNCHANGED <<pc, failures>>))
    BY <1>7 DEF EntryFile
  <2>2. ASSUME scan' = Read(Item("file", Place)), UNCHANGED <<pc, failures>>
        PROVE  EntryReads(Item("file", Place))
    BY <1>2, <1>3, <2>1, <2>2 DEF EntryReads, KindHere, Reading
  <2>3. QED
    BY <1>2, <1>4, <2>1, <2>2
<1>8. CASE EntryDirectory
  <2>1. PICK ahead \in OpenAhead :
            /\ Reading /\ KindHere = "directory"
            /\ UNCHANGED <<on_error, stack, listings, rows, refusals>>
            /\ \/ FailedHere
               \/ /\ scan' = [Read(Item("directory", Place)) EXCEPT
                                 !.directories = Append(@, ahead.job)]
                  /\ UNCHANGED <<pc, failures>>
    BY <1>8 DEF EntryDirectory
  <2>2. ASSUME scan' = [Read(Item("directory", Place)) EXCEPT !.directories = Append(@, ahead.job)],
               UNCHANGED <<pc, failures>>
        PROVE  EntryReads(Item("directory", Place))
    <3> DEFINE item == Item("directory", Place)
               jobs == Append(scan.directories, ahead.job)
    <3>1. Read(item) = [scan EXCEPT !.place = Place, !.items = Append(scan.items, item)]
      BY <1>2
    <3>2. Read(item).directories = scan.directories
      BY <1>1, <3>1 DEF ScanType
    <3>3. scan' = [[scan EXCEPT !.place = Place, !.items = Append(scan.items, item)]
                       EXCEPT !.directories = jobs]
      BY <2>2, <3>1, <3>2
    <3> HIDE DEF item, jobs
    <3>4. /\ scan'.path = scan.path /\ scan'.job = scan.job /\ scan'.place = Place
          /\ scan'.end = scan.end /\ scan'.rest = scan.rest
          /\ scan'.unreadable = scan.unreadable /\ scan'.items = Append(scan.items, item)
      BY <1>1, <3>3 DEF ScanType
    <3>5. item.kind = "directory"
      BY <1>2 DEF item
    <3>6. QED
      BY <2>1, <2>2, <3>4, <3>5 DEF EntryReads, KindHere, Reading, item
  <2>3. QED
    BY <1>2, <1>4, <2>1, <2>2
<1>9. QED
  BY <1>5, <1>6, <1>7, <1>8 DEF Entries

LEMMA EntriesRead == BaseInv /\ ReadInv /\ Entries => ReadInv'
<1> SUFFICES ASSUME BaseInv, ReadInv, Entries
             PROVE  ReadInv'
  OBVIOUS
<1>1. CASE EntriesEnd
  <2>1. /\ pc = "entries" /\ scan.place = scan.end /\ pc' = "report"
        /\ UNCHANGED <<on_error, stack, scan, listings, rows, refusals, failures>>
    BY <1>1 DEF EntriesEnd, history
  <2>2. ~scan.unreadable /\ scan.place \in Nat
    BY <2>1, ScanTypes DEF BaseInv, PhaseInv
  <2>3. /\ Active /\ Active' /\ Scanning /\ Scanning' /\ (First' <=> First)
        /\ ~Unlisted' /\ Lost' = Lost
    BY <2>1, <2>2 DEF Active, Scanning, First, Unlisted, Lost
  <2>4. Unread = {} /\ Unread' = {}
    BY <2>1, <2>2 DEF Unread
  <2>5. Outer' = Outer /\ Inner' = Inner
    BY <2>1, <2>3 DEF Outer, Inner, Top
  <2>6. WindowInv'
    BY <2>1, <2>2, <2>4 DEF WindowInv
  <2>7. UnlistedInv'
    BY <2>3 DEF UnlistedInv
  <2>8. SameLevels(Outer, Outer')
    BY <2>5 DEF SameLevels
  <2>9. QED
    BY <2>1, <2>3, <2>4, <2>5, <2>6, <2>7, <2>8, ReadSame
<1>2. CASE ~EntriesEnd
  <2>1. PICK item \in ItemType : item.place = Place /\ EntryReads(item)
    BY <1>2, EntriesAreRead
  <2>2. Reading
    BY <1>2, EntriesAreRead
  <2>3. QED
    BY <2>1, <2>2, EntryRead
<1>3. QED
  BY <1>1, <1>2

LEMMA ReportRead == BaseInv /\ ReadInv /\ Report => ReadInv'
<1> SUFFICES ASSUME BaseInv, ReadInv, Report
             PROVE  ReadInv'
  OBVIOUS
<1>1. /\ Scanning /\ pc' = "walk" /\ scan' = NoScan /\ pc = "report"
      /\ stack' = Append(Outer, Inner) /\ stack' \in Seq(LevelType) /\ stack' # <<>>
      /\ Outer \in Seq(LevelType) /\ Inner \in LevelType
      /\ UNCHANGED <<on_error, listings, rows, refusals, failures>>
      /\ on_error = "Fail" => ~scan.unreadable
  BY ReportFacts
<1>2. Active /\ Active' /\ ~Scanning' /\ ~Unlisted' /\ Unread = {} /\ Unread' = {}
  BY <1>1 DEF Active, Scanning, Unlisted, Unread
<1>3. on_error = "Fail" => Lost' = Lost
  BY <1>1, NoScanFacts DEF Lost
<1>4. Outer' = Outer /\ Inner' = Inner
  BY <1>1, <1>2, AppendedFacts DEF Outer, Inner, Top
<1>5. WindowInv' /\ UnlistedInv' /\ SameLevels(Outer, Outer')
  BY <1>2, <1>4 DEF WindowInv, UnlistedInv, SameLevels
<1>6. QED
  BY <1>1, <1>2, <1>3, <1>4, <1>5, ReadSame

-----------------------------------------------------------------------------
(* The walk comes to an item.                                              *)

\* The first item of a level comes before the rest of it.
LEMMA FirstItem ==
    ASSUME NEW level \in LevelType, level.items # <<>>,
           NEW past, past.dir = level.dir, past.items = Tail(level.items), past.rest = level.rest,
           NEW lists, ListsType(lists), NEW out, NEW bad, LevelInv(level, lists, out, bad)
    PROVE  LET item == Head(level.items)
               listing == lists[level.dir]
           IN  /\ level.dir \in DOMAIN lists /\ item \in ItemType
               /\ ItemInv(level.dir, item, listing, out, bad)
               /\ AheadIn(level, listing) = AheadIn(past, listing) \union {item.place}
               /\ \A q \in AheadIn(past, listing) : q \in Nat /\ item.place < q
               /\ LevelInv(past, lists, out, bad)
<1> DEFINE item == Head(level.items)
           listing == lists[level.dir]
           n == Len(level.items)
           tail == Tail(level.items)
<1>1. /\ level.items \in Seq(ItemType) /\ level.rest \in Seq(JobType)
      /\ level.dir \in DOMAIN lists /\ listing \in Seq(Kinds)
  BY DEF LevelType, LevelInv, ListsType
<1>2. /\ n \in Nat \ {0} /\ DOMAIN level.items = 1..n
      /\ tail \in Seq(ItemType) /\ Len(tail) = n - 1
      /\ \A m \in 1..(n - 1) : tail[m] = level.items[m + 1]
      /\ item \in ItemType /\ item = level.items[1]
  BY <1>1, EmptySeq, LenProperties, HeadTailProperties
<1>3. DOMAIN tail = 1..(n - 1) /\ DOMAIN past.items = 1..(n - 1)
  BY <1>2, LenProperties
<1>4. \A m \in 1..n : level.items[m] \in ItemType /\ level.items[m].place \in Nat
  <2>1. \A m \in 1..n : level.items[m] \in ItemType
    BY <1>1, <1>2, ElementOfSeq
  <2>2. QED
    BY <2>1 DEF ItemType
<1>5. /\ RestInv(level.rest, listing)
      /\ \A m \in 1..n :
            /\ ItemInv(level.dir, level.items[m], listing, out, bad)
            /\ level.items[m].place <= ReadTo(level, listing)
            /\ \A k \in 1..(m - 1) : level.items[k].place < level.items[m].place
      /\ \A p \in Later(level, listing) : Append(level.dir, p) \notin out \union bad
  BY <1>2 DEF LevelInv
<1>6. ReadTo(past, listing) = ReadTo(level, listing) /\ Later(past, listing) = Later(level, listing)
  BY DEF ReadTo, Later
<1>7. Later(level, listing) \subseteq Nat
  BY <1>1, AheadInNat
<1> HIDE DEF tail, item, listing, n
<1>8. \A m \in 1..(n - 1) : m + 1 \in 1..n /\ past.items[m] = level.items[m + 1]
  BY <1>2 DEF tail
<1>9. 1 \in 1..n /\ \A m \in 1..n : m = 1 \/ (m - 1 \in 1..(n - 1) /\ (m - 1) + 1 = m)
  BY <1>2
<1>10. /\ AheadIn(level, listing) = {level.items[m].place : m \in 1..n} \union Later(level, listing)
       /\ AheadIn(past, listing) = {past.items[m].place : m \in 1..(n - 1)} \union Later(level, listing)
  BY <1>2, <1>3, <1>6 DEF AheadIn
<1>11. AheadIn(level, listing) = AheadIn(past, listing) \union {item.place}
  <2>1. {level.items[m].place : m \in 1..n}
            = {past.items[m].place : m \in 1..(n - 1)} \union {item.place}
    <3>1. ASSUME NEW m \in 1..n
          PROVE  level.items[m].place \in {past.items[l].place : l \in 1..(n - 1)} \union {item.place}
      <4>1. CASE m = 1
        BY <1>2, <4>1
      <4>2. CASE m # 1
        <5>1. m - 1 \in 1..(n - 1) /\ (m - 1) + 1 = m
          BY <1>9, <4>2
        <5>2. past.items[m - 1] = level.items[m]
          BY <1>8, <5>1
        <5>3. QED
          BY <5>1, <5>2
      <4>3. QED
        BY <4>1, <4>2
    <3>2. ASSUME NEW m \in 1..(n - 1)
          PROVE  past.items[m].place \in {level.items[l].place : l \in 1..n}
      BY <1>8
    <3>3. item.place \in {level.items[l].place : l \in 1..n}
      BY <1>2, <1>9
    <3>4. QED
      BY <3>1, <3>2, <3>3
  <2>2. QED
    BY <1>10, <2>1
<1>12. ASSUME NEW q \in AheadIn(past, listing)
       PROVE  q \in Nat /\ item.place < q
  <2>1. CASE q \in Later(level, listing)
    <3>1. level.rest # <<>> /\ q \in (level.rest[1].start + 1)..Len(listing)
      BY <2>1 DEF Later
    <3>2. level.rest[1].start \in Nat
      <4>1. level.rest[1] \in JobType
        BY <1>1, <3>1, ElementOfSeq, EmptySeq, LenProperties
      <4>2. QED
        BY <4>1 DEF JobType
    <3>3. item.place <= level.rest[1].start /\ item.place \in Nat
      BY <1>2, <1>4, <1>5, <1>9, <3>1 DEF ReadTo
    <3>4. Len(listing) \in Nat
      BY <1>1, LenProperties DEF listing
    <3>5. QED
      BY <3>1, <3>2, <3>3, <3>4
  <2>2. CASE q \notin Later(level, listing)
    <3>1. PICK m \in 1..(n - 1) : q = past.items[m].place
      BY <1>10, <1>12, <2>2
    <3>2. q = level.items[m + 1].place /\ m + 1 \in 1..n /\ 1 \in 1..((m + 1) - 1)
      BY <1>2, <1>8, <3>1
    <3>3. QED
      BY <1>2, <1>4, <1>5, <3>2
  <2>3. QED
    BY <2>1, <2>2
<1>13. LevelInv(past, lists, out, bad)
  <2>1. ASSUME NEW m \in 1..(n - 1)
        PROVE  /\ ItemInv(past.dir, past.items[m], listing, out, bad)
               /\ past.items[m].place <= ReadTo(past, listing)
               /\ \A k \in 1..(m - 1) : past.items[k].place < past.items[m].place
    <3>1. m + 1 \in 1..n /\ past.items[m] = level.items[m + 1]
      BY <1>8
    <3>2. \A k \in 1..(m - 1) : /\ k \in 1..(n - 1) /\ k + 1 \in 1..((m + 1) - 1)
                                /\ past.items[k] = level.items[k + 1]
      BY <1>2, <1>8
    <3>3. \A k \in 1..((m + 1) - 1) : level.items[k].place < level.items[m + 1].place
      BY <1>5, <3>1
    <3>4. QED
      BY <1>5, <1>6, <3>1, <3>2, <3>3
  <2>2. /\ RestInv(past.rest, listing)
        /\ \A m \in DOMAIN past.items :
              /\ ItemInv(past.dir, past.items[m], listing, out, bad)
              /\ past.items[m].place <= ReadTo(past, listing)
              /\ \A k \in 1..(m - 1) : past.items[k].place < past.items[m].place
        /\ past.dir \in DOMAIN lists
        /\ \A p \in Later(past, listing) : Append(past.dir, p) \notin out \union bad
    BY <1>1, <1>3, <1>5, <1>6, <2>1
  <2>3. QED
    BY <2>2 DEF LevelInv, listing
<1>14. ItemInv(level.dir, item, listing, out, bad)
  BY <1>2, <1>5, <1>9
<1>15. QED
  BY <1>1, <1>2, <1>11, <1>12, <1>13, <1>14 DEF item, listing

\* What is ahead once the walk has come to the first item of the innermost level.
AheadPast(past) ==
    AheadOf(Front(stack), listings) \union AheadAt(past, listings[past.dir], {})

\* The walk's next item is the first of all that is ahead.
LEMMA NextItem ==
    ASSUME BaseInv, ReadInv, Visiting, NEW past \in LevelType,
           past.dir = Top.dir, past.items = Tail(Top.items), past.rest = Top.rest
    PROVE  LET item == Head(Top.items)
               x == Append(Top.dir, item.place)
           IN  /\ pc = "walk" /\ Active /\ ~Scanning /\ Lost = {} /\ Cur = Top.dir
               /\ Outer = Front(stack) /\ Inner = Top
               /\ Top.dir \in DOMAIN listings /\ Top.dir \in Seq(Nat) /\ x \in Seq(Nat)
               /\ item \in ItemType
               /\ item.place = 0 => item.kind = "failed"
               /\ ItemInv(Top.dir, item, listings[Top.dir], refusals, failures)
               /\ x \in Ahead /\ Ahead \subseteq Seq(Nat)
               /\ AheadPast(past) \subseteq Ahead /\ Ahead \subseteq AheadPast(past) \union {x}
               /\ \A a \in AheadPast(past) : Before(x, a)
               /\ \A q \in AheadIn(past, listings[Top.dir]) : item.place < q
               /\ LevelInv(past, listings, refusals, failures)
<1> DEFINE item == Head(Top.items)
           x == Append(Top.dir, item.place)
           listing == listings[Top.dir]
<1>1. /\ pc = "walk" /\ Active /\ ~Scanning /\ Top.items # <<>>
      /\ Outer = Front(stack) /\ Inner = Top /\ Cur = Top.dir
      /\ Top \in LevelType /\ LevelJobs(Top, listings)
      /\ scan = NoScan
  BY WalkFacts DEF Visiting, Active, Scanning, Cur
<1>2. Lost = {} /\ Unread = {}
  BY <1>1, NoScanFacts DEF Lost, Unread
<1>3. /\ Outer \in Seq(LevelType) /\ Top.dir \in Seq(Nat) /\ Len(Top.dir) = Len(Outer)
      /\ \A k \in DOMAIN Outer : Len(Outer[k].dir) = k - 1
      /\ ListsType(listings)
      /\ OuterInv(Outer, listings, refusals, failures, Top.dir)
      /\ LevelInv(Top, listings, refusals, failures)
  BY <1>1, ReadFacts
<1>4. /\ Top.dir \in DOMAIN listings /\ item \in ItemType
      /\ ItemInv(Top.dir, item, listing, refusals, failures)
      /\ AheadIn(Top, listing) = AheadIn(past, listing) \union {item.place}
      /\ \A q \in AheadIn(past, listing) : q \in Nat /\ item.place < q
      /\ LevelInv(past, listings, refusals, failures)
  BY <1>1, <1>3, FirstItem
<1>5. item.place \in Nat
  BY <1>4 DEF ItemType
<1>6. x \in Seq(Nat)
  BY <1>3, <1>5, PathFacts
<1>7. item.place = 0 => item.kind = "failed"
  <2>1. 1 \in DOMAIN Top.items /\ item = Top.items[1]
    BY VisitFacts, LenProperties
  <2>2. QED
    BY <1>1, <2>1 DEF LevelJobs
<1> HIDE DEF item, listing
<1>8. /\ AheadAt(past, listing, {}) \subseteq AheadAt(Top, listing, {})
      /\ AheadAt(Top, listing, {}) = AheadAt(past, listing, {}) \union {x}
      /\ \A a \in AheadAt(past, listing, {}) :
            \E q \in AheadIn(past, listing) : a = Append(Top.dir, q)
  BY <1>4 DEF AheadAt
<1>9. /\ Ahead = AheadOf(Front(stack), listings) \union AheadAt(Top, listing, {})
      /\ AheadPast(past) = AheadOf(Front(stack), listings) \union AheadAt(past, listing, {})
  BY <1>1, <1>2 DEF Ahead, AheadPast, listing
<1>10. ASSUME NEW a \in AheadPast(past)
       PROVE  a \in Seq(Nat) /\ Before(x, a)
  <2>1. CASE a \in AheadOf(Front(stack), listings)
    BY <1>1, <1>3, <1>5, <2>1, OuterComesAfter
  <2>2. CASE a \in AheadAt(past, listing, {})
    <3>1. PICK q \in AheadIn(past, listing) : a = Append(Top.dir, q)
      BY <1>8, <2>2
    <3>2. q \in Nat /\ item.place < q
      BY <1>4
    <3>3. QED
      BY <1>3, <1>5, <3>1, <3>2, EntriesInOrder, PathFacts
  <2>3. QED
    BY <1>9, <1>10, <2>1, <2>2
<1>11. /\ x \in Ahead /\ AheadPast(past) \subseteq Ahead /\ Ahead \subseteq AheadPast(past) \union {x}
  BY <1>8, <1>9
<1>12. Ahead \subseteq Seq(Nat)
  BY <1>6, <1>10, <1>11
<1>13. QED
  BY <1>1, <1>2, <1>3, <1>4, <1>6, <1>7, <1>10, <1>11, <1>12 DEF item, listing

LEMMA VisitRowRead == BaseInv /\ ReadInv /\ (VisitFile \/ VisitSkipped) => ReadInv'
<1> SUFFICES ASSUME BaseInv, ReadInv, VisitFile \/ VisitSkipped
             PROVE  ReadInv'
  OBVIOUS
<1> DEFINE item == Head(Top.items)
           x == Append(Top.dir, item.place)
           past == Past(Top)
<1>1. /\ Visiting /\ stack' = Visited
      /\ UNCHANGED <<on_error, pc, scan, listings, refusals, failures>>
      /\ \/ item.kind = "file" /\ rows' = Append(rows, ItemPath(Top.dir, item))
         \/ /\ item.kind = "special" \/ (item.kind = "failed" /\ on_error = "Skip")
            /\ rows' = rows
  BY DEF VisitFile, VisitSkipped, history
<1>2. /\ past \in LevelType /\ past.dir = Top.dir /\ past.rest = Top.rest
      /\ past.items = Tail(Top.items)
      /\ Front(Visited) = Front(stack) /\ Last(Visited) = past
  BY <1>1, VisitFacts
<1> HIDE DEF past
<1>3. /\ pc = "walk" /\ Active /\ ~Scanning /\ Lost = {} /\ Cur = Top.dir
      /\ Outer = Front(stack) /\ Inner = Top
      /\ Top.dir \in DOMAIN listings /\ Top.dir \in Seq(Nat) /\ x \in Seq(Nat)
      /\ item \in ItemType
      /\ item.place = 0 => item.kind = "failed"
      /\ ItemInv(Top.dir, item, listings[Top.dir], refusals, failures)
      /\ x \in Ahead
      /\ AheadPast(past) \subseteq Ahead /\ Ahead \subseteq AheadPast(past) \union {x}
      /\ \A a \in AheadPast(past) : Before(x, a)
      /\ LevelInv(past, listings, refusals, failures)
  BY <1>1, <1>2, NextItem
<1>4. /\ ListsType(listings) /\ rows \in Seq(Seq(Nat))
      /\ OuterInv(Outer, listings, refusals, failures, Top.dir)
      /\ HistoryInv(on_error, rows, Ahead, listings, refusals, failures, {})
  BY <1>3, ReadFacts
<1>5. item.place \in Nat
  BY <1>3 DEF ItemType
<1>6. /\ Active' /\ ~Scanning' /\ ~Unlisted' /\ Unread' = {} /\ Lost' = {}
  BY <1>1, <1>3 DEF Active, Scanning, Unlisted, Unread, Lost
<1>7. Outer' = Outer /\ Inner' = past /\ Cur' = Top.dir
  BY <1>1, <1>2, <1>3, <1>6 DEF Outer, Inner, Top, Cur
<1>8. Ahead' = AheadPast(past)
  BY <1>1, <1>2, <1>3, <1>6, <1>7 DEF Ahead, AheadPast
<1> HIDE DEF item
<1>9. /\ on_error = "Fail" => x \notin failures
      /\ \/ rows' = Append(rows, x) /\ Goes(x, listings, refusals, failures)
         \/ rows' = rows /\ ~Goes(x, listings, refusals, failures)
  <2>1. Goes(x, listings, refusals, failures)
           <=> /\ item.place \in DOMAIN listings[Top.dir]
               /\ listings[Top.dir][item.place] # "special" /\ x \notin refusals \union failures
    BY <1>3, <1>4, <1>5, GoesFacts
  <2>2. CASE item.kind = "file" /\ rows' = Append(rows, ItemPath(Top.dir, item))
    <3>1. item.place > 0
      BY <1>3, <1>5, <2>2
    <3>2. ItemPath(Top.dir, item) = x
      BY <3>1 DEF ItemPath
    <3>3. QED
      BY <1>3, <2>1, <2>2, <3>1, <3>2 DEF ItemInv
  <2>3. CASE item.kind = "special" /\ rows' = rows
    BY <1>3, <2>1, <2>3 DEF ItemInv
  <2>4. CASE item.kind = "failed" /\ on_error = "Skip" /\ rows' = rows
    BY <1>3, <2>1, <2>4 DEF ItemInv
  <2>5. QED
    BY <1>1, <2>2, <2>3, <2>4
<1> HIDE DEF x
<1>10. HistoryInv(on_error, rows', Ahead', listings, refusals, failures, {})
  BY <1>3, <1>4, <1>8, <1>9, HistoryVisits
<1>11. WindowInv' /\ UnlistedInv'
  BY <1>6 DEF WindowInv, UnlistedInv
<1>12. QED
  BY <1>1, <1>3, <1>4, <1>6, <1>7, <1>10, <1>11 DEF ReadInv

LEMMA VisitDirectoryRead == BaseInv /\ ReadInv /\ VisitDirectory => ReadInv'
<1> SUFFICES ASSUME BaseInv, ReadInv, VisitDirectory
             PROVE  ReadInv'
  OBVIOUS
<1> DEFINE item == Head(Top.items)
           job == Head(Top.subdirs)
           x == Append(Top.dir, item.place)
           within == Within(Top)
<1>1. /\ Visiting /\ item.kind = "directory" /\ item.place \in Nat \ {0}
      /\ x \in Seq(Nat) /\ Take(x, job) /\ rows' = Append(rows, x)
      /\ job \in JobType /\ job.start = 0
      /\ within \in LevelType /\ within.dir = Top.dir /\ within.rest = Top.rest
      /\ within.items = Tail(Top.items)
      /\ stack' = Append(Front(stack), within)
      /\ UNCHANGED <<on_error, listings, refusals, failures>>
  BY VisitDirectoryFacts
<1> HIDE DEF within
<1>2. /\ pc = "walk" /\ Active /\ ~Scanning /\ Lost = {} /\ Cur = Top.dir
      /\ Outer = Front(stack) /\ Inner = Top
      /\ Top.dir \in DOMAIN listings /\ Top.dir \in Seq(Nat)
      /\ ItemInv(Top.dir, item, listings[Top.dir], refusals, failures)
      /\ x \in Ahead
      /\ AheadPast(within) \subseteq Ahead /\ Ahead \subseteq AheadPast(within) \union {x}
      /\ \A a \in AheadPast(within) : Before(x, a)
      /\ \A q \in AheadIn(within, listings[Top.dir]) : item.place < q
      /\ LevelInv(within, listings, refusals, failures)
  BY <1>1, NextItem
<1>3. /\ ListsType(listings) /\ rows \in Seq(Seq(Nat))
      /\ Outer \in Seq(LevelType) /\ Len(Top.dir) = Len(Outer)
      /\ OuterInv(Outer, listings, refusals, failures, Top.dir)
      /\ HistoryInv(on_error, rows, Ahead, listings, refusals, failures, {})
  BY <1>2, ReadFacts
<1>4. /\ scan'.path = x /\ scan'.job = job /\ scan'.place = job.start
      /\ scan'.items = <<>> /\ scan'.rest = <<>> /\ ~scan'.unreadable /\ pc' = "fill"
  BY <1>1, NewScanFacts DEF Take
<1> HIDE DEF job
<1>5. /\ Active' /\ Scanning' /\ First' /\ Unread' = {} /\ Lost' = {}
  BY <1>1, <1>4 DEF Active, Scanning, First, Unread, Lost
<1>6. /\ Outer' = stack' /\ Inner'.dir = x /\ Inner'.items = <<>> /\ Inner'.rest = <<>>
      /\ Cur' = x
  BY <1>4, <1>5 DEF Outer, Inner, Cur
<1> HIDE DEF item
<1>7. Goes(x, listings, refusals, failures) /\ x \notin failures
  <2>1. Goes(x, listings, refusals, failures)
           <=> /\ item.place \in DOMAIN listings[Top.dir]
               /\ listings[Top.dir][item.place] # "special" /\ x \notin refusals \union failures
    BY <1>1, <1>2, <1>3, GoesFacts
  <2>2. QED
    BY <1>1, <1>2, <2>1 DEF ItemInv
<1>8. /\ x # <<>> /\ \A r \in Seq(Nat) : Before(r, x) => r # x /\ Before(r, Append(x, 0))
      /\ Before(x, Append(x, 0))
  <2>1. x # <<>>
    <3> DEFINE dir == Top.dir
               place == item.place
    <3>1. dir \in Seq(Nat) /\ place \in Nat
      BY <1>1, <1>2
    <3> HIDE DEF dir, place
    <3>2. Append(dir, place) # <<>>
      BY <3>1, PathFacts
    <3>3. QED
      BY <3>2 DEF dir, place
  <2>2. Before(x, Append(x, 0)) /\ Append(x, 0) \in Seq(Nat)
    <3>1. x \in Seq(Nat)
      BY <1>1, <1>2, PathFacts
    <3> HIDE DEF x
    <3>2. QED
      BY <3>1, EntriesInOrder, PathFacts
  <2> HIDE DEF x
  <2>3. \A r \in Seq(Nat) : Before(r, x) => r # x /\ Before(r, Append(x, 0))
    BY <1>1, <2>2, BeforeIsNot, BeforeTransitive
  <2>4. QED
    BY <2>1, <2>2, <2>3
<1>9. /\ OuterInv(stack', listings, refusals, failures, x)
      /\ AheadOf(stack', listings) = AheadPast(within)
  <2>1. /\ Outer \in Seq(LevelType) /\ within \in LevelType /\ Len(within.dir) = Len(Outer)
        /\ OuterInv(Outer, listings, refusals, failures, within.dir)
        /\ LevelInv(within, listings, refusals, failures) /\ within.dir \in DOMAIN listings
        /\ item.place \in Nat /\ \A q \in AheadIn(within, listings[within.dir]) : item.place < q
    BY <1>1, <1>2, <1>3
  <2>2. /\ OuterInv(Append(Outer, within), listings, refusals, failures, Append(within.dir, item.place))
        /\ AheadOf(Append(Outer, within), listings)
               = AheadOf(Outer, listings) \union AheadAt(within, listings[within.dir], {})
    BY <2>1, OuterGrows
  <2>3. QED
    BY <1>1, <1>2, <2>2 DEF AheadPast
<1> HIDE DEF x
<1>10. Ahead' = AheadPast(within)
  <2>1. AheadAt(Inner', listings[x], Unread') = {}
    BY <1>5, <1>6 DEF AheadAt, AheadIn, Later
  <2>2. QED
    BY <1>1, <1>6, <1>9, <2>1 DEF Ahead
<1>11. HistoryInv(on_error, rows', Ahead', listings, refusals, failures, {})
  BY <1>1, <1>2, <1>3, <1>7, <1>10, HistoryVisits
<1>12. LevelInv(Inner', listings, refusals, failures)
  BY <1>6, EmptySeq DEF LevelInv, RestInv, Later
<1>13. WindowInv'
  BY <1>4, <1>5 DEF WindowInv
<1>14. UnlistedInv'
  <2>1. ToSet(rows') = ToSet(rows) \union {x} /\ ToSet(rows) \subseteq Seq(Nat)
    BY <1>1, <1>3, ToSetAppend
  <2>2. \A r \in ToSet(rows) : Before(r, x)
    BY <1>2, <1>3 DEF HistoryInv, RowsInv
  <2>3. x \notin DOMAIN listings
    <3>1. \A dir \in DOMAIN listings : dir = <<>> \/ dir \in ToSet(rows)
      BY <1>3 DEF HistoryInv, ListsInv
    <3>2. QED
      BY <1>8, <2>1, <2>2, <3>1
  <2>4. x \in ToSet(rows') /\ \A r \in ToSet(rows') : Before(r, Append(x, 0))
    BY <1>8, <2>1, <2>2
  <2>5. QED
    BY <1>1, <1>4, <2>3, <2>4 DEF UnlistedInv
<1>15. QED
  BY <1>1, <1>5, <1>6, <1>9, <1>11, <1>12, <1>13, <1>14 DEF ReadInv

-----------------------------------------------------------------------------
(* The walk reads on, leaves a directory, and starts.                      *)

LEMMA ReadOnRead == BaseInv /\ ReadInv /\ ReadOn => ReadInv'
<1> SUFFICES ASSUME BaseInv, ReadInv, ReadOn
             PROVE  ReadInv'
  OBVIOUS
<1> DEFINE job == Head(Top.rest)
           left == Tail(Top.rest)
           listing == listings[Top.dir]
           start == job.start
           n == Len(Top.rest)
<1>1. /\ pc = "walk" /\ stack # <<>> /\ Top.items = <<>> /\ Top.rest # <<>>
      /\ Take(Top.dir, job)
      /\ Top.dir \in Seq(Nat) /\ Top.dir \in DOMAIN listings
      /\ job = Top.rest[1] /\ job \in JobType /\ job.of = Top.dir
      /\ start \in 1..Len(listing) /\ start > 0
      /\ Front(stack') = Front(stack) /\ Last(stack').rest = left
      /\ left \in Seq(JobType) /\ Top.rest \in Seq(JobType)
      /\ Len(left) = n - 1 /\ n \in Nat \ {0}
      /\ \A m \in 1..(n - 1) : left[m] = Top.rest[m + 1]
      /\ UNCHANGED <<on_error, listings, rows, refusals, failures>>
  BY ReadOnFacts
<1>2. /\ Active /\ ~Scanning /\ Lost = {} /\ Unread = {} /\ Cur = Top.dir
      /\ Outer = Front(stack) /\ Inner = Top
  <2>1. scan = NoScan /\ Outer = Front(stack) /\ Inner = Top
    BY <1>1, WalkFacts
  <2>2. QED
    BY <1>1, <2>1, NoScanFacts DEF Active, Scanning, Lost, Unread, Cur
<1>3. /\ ListsType(listings)
      /\ OuterInv(Outer, listings, refusals, failures, Top.dir)
      /\ LevelInv(Top, listings, refusals, failures)
      /\ HistoryInv(on_error, rows, Ahead, listings, refusals, failures, {})
  BY <1>2, ReadFacts
<1>4. /\ scan'.path = Top.dir /\ scan'.job = job /\ scan'.place = start
      /\ scan'.items = <<>> /\ ~scan'.unreadable /\ pc' = "fill"
  BY <1>1, NewScanFacts DEF Take
<1>5. /\ Active' /\ Scanning' /\ ~First' /\ ~Unlisted' /\ Lost' = {}
      /\ Listing' = listing /\ Unread' = (start + 1)..WindowEnd(listing, start)
  BY <1>1, <1>4 DEF Active, Scanning, First, Unlisted, Unread, Lost, Listing
<1>6. /\ Outer' = Outer /\ Inner'.dir = Top.dir /\ Inner'.items = <<>> /\ Inner'.rest = left
      /\ Cur' = Top.dir
  BY <1>1, <1>2, <1>4, <1>5 DEF Outer, Inner, Cur, Top
<1>7. /\ listing \in Seq(Kinds) /\ Len(listing) \in Nat /\ DOMAIN Top.rest = 1..n
      /\ DOMAIN left = 1..(n - 1) /\ start \in Nat
  BY <1>1, <1>3, LenProperties DEF ListsType, JobType
<1>8. \A m \in 1..n :
          /\ Top.rest[m].start \in 1..(Len(listing) - 1)
          /\ WindowEnd(listing, Top.rest[m].start)
                 = IF m < n THEN Top.rest[m + 1].start ELSE Len(listing)
  BY <1>3, <1>7 DEF LevelInv, RestInv
<1>9. \A p \in Later(Top, listing) : Append(Top.dir, p) \notin refusals \union failures
  BY <1>3 DEF LevelInv
<1>10. /\ Later(Top, listing) = (start + 1)..Len(listing)
       /\ AheadIn(Top, listing) = Later(Top, listing)
       /\ AheadIn(Inner', listing) = Later(Inner', listing)
       /\ Later(Inner', listing)
              = IF left = <<>> THEN {} ELSE (left[1].start + 1)..Len(listing)
       /\ ReadTo(Inner', listing) = IF left = <<>> THEN Len(listing) ELSE left[1].start
  BY <1>1, <1>6 DEF Later, AheadIn, ReadTo
<1> HIDE DEF listing, left, start, n
<1> DEFINE end == WindowEnd(listing, start)
<1>11. end \in start..Len(listing)
  <2>1. start \in 0..Len(listing)
    BY <1>1, <1>7
  <2>2. QED
    BY <1>7, <2>1, WindowEndFacts
<1>12. /\ left = <<>> <=> n = 1
       /\ end = IF left = <<>> THEN Len(listing) ELSE left[1].start
  <2>1. left = <<>> <=> n = 1
    <3>1. left = <<>> => Len(left) = 0
      BY EmptySeq
    <3>2. left # <<>> => Len(left) \in Nat \ {0}
      BY <1>1, EmptySeq
    <3>3. QED
      BY <1>1, <3>1, <3>2
  <2>2. 1 \in 1..n /\ Top.rest[1].start = start
    BY <1>1 DEF start
  <2>3. end = IF 1 < n THEN Top.rest[1 + 1].start ELSE Len(listing)
    BY <1>8, <2>2
  <2>4. 1 < n => left[1] = Top.rest[1 + 1]
    BY <1>1
  <2>5. QED
    BY <1>1, <2>1, <2>3, <2>4
<1>13. left # <<>> => left[1].start \in 1..(Len(listing) - 1)
  <2>1. left # <<>> => 1 + 1 \in 1..n /\ left[1] = Top.rest[1 + 1]
    BY <1>1, <1>12
  <2>2. QED
    BY <1>8, <2>1
<1> HIDE DEF end
<1>14. /\ Unread' \union Later(Inner', listing) = Later(Top, listing)
  <2>1. Unread' = (start + 1)..end
    BY <1>5 DEF end
  <2>2. CASE left = <<>>
    BY <1>10, <1>12, <2>1, <2>2
  <2>3. CASE left # <<>>
    <3>1. /\ end = left[1].start /\ end \in Nat
          /\ Later(Inner', listing) = (end + 1)..Len(listing)
      BY <1>10, <1>12, <1>13, <2>3
    <3>2. (start + 1)..end \union (end + 1)..Len(listing) = (start + 1)..Len(listing)
      BY <1>7, <1>11, <3>1
    <3>3. QED
      BY <1>10, <2>1, <3>1, <3>2
  <2>4. QED
    BY <2>2, <2>3
<1>15. Ahead' = Ahead
  <2>1. AheadAt(Inner', listing, Unread') = AheadAt(Top, listing, {})
    BY <1>6, <1>10, <1>14 DEF AheadAt
  <2>2. QED
    BY <1>1, <1>2, <1>6, <2>1 DEF Ahead, listing
<1>16. LevelInv(Inner', listings, refusals, failures)
  <2>1. RestInv(left, listing)
    <3> SUFFICES ASSUME NEW m \in 1..(n - 1)
                 PROVE  /\ left[m].start \in 1..(Len(listing) - 1)
                        /\ WindowEnd(listing, left[m].start)
                               = IF m < n - 1 THEN left[m + 1].start ELSE Len(listing)
      BY <1>1, <1>7 DEF RestInv
    <3>1. m + 1 \in 1..n /\ left[m] = Top.rest[m + 1] /\ (m + 1 < n <=> m < n - 1)
      BY <1>1
    <3>2. m < n - 1 => left[m + 1] = Top.rest[(m + 1) + 1]
      BY <1>1
    <3>3. QED
      BY <1>8, <3>1, <3>2
  <2>2. \A p \in Later(Inner', listing) : Append(Top.dir, p) \notin refusals \union failures
    BY <1>9, <1>14
  <2>3. QED
    BY <1>6, <2>1, <2>2, EmptySeq DEF LevelInv, listing
<1>17. WindowInv'
  <2>1. \A p \in Unread' : Append(scan'.path, p) \notin refusals' \union failures'
    BY <1>1, <1>4, <1>9, <1>14
  <2>2. WindowEnd(Listing', scan'.place) = ReadTo(Inner', Listing')
    BY <1>4, <1>5, <1>10, <1>12 DEF end
  <2>3. pc' = "fill" /\ ~scan'.unreadable
    BY <1>4
  <2>4. QED
    BY <2>1, <2>2, <2>3 DEF WindowInv
<1>18. UnlistedInv'
  BY <1>5 DEF UnlistedInv
<1>19. QED
  BY <1>1, <1>2, <1>3, <1>5, <1>6, <1>15, <1>16, <1>17, <1>18 DEF ReadInv

LEMMA LeaveRead == BaseInv /\ ReadInv /\ Leave => ReadInv'
<1> SUFFICES ASSUME BaseInv, ReadInv, Leave
             PROVE  ReadInv'
  OBVIOUS
<1>1. /\ pc = "walk" /\ stack # <<>> /\ Top.items = <<>> /\ Top.rest = <<>>
      /\ stack' = Front(stack) /\ pc' = IF Len(stack) = 1 THEN "done" ELSE "walk"
      /\ UNCHANGED <<on_error, scan, listings, rows, refusals, failures>>
  BY DEF Leave, UsedUp, history
<1>2. CASE Len(stack) = 1
  BY <1>1, <1>2 DEF ReadInv, Active
<1>3. CASE Len(stack) # 1
  <2>1. /\ scan = NoScan /\ Outer = Front(stack) /\ Inner = Top
        /\ Len(Front(stack)) = Len(stack) - 1 /\ Len(stack) \in Nat
    BY <1>1, WalkFacts
  <2>2. /\ Active /\ ~Scanning /\ Lost = {} /\ Unread = {} /\ Cur = Top.dir
    BY <1>1, <2>1, NoScanFacts DEF Active, Scanning, Lost, Unread, Cur
  <2>3. /\ Outer \in Seq(LevelType)
        /\ Len(Top.dir) = Len(Outer)
        /\ \A k \in DOMAIN Outer : Len(Outer[k].dir) = k - 1
        /\ OuterInv(Outer, listings, refusals, failures, Top.dir)
        /\ HistoryInv(on_error, rows, Ahead, listings, refusals, failures, {})
    BY <2>1, <2>2, ReadFacts
  <2> DEFINE levels == Front(Outer)
             level == Last(Outer)
  <2>4. Outer # <<>>
    <3>1. Len(stack) - 1 # 0
      BY <1>3, <2>1
    <3>2. QED
      BY <2>1, <3>1, EmptySeq
  <2>5. /\ levels \in Seq(LevelType) /\ level \in LevelType /\ Outer = Append(levels, level)
        /\ Len(levels) = Len(Outer) - 1 /\ level = Outer[Len(Outer)]
    BY <2>3, <2>4, FrontAndLast
  <2>6. Len(level.dir) = Len(levels)
    <3>1. Len(Outer) \in DOMAIN Outer
      BY <2>3, <2>4, EmptySeq, LenProperties
    <3>2. QED
      BY <2>3, <2>5, <3>1
  <2>7. /\ Active' /\ ~Scanning' /\ ~Unlisted' /\ Unread' = {} /\ Lost' = {}
    BY <1>1, <1>3, <2>2 DEF Active, Scanning, Unlisted, Unread, Lost
  <2>8. Outer' = levels /\ Inner' = level /\ Cur' = level.dir
    BY <1>1, <2>1, <2>7 DEF Outer, Inner, Cur, Top
  <2> HIDE DEF levels, level
  <2>9. OuterInv(levels, listings, refusals, failures, level.dir)
        /\ LevelInv(level, listings, refusals, failures)
    BY <2>3, <2>5, <2>6, OuterLeaves
  <2>10. Ahead' = Ahead
    <3>1. AheadOf(Outer, listings)
              = AheadOf(levels, listings) \union AheadAt(level, listings[level.dir], {})
      BY <2>5, AheadOfAppend
    <3>2. AheadAt(Top, listings[Top.dir], {}) = {}
      BY <1>1 DEF AheadAt, AheadIn, Later
    <3>3. QED
      BY <1>1, <2>1, <2>2, <2>7, <2>8, <3>1, <3>2 DEF Ahead
  <2>11. WindowInv' /\ UnlistedInv'
    BY <2>7 DEF WindowInv, UnlistedInv
  <2>12. QED
    BY <1>1, <2>3, <2>7, <2>8, <2>9, <2>10, <2>11 DEF ReadInv
<1>4. QED
  BY <1>2, <1>3

LEMMA StartRead == BaseInv /\ Start => ReadInv'
<1> SUFFICES ASSUME BaseInv, Start
             PROVE  ReadInv'
  OBVIOUS
<1>1. /\ stack = <<>> /\ rows = <<>> /\ DOMAIN listings = {} /\ refusals = {} /\ failures = {}
      /\ Take(<<>>, Root)
      /\ UNCHANGED <<on_error, stack, listings, rows, refusals, failures>>
  BY DEF Start, BaseInv, PhaseInv
<1>2. Root \in JobType /\ Root.start = 0 /\ <<>> \in Seq(Nat)
  BY EmptySeq DEF Root, DirectoryJob, JobType
<1>3. /\ scan'.path = <<>> /\ scan'.job = Root /\ scan'.items = <<>> /\ scan'.rest = <<>>
      /\ ~scan'.unreadable /\ pc' = "fill"
  BY <1>1, <1>2, NewScanFacts DEF Take
<1>4. Active' /\ Scanning' /\ First' /\ Unread' = {} /\ Lost' = {}
  BY <1>2, <1>3 DEF Active, Scanning, First, Unread, Lost
<1>5. Outer' = <<>> /\ Inner'.dir = <<>> /\ Inner'.items = <<>> /\ Inner'.rest = <<>>
      /\ Cur' = <<>>
  BY <1>1, <1>3, <1>4 DEF Outer, Inner, Cur
<1>6. DOMAIN <<>> = {} /\ ToSet(<<>>) = {}
  BY EmptySeq DEF ToSet
<1>7. Ahead' = {}
  <2>1. AheadOf(<<>>, listings') = {}
    BY <1>6 DEF AheadOf
  <2>2. AheadAt(Inner', listings'[<<>>], {}) = {}
    BY <1>5, <1>6 DEF AheadAt, AheadIn, Later
  <2>3. QED
    BY <1>4, <1>5, <2>1, <2>2 DEF Ahead
<1>8. LevelInv(Inner', listings', refusals', failures')
  BY <1>5, <1>6 DEF LevelInv, RestInv, Later
<1>9. OuterInv(Outer', listings', refusals', failures', Cur')
  BY <1>5, <1>6 DEF OuterInv
<1>10. HistoryInv(on_error', rows', Ahead', listings', refusals', failures', Lost')
  BY <1>1, <1>6, <1>7 DEF HistoryInv, RowsInv, ListsInv, GoesInv, FailInv
<1>11. WindowInv'
  BY <1>2, <1>3, <1>4 DEF WindowInv
<1>12. UnlistedInv'
  BY <1>1, <1>3, <1>6 DEF UnlistedInv
<1>13. QED
  BY <1>8, <1>9, <1>10, <1>11, <1>12 DEF ReadInv

-----------------------------------------------------------------------------
(* The walk ends.                                                          *)

\* The walk ends with what RowsUpToFirstFailure says of the rows.
LEMMA RowsAtEnd ==
    ASSUME pc' = "done" \/ pc' = "error",
           UNCHANGED <<rows, listings, refusals, failures>>,
           RowsInv(rows, Ahead, listings, refusals, failures),
           ToSet(rows) = {path \in EntriesOf(listings) :
                              /\ Goes(path, listings, refusals, failures)
                              /\ pc' = "error" => Before(path, failed')},
           pc' = "error" => failed' \in failures /\ \A f \in failures : ~Before(f, failed')
    PROVE  RowsUpToFirstFailure'
<1>1. \A k, l \in DOMAIN rows : k < l => Before(rows[k], rows[l])
  BY DEF RowsInv
<1>2. Listed' = EntriesOf(listings)
  BY DEF Listed, EntriesOf
<1>3. \A path \in EntriesOf(listings) : Kept(path)' <=> Goes(path, listings, refusals, failures)
  BY DEF Kept, KindOf, Goes
<1>4. ToSet(rows') = {path \in Listed' : Kept(path)' /\ (pc' = "error" => Before(path, failed'))}
  BY <1>2, <1>3
<1>5. QED
  BY <1>1, <1>4 DEF RowsUpToFirstFailure

LEMMA LeaveRows == BaseInv /\ ReadInv /\ Leave => RowsUpToFirstFailure'
<1> SUFFICES ASSUME BaseInv, ReadInv, Leave
             PROVE  RowsUpToFirstFailure'
  OBVIOUS
<1>1. /\ pc = "walk" /\ stack # <<>> /\ Top.items = <<>> /\ Top.rest = <<>>
      /\ pc' = IF Len(stack) = 1 THEN "done" ELSE "walk"
      /\ UNCHANGED <<on_error, rows, listings, refusals, failures>>
  BY DEF Leave, UsedUp, history
<1>2. CASE Len(stack) # 1
  BY <1>1, <1>2 DEF RowsUpToFirstFailure
<1>3. CASE Len(stack) = 1
  <2>1. /\ scan = NoScan /\ Outer = Front(stack) /\ Inner = Top
        /\ Front(stack) \in Seq(LevelType) /\ Len(Front(stack)) = Len(stack) - 1
    BY <1>1, WalkFacts
  <2>2. /\ Active /\ Lost = {} /\ Unread = {} /\ Cur = Top.dir
    BY <1>1, <2>1, NoScanFacts DEF Active, Lost, Unread, Cur
  <2>3. DOMAIN Outer = {}
    BY <1>3, <2>1, LenProperties
  <2>4. Ahead = {}
    <3>1. AheadOf(Outer, listings) = {}
      BY <2>3 DEF AheadOf
    <3>2. AheadAt(Top, listings[Top.dir], {}) = {}
      BY <1>1 DEF AheadAt, AheadIn, Later
    <3>3. QED
      BY <2>1, <2>2, <3>1, <3>2 DEF Ahead
  <2>5. /\ ListsType(listings)
        /\ HistoryInv(on_error, rows, {}, listings, refusals, failures, {})
    BY <2>2, <2>4, ReadFacts
  <2>6. ToSet(rows) = {path \in EntriesOf(listings) : Goes(path, listings, refusals, failures)}
    BY <2>5, HistoryEnds
  <2>7. RowsInv(rows, Ahead, listings, refusals, failures)
    BY <2>4, <2>5 DEF HistoryInv
  <2>8. QED
    BY <1>1, <1>3, <2>6, <2>7, RowsAtEnd
<1>4. QED
  BY <1>2, <1>3

LEMMA ScanFailsRows == BaseInv /\ ReadInv /\ ScanFails => RowsUpToFirstFailure'
<1> SUFFICES ASSUME BaseInv, ReadInv, ScanFails
             PROVE  RowsUpToFirstFailure'
  OBVIOUS
<1> DEFINE x == Append(scan.path, 0)
<1>1. /\ pc = "report" /\ scan.unreadable /\ (scan.path = <<>> \/ on_error = "Fail")
      /\ pc' = "error" /\ failed' = x
      /\ UNCHANGED <<on_error, rows, listings, refusals, failures>>
  BY DEF ScanFails, FailOn
<1>2. TypeOK /\ PhaseInv
  BY DEF BaseInv
<1>3. /\ Active /\ Scanning /\ First /\ Unlisted /\ Lost = {x} /\ Unread = {}
      /\ scan.items = <<>>
  BY <1>1, <1>2 DEF Active, Scanning, PhaseInv, Unlisted, Lost, Unread
<1>4. /\ Inner.dir = scan.path /\ Inner.items = <<>> /\ Cur = scan.path /\ Outer = stack
  BY <1>3, InnerScan DEF Cur, Outer
<1>5. /\ Outer \in Seq(LevelType) /\ Len(scan.path) = Len(Outer) /\ scan.path \in Seq(Nat)
      /\ \A k \in DOMAIN Outer : Len(Outer[k].dir) = k - 1
      /\ ListsType(listings) /\ rows \in Seq(Seq(Nat))
      /\ Inner.rest # <<>> => scan.path \in DOMAIN listings
      /\ WindowInv /\ UnlistedInv
      /\ OuterInv(Outer, listings, refusals, failures, scan.path)
      /\ HistoryInv(on_error, rows, Ahead, listings, refusals, failures, Lost)
  BY <1>3, <1>4, ReadFacts
<1>6. /\ scan.path \notin DOMAIN listings /\ \A r \in ToSet(rows) : Before(r, x)
      /\ x \in failures
  BY <1>1, <1>3, <1>5 DEF UnlistedInv, WindowInv
<1>7. Ahead = AheadOf(Outer, listings)
  <2>1. Inner.rest = <<>>
    BY <1>5, <1>6
  <2>2. AheadAt(Inner, listings[Cur], Unread) = {}
    BY <1>3, <1>4, <2>1 DEF AheadAt, AheadIn, Later
  <2>3. QED
    BY <2>2 DEF Ahead
<1>8. \A a \in Ahead : a \in Seq(Nat) /\ Before(x, a)
  <2> SUFFICES ASSUME NEW a \in AheadOf(Outer, listings)
               PROVE  a \in Seq(Nat) /\ Before(x, a)
    BY <1>7
  <2>1. a \in Seq(Nat) /\ \A p \in Nat : Before(Append(scan.path, p), a)
    BY <1>5, OuterComesAfter
  <2>2. QED
    BY <2>1
<1>9. x \in Seq(Nat)
  BY <1>5, PathFacts
<1> HIDE DEF x
<1>10. /\ ToSet(rows) = GoneBefore(x, listings, refusals, failures)
       /\ on_error = "Fail" => \A f \in failures : ~Before(f, x)
  <2>1. /\ Ahead \subseteq Seq(Nat) /\ Lost \subseteq {x}
        /\ \A a \in Ahead : a = x \/ Before(x, a)
    BY <1>3, <1>8
  <2>2. QED
    BY <1>5, <1>6, <1>9, <2>1, HistoryStops
<1>11. \A f \in failures : ~Before(f, x)
  <2>1. CASE on_error = "Fail"
    BY <1>10, <2>1
  <2>2. CASE scan.path = <<>>
    <3> SUFFICES ASSUME NEW f \in failures
                 PROVE  ~Before(f, Append(<<>>, 0))
      BY <2>2 DEF x
    <3>1. f \in Seq(Nat)
      BY <1>2 DEF TypeOK
    <3>2. f \in EntriesOf(listings) \/ f # <<>>
      BY <1>5 DEF HistoryInv, ListsInv
    <3>3. f # <<>>
      BY <1>5, <3>2, EntryFacts
    <3>4. QED
      BY <3>1, <3>3, RootIsFirst
  <2>3. QED
    BY <1>1, <2>1, <2>2
<1>12. RowsInv(rows, Ahead, listings, refusals, failures)
  BY <1>5 DEF HistoryInv
<1>13. QED
  BY <1>1, <1>6, <1>10, <1>11, <1>12, RowsAtEnd DEF GoneBefore

LEMMA VisitFailedRows == BaseInv /\ ReadInv /\ VisitFailed => RowsUpToFirstFailure'
<1> SUFFICES ASSUME BaseInv, ReadInv, VisitFailed
             PROVE  RowsUpToFirstFailure'
  OBVIOUS
<1> DEFINE item == Head(Top.items)
           x == Append(Top.dir, item.place)
           past == Past(Top)
<1>1. /\ Visiting /\ item.kind = "failed" /\ on_error = "Fail"
      /\ pc' = "error" /\ failed' = x
      /\ UNCHANGED <<on_error, rows, listings, refusals, failures>>
  BY DEF VisitFailed, FailOn, history
<1>2. /\ past \in LevelType /\ past.dir = Top.dir /\ past.rest = Top.rest
      /\ past.items = Tail(Top.items)
  BY <1>1, VisitFacts
<1> HIDE DEF past
<1>3. /\ Active /\ Lost = {} /\ x \in Seq(Nat)
      /\ ItemInv(Top.dir, item, listings[Top.dir], refusals, failures)
      /\ x \in Ahead /\ Ahead \subseteq Seq(Nat)
      /\ Ahead \subseteq AheadPast(past) \union {x}
      /\ \A a \in AheadPast(past) : Before(x, a)
  BY <1>1, <1>2, NextItem
<1>4. /\ ListsType(listings) /\ rows \in Seq(Seq(Nat))
      /\ HistoryInv(on_error, rows, Ahead, listings, refusals, failures, {})
  BY <1>3, ReadFacts
<1>5. x \in failures
  BY <1>1, <1>3 DEF ItemInv
<1>6. RowsInv(rows, Ahead, listings, refusals, failures)
  BY <1>4 DEF HistoryInv
<1> HIDE DEF x, item
<1>7. /\ ToSet(rows) = GoneBefore(x, listings, refusals, failures)
      /\ on_error = "Fail" => \A f \in failures : ~Before(f, x)
  <2>1. /\ \A a \in Ahead : a = x \/ Before(x, a)
        /\ \A r \in ToSet(rows) : Before(r, x)
    BY <1>3, <1>6 DEF RowsInv
  <2>2. Lost \subseteq {x}
    BY <1>3
  <2>3. /\ rows \in Seq(Seq(Nat)) /\ Ahead \subseteq Seq(Nat) /\ ListsType(listings)
        /\ HistoryInv(on_error, rows, Ahead, listings, refusals, failures, Lost)
        /\ x \in Seq(Nat) /\ x \in failures
    BY <1>3, <1>4, <1>5
  <2>4. QED
    BY <2>1, <2>2, <2>3, HistoryStops
<1>8. QED
  BY <1>1, <1>5, <1>6, <1>7, RowsAtEnd DEF GoneBefore

-----------------------------------------------------------------------------
(* The inductive invariant.                                                *)

LEMMA ReadStep == BaseInv /\ ReadInv /\ Next => ReadInv'
<1> SUFFICES ASSUME BaseInv, ReadInv, Next
             PROVE  ReadInv'
  OBVIOUS
<1>1. CASE Fill
  BY <1>1, FillRefusedRead, FillOpenedRead, FillRestRead, OpenRead, OpenStarvedRead, ListRead
     DEF Fill
<1>2. CASE Cancelled \/ VisitFailed \/ ScanFails
  BY <1>2 DEF Cancelled, VisitFailed, ScanFails, FailOn, ReadInv, Active
<1>3. CASE Visit
  BY <1>2, <1>3, VisitRowRead, VisitDirectoryRead DEF Visit
<1>4. CASE Terminating
  BY <1>4 DEF Terminating, vars, ReadInv, Active
<1>5. QED
  BY <1>1, <1>2, <1>3, <1>4, StartRead, EntriesRead, ReportRead, ReadOnRead, LeaveRead
     DEF Next, Step

LEMMA ReadStutter == ReadInv /\ UNCHANGED vars => ReadInv'
  BY DEF vars, history, ReadInv, Active, WindowInv, Scanning, First, Listing, Inner, Outer, Top,
         Unread, UnlistedInv, Unlisted, Cur, Ahead, Lost

LEMMA RowsStep == BaseInv /\ ReadInv /\ RowsUpToFirstFailure /\ [Next]_vars => RowsUpToFirstFailure'
<1> SUFFICES ASSUME BaseInv, ReadInv, RowsUpToFirstFailure, [Next]_vars
             PROVE  RowsUpToFirstFailure'
  OBVIOUS
<1>1. CASE UNCHANGED vars
  BY <1>1 DEF vars, history, RowsUpToFirstFailure, Listed, Kept, KindOf
<1>2. CASE Start \/ Report \/ ReadOn \/ VisitDirectory \/ VisitFile \/ VisitSkipped
  <2>1. pc' \in {"fill", "walk"}
    BY <1>2 DEF Start, Report, ReadOn, VisitDirectory, VisitFile, VisitSkipped, Take, Visiting
  <2>2. QED
    BY <2>1 DEF RowsUpToFirstFailure
<1>3. CASE Fill
  <2>1. pc' \in {"fill", "list", "entries", "report"}
    BY <1>3 DEF Fill, FillRefused, FillOpened, FillRest, Open, Opens, OpenStarved, List,
                Unreadable, ListWhole, ListCut
  <2>2. QED
    BY <2>1 DEF RowsUpToFirstFailure
<1>4. CASE Entries
  <2>1. pc' \in {"entries", "report"}
    BY <1>4 DEF Entries, EntrySpecial, EntryRefused, EntryFile, EntryDirectory, EntriesEnd,
                FailedHere, Reading
  <2>2. QED
    BY <2>1 DEF RowsUpToFirstFailure
<1>5. CASE Cancelled
  <2>1. pc' = "error" /\ failed' = Nowhere
    BY <1>5 DEF Cancelled, FailOn
  <2>2. QED
    BY <2>1 DEF RowsUpToFirstFailure
<1>6. CASE Visit
  BY <1>2, <1>5, <1>6, VisitFailedRows DEF Visit
<1>7. QED
  BY <1>1, <1>2, <1>3, <1>4, <1>6, ScanFailsRows, LeaveRows DEF Next, Step, Terminating

LEMMA IInit == Init => IInv
  BY BaseInit DEF Init, IInv, ReadInv, Active, RowsUpToFirstFailure

LEMMA IStep == IInv /\ [Next]_vars => IInv'
  BY BaseStep, ReadStep, ReadStutter, RowsStep DEF IInv

\* Scanner::entries and walk/cut.rs: however the listings are cut into windows,
\* a finished walk has put in rows all that was listed and neither refused,
\* skipped nor failed, once and in walk order; and one that fails has done so up
\* to the first failure in walk order, which is the one it reports, whatever else
\* has failed in the windows read ahead of it.
THEOREM RowsAreAlwaysUpToFirstFailure == Spec => []RowsUpToFirstFailure
<1>1. Init => IInv
  BY IInit
<1>2. IInv /\ [Next]_vars => IInv'
  BY IStep
<1>3. IInv => RowsUpToFirstFailure
  BY DEF IInv
<1>4. QED
  BY <1>1, <1>2, <1>3, PTL DEF Spec

-----------------------------------------------------------------------------
(* What an item says to the receiver, and lists of calls.                  *)

\* The call that an item gives when it gives one.
Says(item) ==
    Call(IF item.kind \in {"file", "directory"} THEN "recorded" ELSE "skipped",
         ItemPath(scan.path, item))

LEMMA SaysFacts ==
    ASSUME NEW item \in ItemType, scan.path \in Seq(Nat), on_error \in {"Fail", "Skip"}
    PROVE  /\ Says(item) \in CallType
           /\ ~(item.kind = "failed" /\ on_error = "Fail") => CallsOf(item) = <<Says(item)>>
<1>1. item.place \in Nat /\ item.kind \in {"file", "directory", "special", "failed"}
  BY DEF ItemType, Kinds
<1>2. ItemPath(scan.path, item) \in Seq(Nat)
  BY <1>1 DEF ItemPath
<1>3. Says(item) \in CallType
  BY <1>2 DEF Says, CallType, Call
<1>4. CASE item.kind \in {"file", "directory"}
  BY <1>3, <1>4 DEF CallsOf, Says
<1>5. CASE item.kind \in {"special", "failed"}
  BY <1>3, <1>5 DEF CallsOf, Says
<1>6. QED
  BY <1>1, <1>3, <1>4, <1>5

\* One step of telling the items.
Tell(told, first, m) ==
    IF m = 0 THEN first ELSE told[m - 1] \o CallsOf(scan.items[m])

LEMMA TellExists ==
    ASSUME NEW first, Len(scan.items) \in Nat
    PROVE  \E told : told = [m \in 0..Len(scan.items) |-> Tell(told, first, m)]
<1> DEFINE N == Len(scan.items)
           S == {n \in 0..N : \E told : told = [m \in 0..n |-> Tell(told, first, m)]}
<1>1. N \in Nat
  OBVIOUS
<1> HIDE DEF N
<1>2. 0 \in S
  <2> DEFINE e == [m \in 0..0 |-> first]
  <2>1. \A m \in 0..0 : m = 0
    OBVIOUS
  <2>2. e = [m \in 0..0 |-> Tell(e, first, m)]
    BY <2>1 DEF Tell
  <2> HIDE DEF e
  <2>3. \E told : told = [m \in 0..0 |-> Tell(told, first, m)]
    BY <2>2
  <2>4. QED
    BY <1>1, <2>3
<1>3. ASSUME NEW n \in 0..(N - 1), n \in S
      PROVE  n + 1 \in S
  <2>1. PICK told : told = [m \in 0..n |-> Tell(told, first, m)]
    BY <1>3
  <2> DEFINE u == [m \in 0..(n + 1) |-> IF m = n + 1 THEN Tell(told, first, m) ELSE told[m]]
  <2>2. n \in Nat
    BY <1>1
  <2>3. ASSUME NEW m \in 0..(n + 1)
        PROVE  u[m] = Tell(u, first, m)
    <3>1. m # 0 => m - 1 \in 0..(n + 1) /\ m - 1 # n + 1
      BY <2>2
    <3>2. m # 0 => u[m - 1] = told[m - 1]
      BY <3>1
    <3>3. Tell(u, first, m) = Tell(told, first, m)
      <4> HIDE DEF u
      <4>1. QED
        BY <3>2 DEF Tell
    <3>4. CASE m = n + 1
      BY <3>3, <3>4
    <3>5. CASE m # n + 1
      <4>1. m \in 0..n
        BY <2>2, <3>5
      <4>2. told[m] = Tell(told, first, m)
        BY <2>1, <4>1
      <4>3. QED
        BY <3>3, <3>5, <4>2
    <3>6. QED
      BY <3>4, <3>5
  <2>4. u = [m \in 0..(n + 1) |-> u[m]]
    OBVIOUS
  <2> HIDE DEF u
  <2>5. u = [m \in 0..(n + 1) |-> Tell(u, first, m)]
    BY <2>3, <2>4
  <2>6. n + 1 \in 0..N
    BY <1>1
  <2>7. QED
    BY <2>5, <2>6
<1>4. \A n \in 0..N : n \in S
  <2> HIDE DEF S
  <2>1. QED
    BY <1>1, <1>2, <1>3, InductionUpTo
<1>5. QED
  BY <1>1, <1>4 DEF N

LEMMA OneMore ==
    ASSUME NEW T, NEW s \in Seq(T), NEW t \in Seq(T), NEW e \in T, Len(t) = Len(s) + 1,
           \A m \in 1..Len(s) : t[m] = s[m], t[Len(s) + 1] = e
    PROVE  t = s \o <<e>>
OBVIOUS

\* What the items say, in order.
Saying(items) == [m \in 1..Len(items) |-> Says(items[m])]

LEMMA ToldSays ==
    ASSUME NEW first \in Seq(CallType), scan.items \in Seq(ItemType),
           scan.path \in Seq(Nat), on_error \in {"Fail", "Skip"},
           \A m \in 1..Len(scan.items) : CallsOf(scan.items[m]) = <<Says(scan.items[m])>>
    PROVE  /\ Told(first) = first \o Saying(scan.items)
           /\ Saying(scan.items) \in Seq(CallType)
<1> DEFINE N == Len(scan.items)
           told == CHOOSE f : f = [m \in 0..N |-> Tell(f, first, m)]
           saying(n) == [m \in 1..n |-> Says(scan.items[m])]
           S == {n \in 0..N : told[n] = first \o saying(n)}
<1>1. N \in Nat /\ \A m \in 1..N : Says(scan.items[m]) \in CallType
  BY LenProperties, SaysFacts
<1>2. told = [m \in 0..N |-> Tell(told, first, m)]
  BY <1>1, TellExists
<1>3. Told(first) = told[N]
  BY DEF Told, Tell
<1> HIDE DEF N, told
<1>4. \A n \in 0..N : saying(n) \in Seq(CallType) /\ Len(saying(n)) = n
  BY <1>1
<1>5. 0 \in S
  <2>1. told[0] = first
    BY <1>1, <1>2 DEF Tell
  <2>2. saying(0) = <<>>
    OBVIOUS
  <2>3. first \o <<>> = first
    OBVIOUS
  <2>4. QED
    BY <1>1, <2>1, <2>2, <2>3
<1>6. ASSUME NEW n \in 0..(N - 1), n \in S
      PROVE  n + 1 \in S
  <2>1. n \in Nat /\ n + 1 \in 1..N /\ n + 1 \in 0..N /\ n \in 0..N /\ n + 1 # 0 /\ (n + 1) - 1 = n
    BY <1>1
  <2>2. told[n + 1] = told[n] \o CallsOf(scan.items[n + 1])
    BY <1>2, <2>1 DEF Tell
  <2> DEFINE say == Says(scan.items[n + 1])
  <2>3. told[n + 1] = (first \o saying(n)) \o <<say>>
    BY <1>6, <2>1, <2>2 DEF N
  <2>4. say \in CallType /\ saying(n) \in Seq(CallType) /\ Len(saying(n)) = n
        /\ saying(n + 1) \in Seq(CallType) /\ Len(saying(n + 1)) = n + 1
    BY <1>1, <1>4, <2>1
  <2>5. \A m \in 1..n : saying(n + 1)[m] = saying(n)[m]
    BY <2>1
  <2>6. saying(n + 1)[n + 1] = say
    BY <2>1
  <2> DEFINE s == saying(n)
             s1 == saying(n + 1)
  <2> HIDE DEF say, saying
  <2>7. s1 = s \o <<say>>
    <3>1. /\ s \in Seq(CallType) /\ s1 \in Seq(CallType) /\ Len(s1) = Len(s) + 1
          /\ \A m \in 1..Len(s) : s1[m] = s[m]
          /\ s1[Len(s) + 1] = say
      BY <2>4, <2>5, <2>6
    <3> HIDE DEF s, s1
    <3>2. QED
      BY <2>4, <3>1, OneMore
  <2> DEFINE one == <<say>>
  <2>8. one \in Seq(CallType) /\ s \in Seq(CallType)
    BY <2>4
  <2>9. (first \o s) \o one = first \o (s \o one)
    <3> HIDE DEF one, s
    <3>1. QED
      BY <2>8, ConcatAssociative
  <2>10. QED
    BY <2>1, <2>3, <2>7, <2>9
<1>7. \A n \in 0..N : n \in S
  <2> HIDE DEF S
  <2>1. QED
    BY <1>1, <1>5, <1>6, InductionUpTo
<1>8. told[N] = first \o saying(N)
  BY <1>1, <1>7
<1>9. QED
  BY <1>1, <1>3, <1>4, <1>8 DEF N, Saying

LEMMA HeardMore ==
    ASSUME NEW list \in Seq(CallType), NEW more \in Seq(CallType)
    PROVE  /\ list \o more \in Seq(CallType)
           /\ \A what : Heard(list \o more, what) = Heard(list, what) \union Heard(more, what)
           /\ Once(list) /\ Once(more) /\ (\A k \in DOMAIN list, l \in DOMAIN more : list[k] # more[l])
                 => Once(list \o more)
<1> DEFINE both == list \o more
<1>1. /\ both \in Seq(CallType) /\ Len(list) \in Nat /\ Len(more) \in Nat
      /\ DOMAIN list = 1..Len(list) /\ DOMAIN more = 1..Len(more)
      /\ DOMAIN both = 1..(Len(list) + Len(more))
      /\ \A k \in 1..Len(list) : both[k] = list[k]
      /\ \A k \in 1..Len(more) : both[Len(list) + k] = more[k]
  OBVIOUS
<1>2. \A k \in DOMAIN both : \/ k \in DOMAIN list /\ both[k] = list[k]
                             \/ k - Len(list) \in DOMAIN more /\ both[k] = more[k - Len(list)]
                                /\ k > Len(list)
  BY <1>1
<1> HIDE DEF both
<1>3. ASSUME NEW what
      PROVE  Heard(both, what) = Heard(list, what) \union Heard(more, what)
  <2>1. \A path : path \in Heard(both, what)
                    <=> \E k \in DOMAIN both : both[k].what = what /\ both[k].path = path
    BY DEF Heard
  <2>2. \A path : path \in Heard(list, what)
                    <=> \E k \in DOMAIN list : list[k].what = what /\ list[k].path = path
    BY DEF Heard
  <2>3. \A path : path \in Heard(more, what)
                    <=> \E k \in DOMAIN more : more[k].what = what /\ more[k].path = path
    BY DEF Heard
  <2>4. ASSUME NEW path, path \in Heard(both, what)
        PROVE  path \in Heard(list, what) \union Heard(more, what)
    BY <1>2, <2>1, <2>2, <2>3, <2>4
  <2>5. ASSUME NEW path, path \in Heard(list, what)
        PROVE  path \in Heard(both, what)
    <3>1. PICK k \in DOMAIN list : list[k].what = what /\ list[k].path = path
      BY <2>2, <2>5
    <3>2. k \in DOMAIN both /\ both[k] = list[k]
      BY <1>1
    <3>3. QED
      BY <2>1, <3>1, <3>2
  <2>6. ASSUME NEW path, path \in Heard(more, what)
        PROVE  path \in Heard(both, what)
    <3>1. PICK k \in DOMAIN more : more[k].what = what /\ more[k].path = path
      BY <2>3, <2>6
    <3>2. Len(list) + k \in DOMAIN both /\ both[Len(list) + k] = more[k]
      BY <1>1
    <3>3. QED
      BY <2>1, <3>1, <3>2
  <2>7. QED
    BY <2>4, <2>5, <2>6
<1>4. ASSUME Once(list), Once(more), \A k \in DOMAIN list, l \in DOMAIN more : list[k] # more[l]
      PROVE  Once(both)
  <2> SUFFICES ASSUME NEW k \in DOMAIN both, NEW l \in DOMAIN both, both[k] = both[l]
               PROVE  k = l
    BY DEF Once
  <2>1. k \in Int /\ l \in Int
    BY <1>1
  <2>2. CASE k \in DOMAIN list /\ both[k] = list[k]
    <3>1. l \in DOMAIN list /\ both[l] = list[l]
      BY <1>2, <1>4, <2>2
    <3>2. QED
      BY <1>4, <2>2, <3>1 DEF Once
  <2>3. CASE k - Len(list) \in DOMAIN more /\ both[k] = more[k - Len(list)]
    <3>1. l - Len(list) \in DOMAIN more /\ both[l] = more[l - Len(list)]
      BY <1>2, <1>4, <2>3
    <3>2. k - Len(list) = l - Len(list)
      BY <1>4, <2>3, <3>1 DEF Once
    <3>3. QED
      BY <1>1, <2>1, <3>2
  <2>4. QED
    BY <1>2, <2>2, <2>3
<1>5. QED
  BY <1>1, <1>3, <1>4 DEF both

\* One call more, which has not come before.
LEMMA HeardAppend ==
    ASSUME NEW list \in Seq(CallType), NEW call \in CallType
    PROVE  /\ Append(list, call) \in Seq(CallType)
           /\ \A what : Heard(Append(list, call), what)
                  = Heard(list, what) \union (IF call.what = what THEN {call.path} ELSE {})
           /\ Once(list) /\ call.path \notin Heard(list, call.what) => Once(Append(list, call))
<1> DEFINE one == <<call>>
<1>1. /\ one \in Seq(CallType) /\ DOMAIN one = {1} /\ one[1] = call
      /\ Append(list, call) = list \o one
  OBVIOUS
<1> HIDE DEF one
<1>2. /\ list \o one \in Seq(CallType)
      /\ \A what : Heard(list \o one, what) = Heard(list, what) \union Heard(one, what)
      /\ Once(list) /\ Once(one) /\ (\A k \in DOMAIN list, l \in DOMAIN one : list[k] # one[l])
            => Once(list \o one)
  BY <1>1, HeardMore
<1>3. \A what : Heard(one, what) = IF call.what = what THEN {call.path} ELSE {}
  BY <1>1 DEF Heard
<1>4. Once(one)
  BY <1>1 DEF Once
<1>5. call.path \notin Heard(list, call.what) => \A k \in DOMAIN list, l \in DOMAIN one : list[k] # one[l]
  BY <1>1 DEF Heard
<1>6. QED
  BY <1>1, <1>2, <1>3, <1>4, <1>5

LEMMA SameCall ==
    ASSUME NEW call \in CallType, NEW what, NEW path
    PROVE  call = Call(what, path) <=> call.what = what /\ call.path = path
BY DEF CallType, Call

\* How often a call comes that comes once at most.
LEMMA TimesOnce ==
    ASSUME calls \in Seq(CallType), Once(calls),
           NEW what \in {"entered", "recorded", "skipped"}, NEW path
    PROVE  Times(what, path) = IF path \in Heard(calls, what) THEN 1 ELSE 0
<1> DEFINE T == {k \in DOMAIN calls : calls[k] = Call(what, path)}
<1>1. \A k \in DOMAIN calls : calls[k] = Call(what, path)
                                <=> calls[k].what = what /\ calls[k].path = path
  <2> SUFFICES ASSUME NEW k \in DOMAIN calls
               PROVE  calls[k] = Call(what, path) <=> calls[k].what = what /\ calls[k].path = path
    OBVIOUS
  <2>1. calls[k] \in CallType
    OBVIOUS
  <2>2. QED
    BY <2>1, SameCall
<1>2. CASE path \in Heard(calls, what)
  <2>1. PICK k \in DOMAIN calls : calls[k].what = what /\ calls[k].path = path
    BY <1>2 DEF Heard
  <2>2. calls[k] = Call(what, path)
    BY <1>1, <2>1
  <2>3. T = {k}
    BY <2>2 DEF Once
  <2>4. QED
    BY <1>2, <2>3, FS_Singleton DEF Times
<1>3. CASE path \notin Heard(calls, what)
  <2>1. \A k \in DOMAIN calls : ~(calls[k].what = what /\ calls[k].path = path)
    BY <1>3 DEF Heard
  <2>2. T = {}
    BY <1>1, <2>1
  <2>3. QED
    BY <1>3, <2>2, FS_EmptySet DEF Times
<1>4. QED
  BY <1>2, <1>3

-----------------------------------------------------------------------------
(* What the receiver has heard, as a scan is made.                         *)

\* The listings, refusals and failures have got no other for what was reached.
LEMMA CallsKept ==
    ASSUME NEW list, NEW reached, NEW found, NEW lists, NEW out, NEW bad,
           CallsAre(list, reached, found, lists, out, bad),
           NEW listsN, NEW outN, NEW badN,
           \A path \in reached :
               /\ Goes(path, listsN, outN, badN) <=> Goes(path, lists, out, bad)
               /\ Last(path) > 0 =>
                     /\ listsN[Front(path)][Last(path)] = lists[Front(path)][Last(path)]
                     /\ path \in badN <=> path \in bad,
           \A path \in found : listsN[Front(path)][Last(path)] = lists[Front(path)][Last(path)]
    PROVE  CallsAre(list, reached, found, listsN, outN, badN)
<1>1. {path \in reached : Goes(path, listsN, outN, badN)}
          = {path \in reached : Goes(path, lists, out, bad)}
  OBVIOUS
<1>2. {path \in found : listsN[Front(path)][Last(path)] = "directory"}
          = {path \in found : lists[Front(path)][Last(path)] = "directory"}
  OBVIOUS
<1>3. {path \in reached :
           Last(path) > 0 /\ (listsN[Front(path)][Last(path)] = "special" \/ path \in badN)}
          = {path \in reached :
                Last(path) > 0 /\ (lists[Front(path)][Last(path)] = "special" \/ path \in bad)}
  OBVIOUS
<1>4. QED
  BY <1>1, <1>2, <1>3 DEF CallsAre

\* A path that no scan has come to, of the directory that is being scanned.
Fresh(path) == Front(path) = scan.path /\ (First \/ Last(path) > scan.job.start)

LEMMA FreshFacts ==
    ASSUME Scanning, NEW path, Fresh(path), Last(path) \in Int, scan.job.start \in Nat
    PROVE  ~Reached(path)
<1>1. Cur = scan.path
  BY InnerScan DEF Cur
<1>2. QED
  BY <1>1 DEF Fresh, Reached

\* What holds of all that was reached.
LEMMA ReachedFacts ==
    ASSUME BaseInv, ReadInv, Active
    PROVE  /\ ListsType(listings) /\ rows \in Seq(Seq(Nat))
           /\ \A path \in EntriesOf(listings) :
                 /\ path \in Seq(Nat) /\ path # <<>> /\ Front(path) \in DOMAIN listings
                 /\ Last(path) \in DOMAIN listings[Front(path)] /\ Last(path) \in Nat \ {0}
                 /\ path = Append(Front(path), Last(path))
           /\ \A path \in refusals \union failures :
                 /\ path \in Seq(Nat) /\ path # <<>> /\ Last(path) \in Nat
                 /\ Front(path) \in Seq(Nat) /\ path = Append(Front(path), Last(path))
                 /\ path \in EntriesOf(listings) \/ Last(path) = 0
           /\ \A path \in ToSet(rows) : path \in EntriesOf(listings)
<1>1. /\ ListsType(listings) /\ rows \in Seq(Seq(Nat))
      /\ HistoryInv(on_error, rows, Ahead, listings, refusals, failures, Lost)
  BY ReadFacts
<1>2. \A path \in ToSet(rows) : path \in EntriesOf(listings)
  BY <1>1 DEF HistoryInv, RowsInv, Goes
<1>3. ASSUME NEW path \in refusals \union failures
      PROVE  /\ path \in Seq(Nat) /\ path # <<>> /\ Last(path) \in Nat
             /\ Front(path) \in Seq(Nat) /\ path = Append(Front(path), Last(path))
             /\ path \in EntriesOf(listings) \/ Last(path) = 0
  <2>1. path \in Seq(Nat)
    BY DEF BaseInv, TypeOK
  <2>2. path \in EntriesOf(listings) \/ (path # <<>> /\ Last(path) = 0)
    BY <1>1 DEF HistoryInv, ListsInv
  <2>3. path # <<>>
    BY <1>1, <2>2, EntryFacts
  <2>4. /\ Front(path) \in Seq(Nat) /\ Last(path) \in Nat /\ path = Append(Front(path), Last(path))
    BY <2>1, <2>3, FrontAndLast
  <2>5. QED
    BY <2>1, <2>2, <2>3, <2>4
<1>4. QED
  BY <1>1, <1>2, <1>3, EntryFacts

LEMMA QuietBefore ==
    ASSUME Quiet', on_error' = on_error, failures \subseteq failures'
    PROVE  Quiet
BY DEF Quiet

\* A step of a scan tells nothing, and what is new in it was not reached.
LEMMA ScanCalls ==
    ASSUME BaseInv, ReadInv, CallsInv, Quiet', Scanning, Scanning',
           SameLevels(Outer, Outer'),
           scan'.path = scan.path, scan'.job.start = scan.job.start,
           UNCHANGED <<on_error, rows, calls>>,
           ListsType(listings'),
           \A dir \in DOMAIN listings : dir \in DOMAIN listings' /\ listings'[dir] = listings[dir],
           \A dir \in DOMAIN listings' : dir \in DOMAIN listings \/ (First /\ dir = scan.path),
           refusals \subseteq refusals', \A path \in refusals' : path \in refusals \/ Fresh(path),
           failures \subseteq failures', \A path \in failures' : path \in failures \/ Fresh(path),
           \A path \in failures' : Last(path) \in Int,
           SeenInv', ZeroInv'
    PROVE  CallsInv'
<1>1. Active /\ Active' /\ Quiet
  BY QuietBefore DEF Active, Scanning
<1>2. /\ calls \in Seq(CallType) /\ SeenInv /\ ZeroInv
      /\ CallsAre(calls, ReachedOf(listings, failures), ToSet(rows), listings, refusals, failures)
  BY <1>1 DEF CallsInv
<1>3. Cur = scan.path /\ Cur' = scan.path /\ (First' <=> First)
  <2>1. Inner.dir = scan.path
    BY InnerScan
  <2>2. Inner'.dir = scan'.path
    BY DEF Inner
  <2>3. QED
    BY <2>1, <2>2 DEF Cur, First
<1>4. \A path : Reached(path)' <=> Reached(path)
  BY <1>3 DEF Reached, SameLevels, UpTo
<1>5. scan.job.start \in Nat
  BY ScanTypes DEF BaseInv
<1>6. \A path \in EntriesOf(listings') : path \in EntriesOf(listings) \/ Fresh(path)
  <2> SUFFICES ASSUME NEW path \in EntriesOf(listings'), path \notin EntriesOf(listings)
               PROVE  Fresh(path)
    OBVIOUS
  <2>1. PICK dir \in DOMAIN listings' : \E p \in DOMAIN listings'[dir] : path = Append(dir, p)
    BY DEF EntriesOf
  <2>2. dir \notin DOMAIN listings
    BY <2>1 DEF EntriesOf
  <2>3. First /\ dir = scan.path
    BY <2>2
  <2>4. PICK p \in DOMAIN listings'[dir] : path = Append(dir, p)
    BY <2>1
  <2>5. dir \in Seq(Nat) /\ p \in Nat
    BY DEF ListsType
  <2>6. Front(path) = dir
    BY <2>4, <2>5, PathFacts
  <2>7. QED
    BY <2>3, <2>6 DEF Fresh
<1>7. EntriesOf(listings) \subseteq EntriesOf(listings')
  BY DEF EntriesOf
<1>8. \A path \in EntriesOf(listings') : Last(path) \in Int
  BY EntryFacts
<1>9. \A path : Fresh(path) /\ Last(path) \in Int => ~Reached(path)
  BY <1>5, FreshFacts
<1>10. ReachedOf(listings, failures)' = ReachedOf(listings, failures)
  BY <1>4, <1>6, <1>7, <1>8, <1>9 DEF ReachedOf
<1>11. ASSUME NEW path \in ReachedOf(listings, failures)
       PROVE  /\ Goes(path, listings', refusals', failures') <=> Goes(path, listings, refusals, failures)
              /\ Last(path) > 0 =>
                    /\ listings'[Front(path)][Last(path)] = listings[Front(path)][Last(path)]
                    /\ path \in failures' <=> path \in failures
  <2>1. Reached(path) /\ path \in EntriesOf(listings) \union failures
    BY <1>11 DEF ReachedOf
  <2>2. /\ path \in EntriesOf(listings) => Front(path) \in DOMAIN listings
        /\ path \in EntriesOf(listings) \/ Last(path) = 0
        /\ Last(path) \in Nat
    BY <1>1, <2>1, ReachedFacts
  <2>3. ~Fresh(path)
    BY <1>9, <2>1, <2>2
  <2>4. (path \in refusals' <=> path \in refusals) /\ (path \in failures' <=> path \in failures)
    BY <2>3
  <2>5. path \in EntriesOf(listings') <=> path \in EntriesOf(listings)
    BY <1>6, <1>7, <2>3
  <2>6. QED
    BY <2>2, <2>4, <2>5 DEF Goes
<1>12. \A path \in ToSet(rows) :
           listings'[Front(path)][Last(path)] = listings[Front(path)][Last(path)]
  BY <1>1, ReachedFacts
<1>13. CallsAre(calls, ReachedOf(listings, failures), ToSet(rows), listings', refusals', failures')
  <2> DEFINE reached == ReachedOf(listings, failures)
             found == ToSet(rows)
  <2>1. \A path \in reached :
           /\ Goes(path, listings', refusals', failures') <=> Goes(path, listings, refusals, failures)
           /\ Last(path) > 0 =>
                 /\ listings'[Front(path)][Last(path)] = listings[Front(path)][Last(path)]
                 /\ path \in failures' <=> path \in failures
    BY <1>11
  <2>2. CallsAre(calls, reached, found, listings, refusals, failures)
    BY <1>2
  <2>3. \A path \in found : listings'[Front(path)][Last(path)] = listings[Front(path)][Last(path)]
    BY <1>12
  <2> HIDE DEF reached, found
  <2>4. CallsAre(calls, reached, found, listings', refusals', failures')
    BY <2>1, <2>2, <2>3, CallsKept
  <2>5. QED
    BY <2>4 DEF reached, found
<1>14. calls' = calls /\ ToSet(rows)' = ToSet(rows)
  BY DEF ToSet
<1>15. QED
  BY <1>2, <1>10, <1>13, <1>14 DEF CallsInv

LEMMA UnreadableCalls ==
    ASSUME BaseInv, ReadInv, CallsInv, Quiet', pc = "fill", First, Unreadable,
           SameLevels(stack, stack'),
           UNCHANGED <<on_error, listings, rows, calls, refusals>>
    PROVE  CallsInv'
<1> DEFINE x == Append(scan.path, 0)
<1>1. /\ Active /\ Scanning /\ Outer = stack /\ scan.path \in Seq(Nat)
      /\ scan.path = <<>> \/ scan.path \in ToSet(rows)
  BY UnlistedFacts
<1>2. /\ scan' = [scan EXCEPT !.unreadable = TRUE] /\ pc' = "report"
      /\ failures' = failures \union {x}
  BY DEF Unreadable
<1>3. scan'.path = scan.path /\ scan'.job = scan.job /\ scan'.unreadable
  BY <1>2 DEF BaseInv, TypeOK, ScanType
<1>4. Scanning' /\ First' /\ Outer' = stack'
  BY <1>2, <1>3 DEF Scanning, First, Outer
<1>5. Front(x) = scan.path /\ Last(x) = 0
  BY <1>1, PathFacts
<1>6. Fresh(x)
  BY <1>5 DEF Fresh
<1> HIDE DEF x
<1>7. ListsType(listings) /\ \A path \in failures : Last(path) \in Int
  BY <1>1, ReachedFacts
<1>8. Quiet /\ ZeroInv
  BY <1>1, <1>2, QuietBefore DEF CallsInv
<1>9. ZeroInv'
  BY <1>1, <1>2, <1>5, <1>8 DEF ZeroInv
<1>10. SeenInv'
  BY <1>3 DEF SeenInv
<1>11. /\ SameLevels(Outer, Outer') /\ ListsType(listings')
       /\ \A path \in failures' : path \in failures \/ Fresh(path)
       /\ \A path \in failures' : Last(path) \in Int
       /\ failures \subseteq failures'
  BY <1>1, <1>2, <1>4, <1>5, <1>6, <1>7
<1>12. QED
  BY <1>1, <1>3, <1>4, <1>9, <1>10, <1>11, ScanCalls

\* A scan goes from one phase to the next.
LEMMA PhaseCalls ==
    ASSUME BaseInv, ReadInv, CallsInv, Quiet', Scanning, Scanning',
           SameLevels(Outer, Outer'),
           scan'.path = scan.path, scan'.job.start = scan.job.start,
           UNCHANGED <<on_error, listings, rows, calls, refusals, failures>>,
           pc \in {"fill", "list"} \/ pc' \notin {"fill", "list"}, SeenInv'
    PROVE  CallsInv'
<1>1. Active /\ ListsType(listings) /\ \A path \in failures : Last(path) \in Int
  BY ReachedFacts DEF Active, Scanning
<1>2. Quiet /\ ZeroInv
  BY <1>1, QuietBefore DEF CallsInv
<1>3. ZeroInv'
  BY <1>2 DEF ZeroInv, First
<1>4. ListsType(listings')
  BY <1>1
<1>5. QED
  BY <1>1, <1>3, <1>4, ScanCalls

LEMMA FillCalls ==
    ASSUME BaseInv, ReadInv, CallsInv, Quiet',
           FillRefused \/ FillOpened \/ FillRest \/ Open \/ OpenStarved
    PROVE  CallsInv'
<1>1. TypeOK /\ PhaseInv
  BY DEF BaseInv
<1>2. /\ pc = "fill" /\ Scanning /\ Active
      /\ UNCHANGED <<on_error, listings, rows, calls, refusals>>
  BY DEF FillRefused, FillOpened, FillRest, Open, Opens, OpenStarved, history, Scanning, Active
<1>3. SameLevels(stack, stack) /\ SameLevels(Outer, Outer)
  BY DEF SameLevels
<1>4. CASE FillRefused
  <2>1. First /\ Unreadable /\ stack' = stack
    BY <1>1, <1>4 DEF FillRefused, PhaseInv
  <2>2. QED
    BY <1>2, <1>3, <2>1, UnreadableCalls
<1>5. CASE FillOpened
  <2>1. /\ pc' = "list" /\ First /\ scan' = [scan EXCEPT !.job.opened = FALSE]
        /\ stack' = stack /\ failures' = failures
    BY <1>1, <1>5 DEF FillOpened, history, PhaseInv
  <2>2. scan'.path = scan.path /\ scan'.job.start = scan.job.start
    BY <1>1, <2>1 DEF TypeOK, ScanType, JobType
  <2>3. Scanning' /\ Outer' = Outer /\ SeenInv'
    BY <1>2, <2>1, <2>2 DEF Scanning, Outer, First, SeenInv
  <2>4. SameLevels(Outer, Outer')
    BY <1>3, <2>3
  <2>5. QED
    BY <1>2, <2>1, <2>2, <2>3, <2>4, PhaseCalls
<1>6. CASE FillRest
  <2>1. /\ pc' = "entries" /\ ~First /\ scan.job.start > 0
        /\ scan' = [scan EXCEPT !.end = WindowEnd(Listing, scan.job.start)]
        /\ stack' = stack /\ failures' = failures
    BY <1>1, <1>6, ScanTypes DEF FillRest, history, First
  <2>2. /\ scan'.path = scan.path /\ scan'.job = scan.job /\ scan'.items = scan.items
        /\ scan'.place = scan.place
    BY <1>1, <2>1 DEF TypeOK, ScanType
  <2>3. /\ scan.items = <<>> /\ scan.place = scan.job.start /\ scan.job.start \in Nat
        /\ scan.path \in DOMAIN listings
    BY <1>1, <1>2, <2>1, ScanTypes DEF PhaseInv
  <2>4. Scanning' /\ Outer' = Outer /\ (First' <=> First)
    BY <1>2, <2>1, <2>2 DEF Scanning, Outer, First
  <2>5. SeenInv'
    <3>1. (scan'.job.start + 1)..scan'.place = {}
      BY <2>2, <2>3
    <3>2. DOMAIN scan'.items = {}
      BY <2>2, <2>3, EmptySeq
    <3>3. QED
      BY <1>2, <2>1, <2>2, <2>3, <2>4, <3>1, <3>2 DEF SeenInv
  <2>6. SameLevels(Outer, Outer')
    BY <1>3, <2>4
  <2>7. QED
    BY <1>2, <2>1, <2>2, <2>4, <2>5, <2>6, PhaseCalls
<1>7. ASSUME Opens, SameLevels(stack, stack'), UNCHANGED <<scan, failures>>, pc' \in {"fill", "list"}
      PROVE  CallsInv'
  <2>1. First /\ Scanning' /\ First' /\ SeenInv'
    BY <1>7 DEF Opens, First, Scanning, SeenInv
  <2>2. Outer = stack /\ Outer' = stack'
    BY <1>2, <2>1 DEF Outer
  <2>3. QED
    BY <1>2, <1>7, <2>1, <2>2, PhaseCalls
<1>8. CASE Open
  <2>1. /\ Opens /\ stack' = stack
        /\ (pc' = "list" /\ UNCHANGED <<scan, failures>>) \/ Unreadable
    BY <1>8 DEF Open
  <2>2. First
    BY <2>1 DEF Opens, First
  <2>3. QED
    BY <1>2, <1>3, <1>7, <2>1, <2>2, UnreadableCalls
<1>9. CASE OpenStarved
  <2>1. /\ Opens /\ stack' = Released(stack)
        /\ UNCHANGED <<pc, scan, failures>> \/ Unreadable
    BY <1>9 DEF OpenStarved
  <2>2. First /\ stack \in Seq(LevelType)
    BY <1>1, <2>1 DEF Opens, First, TypeOK
  <2>3. SameLevels(stack, stack')
    BY <2>1, <2>2, ReleasedFacts, LenProperties DEF SameLevels
  <2>4. QED
    BY <1>2, <1>7, <2>1, <2>2, <2>3, UnreadableCalls
<1>10. QED
  BY <1>4, <1>5, <1>6, <1>8, <1>9

LEMMA ListCalls == BaseInv /\ ReadInv /\ CallsInv /\ Quiet' /\ List => CallsInv'
<1> SUFFICES ASSUME BaseInv, ReadInv, CallsInv, Quiet', List
             PROVE  CallsInv'
  OBVIOUS
<1>1. TypeOK /\ PhaseInv
  BY DEF BaseInv
<1> DEFINE x == Append(scan.path, 0)
<1>2. /\ pc = "list" /\ Scanning /\ First
      /\ DOMAIN listings' = {scan.path} \union DOMAIN listings
      /\ listings'[scan.path] \in Seq(Kinds)
      /\ \A dir \in DOMAIN listings : dir # scan.path => listings'[dir] = listings[dir]
      /\ scan'.path = scan.path /\ scan'.job = scan.job /\ scan'.place = 0
      /\ UNCHANGED <<on_error, stack, rows, calls, refusals>>
      /\ \/ /\ pc' = "entries" /\ scan'.items = <<>> /\ failures' = failures
         \/ /\ pc' = "entries" /\ scan'.items = <<Item("failed", 0)>>
            /\ failures' = failures \union {x}
         \/ /\ pc' = "report" /\ on_error = "Fail" /\ failures' = failures \union {x}
  BY <1>1, ListFacts
<1>3. /\ Active /\ Outer = stack /\ scan.path \in Seq(Nat) /\ scan.path \notin DOMAIN listings
      /\ scan.path = <<>> \/ scan.path \in ToSet(rows)
  BY <1>2, UnlistedFacts
<1>4. Front(x) = scan.path /\ Last(x) = 0
  BY <1>3, PathFacts
<1>5. Fresh(x)
  BY <1>2, <1>4 DEF Fresh
<1> HIDE DEF x
<1>6. ListsType(listings) /\ \A path \in failures : Last(path) \in Int
  BY <1>3, ReachedFacts
<1>7. failures \subseteq failures'
  BY <1>2
<1>8. Quiet /\ ZeroInv /\ x \notin failures
  BY <1>2, <1>3, <1>7, QuietBefore DEF CallsInv, ZeroInv, x
<1>9. pc' = "entries"
  BY <1>2 DEF Quiet
<1>10. Scanning' /\ First' /\ Outer' = stack /\ scan'.job.start = 0 /\ scan.job.start = 0
  BY <1>2, <1>9 DEF Scanning, First, Outer
<1>11. ZeroInv'
  BY <1>2, <1>3, <1>4, <1>8, <1>9 DEF ZeroInv
<1>12. SeenInv'
  <2>1. (scan'.job.start + 1)..scan'.place = {}
    BY <1>2, <1>10
  <2>2. CASE scan'.items = <<>> /\ failures' = failures
    <3>1. DOMAIN scan'.items = {}
      BY <2>2, EmptySeq
    <3>2. QED
      BY <1>2, <1>8, <1>9, <1>10, <2>1, <2>2, <3>1 DEF SeenInv, x
  <2>3. CASE scan'.items = <<Item("failed", 0)>>
    <3>1. DOMAIN scan'.items = {1} /\ scan'.items[1] = Item("failed", 0)
      BY <2>3
    <3>2. scan'.items[1].place = 0
      BY <3>1 DEF Item
    <3>3. QED
      BY <1>2, <1>9, <1>10, <2>1, <3>1, <3>2 DEF SeenInv
  <2>4. QED
    BY <1>2, <1>9, <2>2, <2>3
<1>13. /\ SameLevels(Outer, Outer')
       /\ \A dir \in DOMAIN listings : dir \in DOMAIN listings' /\ listings'[dir] = listings[dir]
       /\ \A dir \in DOMAIN listings' : dir \in DOMAIN listings \/ (First /\ dir = scan.path)
       /\ \A path \in failures' : path \in failures \/ Fresh(path)
       /\ \A path \in failures' : Last(path) \in Int
  BY <1>2, <1>3, <1>4, <1>5, <1>6, <1>10 DEF SameLevels
<1>14. ListsType(listings')
  BY <1>2, <1>3, <1>6, <1>13 DEF ListsType
<1>15. QED
  BY <1>2, <1>7, <1>10, <1>11, <1>12, <1>13, <1>14, ScanCalls

LEMMA EntryCalls ==
    ASSUME BaseInv, ReadInv, CallsInv, Quiet', Reading, calls' = calls,
           NEW item \in ItemType, item.place = Place, EntryReads(item)
    PROVE  CallsInv'
<1>1. /\ pc = "entries" /\ Active /\ Scanning /\ Cur = scan.path
      /\ scan.path \in Seq(Nat) /\ scan.path \in DOMAIN listings
      /\ Listing = listings[scan.path] /\ Listing \in Seq(Kinds)
      /\ scan.place \in Nat /\ Place = scan.place + 1
      /\ Place \in DOMAIN Listing /\ scan.items \in Seq(ItemType)
      /\ \A p \in Unread : Append(scan.path, p) \notin refusals \union failures
      /\ Place \in Unread /\ Here = Append(scan.path, Place)
  <2>1. Unread = Place..scan.end /\ Place <= scan.end /\ Place \in Int /\ scan.end \in Int
    BY ReadingFacts
  <2>2. Place \in Unread
    BY <2>1
  <2>3. QED
    BY <2>2, ReadingFacts
<1>2. /\ scan'.path = scan.path /\ scan'.job = scan.job /\ scan'.place = Place
      /\ scan'.unreadable = scan.unreadable
      /\ UNCHANGED <<on_error, stack, listings, rows>>
      /\ failures' = failures \/ failures' = failures \union {Here}
      /\ refusals' = refusals \/ refusals' = refusals \union {Here}
  BY DEF EntryReads
<1>3. pc' = "entries"
  BY <1>2 DEF EntryReads, Quiet
<1>4. Quiet /\ ~scan.unreadable
  BY <1>1, <1>2, ReadingFacts, QuietBefore
<1>5. SeenInv /\ ZeroInv /\ ListsType(listings) /\ \A path \in failures : Last(path) \in Int
  BY <1>1, <1>4, ReachedFacts DEF CallsInv
<1>6. /\ scan.place >= scan.job.start /\ scan.job.start \in Nat
      /\ \A m \in DOMAIN scan.items :
            scan.items[m].place > scan.job.start \/ (First /\ scan.items[m].place = 0)
      /\ First /\ Append(scan.path, 0) \in failures
            => \E m \in DOMAIN scan.items : scan.items[m].place = 0
      /\ \A p \in (scan.job.start + 1)..scan.place :
            (\/ Goes(Append(scan.path, p), listings, refusals, failures)
             \/ Listing[p] = "special" \/ Append(scan.path, p) \in failures)
               => \E m \in DOMAIN scan.items : scan.items[m].place = p
  BY <1>1, <1>4, <1>5, ScanTypes DEF SeenInv, BaseInv
<1>7. /\ Scanning' /\ Outer' = Outer /\ (First' <=> First) /\ Listing' = Listing
  BY <1>1, <1>2, <1>3 DEF Scanning, Outer, First, Listing
<1>8. Place \in Nat /\ Front(Here) = scan.path /\ Last(Here) = Place /\ Place > scan.job.start
  <2>1. Place \in Nat /\ Place > scan.job.start
    BY <1>1, <1>6
  <2>2. QED
    BY <1>1, <2>1, PathFacts
<1>9. Fresh(Here)
  BY <1>8 DEF Fresh
<1>10. \A p \in Nat : p # Place => Append(scan.path, p) # Here
  BY <1>1, <1>8, SamePath
<1>11. ZeroInv'
  <2>1. \A f \in failures' : Last(f) = 0 => f \in failures
    BY <1>2, <1>6, <1>8
  <2>2. QED
    BY <1>2, <1>3, <1>5, <2>1 DEF ZeroInv
<1> DEFINE Shown(p) == \E m \in DOMAIN scan.items : scan.items[m].place = p
           ShownN(p) == \E m \in DOMAIN scan'.items : scan'.items[m].place = p
<1>12. \/ scan'.items = scan.items /\ Here \in refusals' /\ failures' = failures /\ KindHere # "special"
       \/ scan'.items = Append(scan.items, item)
  BY DEF EntryReads
<1>13. /\ \A p : Shown(p) => ShownN(p)
       /\ scan'.items # scan.items => ShownN(Place)
       /\ \A m \in DOMAIN scan'.items : \/ m \in DOMAIN scan.items /\ scan'.items[m] = scan.items[m]
                                        \/ scan'.items[m].place = Place
  <2>1. CASE scan'.items = scan.items
    BY <2>1
  <2>2. CASE scan'.items = Append(scan.items, item)
    <3>1. /\ DOMAIN scan.items = 1..Len(scan.items) /\ Len(scan.items) \in Nat
          /\ DOMAIN scan'.items = 1..(Len(scan.items) + 1)
          /\ \A m \in 1..Len(scan.items) : scan'.items[m] = scan.items[m]
          /\ scan'.items[Len(scan.items) + 1] = item
      BY <1>1, <2>2, AppendProperties, LenProperties
    <3>2. \A m \in 1..Len(scan.items) : m \in 1..(Len(scan.items) + 1)
      BY <3>1
    <3>3. Len(scan.items) + 1 \in 1..(Len(scan.items) + 1)
      BY <3>1
    <3>4. \A m \in 1..(Len(scan.items) + 1) : m \in 1..Len(scan.items) \/ m = Len(scan.items) + 1
      BY <3>1
    <3>5. QED
      BY <3>1, <3>2, <3>3, <3>4
  <2>3. QED
    BY <1>12, <2>1, <2>2
<1>14. ASSUME NEW p \in (scan'.job.start + 1)..scan'.place,
              \/ Goes(Append(scan.path, p), listings, refusals', failures') \/ Listing[p] = "special"
              \/ Append(scan.path, p) \in failures'
       PROVE  ShownN(p)
  <2>1. p \in Nat /\ (p \in (scan.job.start + 1)..scan.place \/ p = Place)
    BY <1>1, <1>2, <1>6
  <2>2. CASE p # Place
    <3>1. Append(scan.path, p) # Here
      BY <1>10, <2>1, <2>2
    <3>2. \/ Goes(Append(scan.path, p), listings, refusals, failures) \/ Listing[p] = "special"
          \/ Append(scan.path, p) \in failures
      BY <1>2, <1>14, <3>1 DEF Goes
    <3>3. Shown(p)
      BY <1>6, <2>1, <2>2, <3>2
    <3>4. QED
      BY <1>13, <3>3
  <2>3. CASE p = Place
    <3> SUFFICES ASSUME scan'.items = scan.items, Here \in refusals', failures' = failures,
                        KindHere # "special"
                 PROVE  FALSE
      BY <1>12, <1>13, <2>3
    <3>1. Append(scan.path, p) = Here /\ Here \notin failures' /\ Listing[p] # "special"
      BY <1>1, <2>3 DEF KindHere
    <3>2. ~Goes(Here, listings, refusals', failures')
      BY DEF Goes
    <3>3. QED
      BY <1>14, <3>1, <3>2
  <2>4. QED
    BY <2>2, <2>3
<1>15. First' /\ Append(scan.path, 0) \in failures' => ShownN(0)
  <2> SUFFICES ASSUME First, Append(scan.path, 0) \in failures'
               PROVE  ShownN(0)
    BY <1>7
  <2>1. Append(scan.path, 0) # Here
    BY <1>6, <1>8, <1>10
  <2>2. Shown(0)
    BY <1>2, <1>6, <2>1
  <2>3. QED
    BY <1>13, <2>2
<1>16. \A m \in DOMAIN scan'.items :
           scan'.items[m].place > scan'.job.start \/ (First' /\ scan'.items[m].place = 0)
  BY <1>2, <1>6, <1>7, <1>8, <1>13
<1>17. scan'.place >= scan'.job.start
  BY <1>1, <1>2, <1>6
<1>18. SeenInv'
  <2> HIDE DEF Shown
  <2>1. QED
    BY <1>1, <1>2, <1>3, <1>7, <1>14, <1>15, <1>16, <1>17 DEF SeenInv
<1>19. /\ SameLevels(Outer, Outer') /\ ListsType(listings')
       /\ \A path \in failures' : path \in failures \/ Fresh(path)
       /\ \A path \in refusals' : path \in refusals \/ Fresh(path)
       /\ \A path \in failures' : Last(path) \in Int
       /\ failures \subseteq failures' /\ refusals \subseteq refusals'
  BY <1>2, <1>5, <1>7, <1>8, <1>9 DEF SameLevels
<1>20. QED
  BY <1>1, <1>2, <1>7, <1>11, <1>18, <1>19, ScanCalls

LEMMA EntriesCalls == BaseInv /\ ReadInv /\ CallsInv /\ Quiet' /\ Entries => CallsInv'
<1> SUFFICES ASSUME BaseInv, ReadInv, CallsInv, Quiet', Entries
             PROVE  CallsInv'
  OBVIOUS
<1>1. CASE EntriesEnd
  <2>1. /\ pc = "entries" /\ scan.place = scan.end /\ pc' = "report"
        /\ UNCHANGED <<on_error, stack, scan, listings, rows, calls, refusals, failures>>
    BY <1>1 DEF EntriesEnd, history
  <2>2. Active /\ Scanning /\ Scanning' /\ Outer' = Outer /\ Inner' = Inner
    BY <2>1 DEF Active, Scanning, Outer, Inner, First, Top
  <2>3. WindowInv
    BY <2>2, ReadFacts
  <2>4. scan.end = ReadTo(Inner, Listing)
    BY <2>1, <2>2, <2>3 DEF WindowInv
  <2>5. Quiet /\ SeenInv
    BY <2>1, <2>2, QuietBefore DEF CallsInv
  <2>6. SeenInv'
    BY <2>1, <2>2, <2>4, <2>5 DEF SeenInv, Listing, First
  <2>7. SameLevels(Outer, Outer')
    BY <2>2 DEF SameLevels
  <2>8. QED
    BY <2>1, <2>2, <2>6, <2>7, PhaseCalls
<1>2. CASE ~EntriesEnd
  <2>1. Reading /\ \E item \in ItemType : item.place = Place /\ EntryReads(item)
    BY <1>2, EntriesAreRead
  <2>2. calls' = calls
    BY <1>2 DEF Entries, EntrySpecial, EntryRefused, EntryFile, EntryDirectory, history
  <2>3. QED
    BY <2>1, <2>2, EntryCalls
<1>3. QED
  BY <1>1, <1>2

-----------------------------------------------------------------------------
(* The scan is reported.                                                   *)

\* A scan of what has not been reached yet tells of it.
LEMMA CallsGrow ==
    ASSUME NEW list \in Seq(CallType), NEW more \in Seq(CallType),
           NEW reached, NEW new, NEW found, NEW lists, NEW out, NEW bad,
           CallsAre(list, reached, found, lists, out, bad),
           Once(more), Heard(more, "entered") = {},
           Heard(more, "recorded") = {path \in new : Goes(path, lists, out, bad)},
           Heard(more, "skipped")
               = {path \in new : Last(path) > 0 /\ (lists[Front(path)][Last(path)] = "special" \/ path \in bad)}
                     \union {Front(path) : path \in {path \in new : Last(path) = 0}},
           reached \intersect new = {},
           \A f, e \in reached \union new :
               /\ Last(f) = 0 /\ Last(e) > 0 /\ (lists[Front(e)][Last(e)] = "special" \/ e \in bad)
                     => Front(f) # e
               /\ Last(f) = 0 /\ Last(e) = 0 /\ Front(f) = Front(e) => f = e
    PROVE  CallsAre(list \o more, reached \union new, found, lists, out, bad)
<1> DEFINE Bad(paths) ==
               {path \in paths : Last(path) > 0 /\ (lists[Front(path)][Last(path)] = "special" \/ path \in bad)}
           Zero(paths) == {Front(path) : path \in {path \in paths : Last(path) = 0}}
           Going(paths) == {path \in paths : Goes(path, lists, out, bad)}
<1>1. /\ Once(list) /\ Heard(list, "recorded") = Going(reached)
      /\ Heard(list, "skipped") = Bad(reached) \union Zero(reached)
  BY DEF CallsAre
<1>2. /\ Going(reached \union new) = Going(reached) \union Going(new)
      /\ Bad(reached \union new) = Bad(reached) \union Bad(new)
      /\ Zero(reached \union new) = Zero(reached) \union Zero(new)
  OBVIOUS
<1>3. /\ list \o more \in Seq(CallType)
      /\ \A what : Heard(list \o more, what) = Heard(list, what) \union Heard(more, what)
      /\ Once(list) /\ Once(more) /\ (\A k \in DOMAIN list, l \in DOMAIN more : list[k] # more[l])
            => Once(list \o more)
  BY HeardMore
<1>4. ASSUME NEW k \in DOMAIN list, NEW l \in DOMAIN more, list[k] = more[l]
      PROVE  FALSE
  <2> DEFINE path == list[k].path
  <2>1. more[l].what \in {"entered", "recorded", "skipped"}
    <3>1. more[l] \in CallType
      OBVIOUS
    <3>2. QED
      BY <3>1 DEF CallType
  <2>2. path \in Heard(list, more[l].what) /\ path \in Heard(more, more[l].what)
    BY <1>4 DEF Heard
  <2> HIDE DEF path
  <2>3. CASE more[l].what = "recorded"
    BY <1>1, <2>2, <2>3
  <2>4. CASE more[l].what = "skipped"
    <3>1. path \in Bad(reached) \union Zero(reached) /\ path \in Bad(new) \union Zero(new)
      BY <1>1, <2>2, <2>4
    <3>2. ~(path \in Bad(reached) /\ path \in Bad(new))
      OBVIOUS
    <3>3. ~(path \in Bad(reached \union new) /\ path \in Zero(reached \union new))
      OBVIOUS
    <3>4. ~(path \in Zero(reached) /\ path \in Zero(new))
      OBVIOUS
    <3>5. QED
      BY <1>2, <3>1, <3>2, <3>3, <3>4
  <2>5. QED
    BY <2>1, <2>2, <2>3, <2>4
<1>5. Once(list \o more)
  BY <1>1, <1>3, <1>4
<1>6. /\ Heard(list \o more, "entered") = Heard(list, "entered")
      /\ Heard(list \o more, "recorded") = Going(reached \union new)
      /\ Heard(list \o more, "skipped") = Bad(reached \union new) \union Zero(reached \union new)
  <2>1. /\ Heard(more, "recorded") = Going(new) /\ Heard(more, "entered") = {}
        /\ Heard(more, "skipped") = Bad(new) \union Zero(new)
    OBVIOUS
  <2> HIDE DEF Bad, Zero, Going
  <2>2. Heard(list \o more, "entered") = Heard(list, "entered") \union Heard(more, "entered")
    BY <1>3
  <2>3. Heard(list \o more, "recorded") = Heard(list, "recorded") \union Heard(more, "recorded")
    BY <1>3
  <2>4. Heard(list \o more, "skipped") = Heard(list, "skipped") \union Heard(more, "skipped")
    BY <1>3
  <2> DEFINE lists_ == Heard(list, "skipped")
             mores == Heard(more, "skipped")
             boths == Heard(list \o more, "skipped")
  <2>5. boths = Bad(reached \union new) \union Zero(reached \union new)
    <3>1. boths = lists_ \union mores /\ lists_ = Bad(reached) \union Zero(reached)
          /\ mores = Bad(new) \union Zero(new)
      BY <1>1, <2>1, <2>4
    <3> HIDE DEF lists_, mores, boths
    <3>2. QED
      BY <1>2, <3>1
  <2>6. QED
    BY <1>1, <1>2, <2>1, <2>2, <2>3, <2>5
<1>7. QED
  BY <1>5, <1>6 DEF CallsAre

\* What the scan comes to tell of.
Telling == {path \in EntriesOf(listings) \union failures : Fresh(path) /\ UpTo(Inner, Last(path))}

\* The finished scan of a listing.
LEMMA ReportedFacts ==
    ASSUME BaseInv, ReadInv, CallsInv, Quiet, pc = "report", ~scan.unreadable
    PROVE  /\ Active /\ Scanning /\ scan.path \in Seq(Nat) /\ scan.path \in DOMAIN listings
           /\ Listing = listings[scan.path] /\ Listing \in Seq(Kinds)
           /\ scan.place = ReadTo(Inner, Listing) /\ scan.place \in Nat
           /\ scan.job.start \in Nat /\ scan.job.start <= scan.place
           /\ scan.items \in Seq(ItemType) /\ DOMAIN scan.items = 1..Len(scan.items)
           /\ \A m \in DOMAIN scan.items :
                 /\ scan.items[m] \in ItemType /\ scan.items[m].place \in Nat
                 /\ ItemInv(scan.path, scan.items[m], Listing, refusals, failures)
                 /\ scan.items[m].place = 0 => scan.items[m].kind = "failed"
                 /\ scan.items[m].place > scan.job.start \/ (First /\ scan.items[m].place = 0)
                 /\ scan.items[m].place <= scan.place
                 /\ CallsOf(scan.items[m]) = <<Says(scan.items[m])>>
           /\ \A m, n \in DOMAIN scan.items : scan.items[m].place = scan.items[n].place => m = n
           /\ First /\ Append(scan.path, 0) \in failures
                 => \E m \in DOMAIN scan.items : scan.items[m].place = 0
           /\ \A p \in (scan.job.start + 1)..scan.place :
                 (\/ Goes(Append(scan.path, p), listings, refusals, failures)
                  \/ Listing[p] = "special" \/ Append(scan.path, p) \in failures)
                    => \E m \in DOMAIN scan.items : scan.items[m].place = p
<1>1. TypeOK /\ Active /\ Scanning
  BY DEF BaseInv, Active, Scanning
<1>2. /\ scan.path \in Seq(Nat) /\ scan.items \in Seq(ItemType) /\ scan.place \in Nat
      /\ scan.job.start \in Nat /\ scan.job.of = scan.path /\ on_error \in {"Fail", "Skip"}
  BY <1>1, ScanTypes DEF BaseInv, PhaseInv, TypeOK
<1>3. DOMAIN scan.items = 1..Len(scan.items) /\ Len(scan.items) \in Nat
  BY <1>2, LenProperties
<1>4. SeenInv
  BY <1>1 DEF CallsInv
<1>5. /\ scan.path \in DOMAIN listings /\ scan.place >= scan.job.start
      /\ \A m \in DOMAIN scan.items :
            scan.items[m].place > scan.job.start \/ (First /\ scan.items[m].place = 0)
      /\ First /\ Append(scan.path, 0) \in failures
            => \E m \in DOMAIN scan.items : scan.items[m].place = 0
      /\ \A p \in (scan.job.start + 1)..scan.place :
            (\/ Goes(Append(scan.path, p), listings, refusals, failures)
             \/ Listing[p] = "special" \/ Append(scan.path, p) \in failures)
               => \E m \in DOMAIN scan.items : scan.items[m].place = p
      /\ scan.place = ReadTo(Inner, Listing)
  BY <1>4 DEF SeenInv
<1>6. Listing = listings[scan.path] /\ Listing \in Seq(Kinds)
  BY <1>1, <1>2, <1>5 DEF Listing, TypeOK
<1>7. /\ Inner.dir = scan.path /\ Inner.items = scan.items
      /\ LevelInv(Inner, listings, refusals, failures)
  BY <1>1, InnerScan, ReadFacts
<1>8. /\ \A m \in DOMAIN scan.items :
            /\ ItemInv(scan.path, scan.items[m], Listing, refusals, failures)
            /\ scan.items[m].place <= scan.place
      /\ \A m \in DOMAIN scan.items : \A n \in 1..(m - 1) :
            scan.items[n].place < scan.items[m].place
  BY <1>5, <1>6, <1>7 DEF LevelInv
<1>9. \A m \in DOMAIN scan.items :
          scan.items[m] \in ItemType /\ scan.items[m].place \in Nat
  <2> SUFFICES ASSUME NEW m \in DOMAIN scan.items
               PROVE  scan.items[m] \in ItemType /\ scan.items[m].place \in Nat
    OBVIOUS
  <2>1. scan.items[m] \in ItemType
    BY <1>2, <1>3
  <2>2. QED
    BY <2>1 DEF ItemType
<1>10. \A m \in DOMAIN scan.items : scan.items[m].place = 0 => scan.items[m].kind = "failed"
  <2>1. LevelJobs(Inner, listings)
    BY <1>1, BaseFacts
  <2>2. QED
    BY <1>7, <2>1 DEF LevelJobs
<1>11. \A m \in DOMAIN scan.items : CallsOf(scan.items[m]) = <<Says(scan.items[m])>>
  <2> SUFFICES ASSUME NEW m \in DOMAIN scan.items
               PROVE  CallsOf(scan.items[m]) = <<Says(scan.items[m])>>
    OBVIOUS
  <2>1. ~(scan.items[m].kind = "failed" /\ on_error = "Fail")
    BY <1>8 DEF ItemInv, Quiet
  <2>2. QED
    BY <1>2, <1>9, <2>1, SaysFacts
<1>12. \A m, n \in DOMAIN scan.items : scan.items[m].place = scan.items[n].place => m = n
  <2> SUFFICES ASSUME NEW m \in DOMAIN scan.items, NEW n \in DOMAIN scan.items,
                      scan.items[m].place = scan.items[n].place, m # n
               PROVE  FALSE
    OBVIOUS
  <2>1. m \in Int /\ n \in Int /\ scan.items[m].place \in Nat /\ scan.items[n].place \in Nat
    BY <1>3, <1>9
  <2>2. m \in 1..(n - 1) \/ n \in 1..(m - 1)
    BY <1>3, <2>1
  <2>3. QED
    BY <1>8, <2>1, <2>2
<1>13. QED
  BY <1>1, <1>2, <1>3, <1>5, <1>6, <1>8, <1>9, <1>10, <1>11, <1>12

\* What the receiver is told of the finished scan is what there is to tell.
LEMMA SayingIsTelling ==
    ASSUME BaseInv, ReadInv, CallsInv, Quiet, pc = "report", ~scan.unreadable
    PROVE  /\ Once(Saying(scan.items))
           /\ Heard(Saying(scan.items), "entered") = {}
           /\ Heard(Saying(scan.items), "recorded")
                  = {path \in Telling : Goes(path, listings, refusals, failures)}
           /\ Heard(Saying(scan.items), "skipped")
                  = {path \in Telling :
                        Last(path) > 0
                        /\ (listings[Front(path)][Last(path)] = "special" \/ path \in failures)}
                        \union {Front(path) : path \in {path \in Telling : Last(path) = 0}}
<1> DEFINE items == scan.items
           dir == scan.path
<1>1. /\ Active /\ dir \in Seq(Nat) /\ dir \in DOMAIN listings
      /\ Listing = listings[dir] /\ Listing \in Seq(Kinds)
      /\ scan.place = ReadTo(Inner, Listing) /\ scan.place \in Nat
      /\ scan.job.start \in Nat /\ scan.job.start <= scan.place
      /\ DOMAIN items = 1..Len(items)
      /\ \A m \in DOMAIN items :
            /\ items[m] \in ItemType /\ items[m].place \in Nat
            /\ ItemInv(dir, items[m], Listing, refusals, failures)
            /\ items[m].place = 0 => items[m].kind = "failed"
            /\ items[m].place > scan.job.start \/ (First /\ items[m].place = 0)
            /\ items[m].place <= scan.place
      /\ \A m, n \in DOMAIN items : items[m].place = items[n].place => m = n
      /\ First /\ Append(dir, 0) \in failures => \E m \in DOMAIN items : items[m].place = 0
      /\ \A p \in (scan.job.start + 1)..scan.place :
            (\/ Goes(Append(dir, p), listings, refusals, failures)
             \/ Listing[p] = "special" \/ Append(dir, p) \in failures)
               => \E m \in DOMAIN items : items[m].place = p
  BY ReportedFacts
<1>2. \A p \in Nat : /\ Append(dir, p) # dir /\ Front(Append(dir, p)) = dir /\ Last(Append(dir, p)) = p
                     /\ \A q \in Nat : Append(dir, p) = Append(dir, q) => p = q
  <2>1. \A p \in Nat : /\ Len(Append(dir, p)) = Len(dir) + 1
                       /\ Front(Append(dir, p)) = dir /\ Last(Append(dir, p)) = p
    BY <1>1, PathFacts
  <2>2. Len(dir) \in Nat
    BY <1>1, LenProperties
  <2>3. QED
    BY <2>1, <2>2
<1>3. /\ Len(Listing) \in Nat /\ DOMAIN Listing = 1..Len(Listing) /\ ListsType(listings)
      /\ \A path \in EntriesOf(listings) :
            /\ Last(path) \in DOMAIN listings[Front(path)] /\ Last(path) \in Nat \ {0}
            /\ path = Append(Front(path), Last(path))
      /\ \A path \in failures :
            /\ path \in EntriesOf(listings) \/ Last(path) = 0
            /\ path = Append(Front(path), Last(path)) /\ Last(path) \in Nat
  BY <1>1, LenProperties, ReachedFacts
<1>4. ASSUME NEW p \in Nat
      PROVE  Append(dir, p) \in Telling
                <=> /\ (p \in 1..Len(Listing) /\ p <= scan.place) \/ (p = 0 /\ Append(dir, p) \in failures)
                    /\ First \/ p > scan.job.start
  <2>1. Append(dir, p) \in EntriesOf(listings) <=> p \in DOMAIN Listing
    <3>1. dir \in Seq(Nat) /\ ListsType(listings) /\ p \in Nat
      BY <1>1, <1>3
    <3>2. Append(dir, p) \in EntriesOf(listings)
             <=> dir \in DOMAIN listings /\ p \in DOMAIN listings[dir]
      BY <3>1, GoesFacts
    <3>3. QED
      BY <1>1, <3>2
  <2>2. Append(dir, p) \in failures => p \in DOMAIN Listing \/ p = 0
    BY <1>2, <1>3, <2>1
  <2>3. Fresh(Append(dir, p)) <=> First \/ p > scan.job.start
    BY <1>2 DEF Fresh
  <2>4. p \in DOMAIN Listing => (UpTo(Inner, p) <=> p <= scan.place)
    BY <1>1, <1>3 DEF UpTo, ReadTo
  <2>5. UpTo(Inner, 0)
    <3>1. CASE Inner.rest = <<>>
      BY <3>1 DEF UpTo
    <3>2. CASE Inner.rest # <<>>
      BY <1>1, <3>2 DEF UpTo, ReadTo
    <3>3. QED
      BY <3>1, <3>2
  <2>6. QED
    BY <1>2, <1>3, <2>1, <2>2, <2>3, <2>4, <2>5 DEF Telling
<1>5. ASSUME NEW path \in Telling
      PROVE  path = Append(dir, Last(path)) /\ Last(path) \in Nat /\ Front(path) = dir
  BY <1>3 DEF Telling, Fresh
<1>6. /\ Len(Saying(items)) = Len(items) /\ DOMAIN Saying(items) = DOMAIN items
      /\ \A m \in DOMAIN items : Saying(items)[m] = Says(items[m])
  <2>1. Len(items) \in Nat
    BY LenProperties, ReportedFacts
  <2>2. QED
    BY <1>1, <2>1 DEF Saying
<1>7. ASSUME NEW m \in DOMAIN items
      PROVE  /\ Saying(items)[m].what
                    = IF items[m].kind \in {"file", "directory"} THEN "recorded" ELSE "skipped"
             /\ Saying(items)[m].path
                    = IF items[m].place = 0 THEN dir ELSE Append(dir, items[m].place)
  <2> DEFINE item == items[m]
             what == IF item.kind \in {"file", "directory"} THEN "recorded" ELSE "skipped"
             path == IF item.place = 0 THEN dir ELSE Append(dir, item.place)
  <2>1. Saying(items)[m] = [what |-> what, path |-> path]
    BY <1>6 DEF Says, Call, ItemPath
  <2> HIDE DEF what, path
  <2>2. Saying(items)[m].what = what /\ Saying(items)[m].path = path
    BY <2>1
  <2>3. QED
    BY <2>2 DEF what, path
<1>8. \A m \in DOMAIN items : items[m].kind \in {"file", "directory", "special", "failed"}
  BY <1>1 DEF ItemType, Kinds
<1>9. ASSUME NEW m \in DOMAIN items
      PROVE  Append(dir, items[m].place) \in Telling
  <2>1. items[m].place > 0 => items[m].place \in DOMAIN Listing
    BY <1>1 DEF ItemInv
  <2>2. items[m].place = 0 => Append(dir, 0) \in failures
    BY <1>1 DEF ItemInv
  <2>3. QED
    BY <1>1, <1>3, <1>4, <2>1, <2>2
<1>10. Once(Saying(items))
  <2> SUFFICES ASSUME NEW m \in DOMAIN items, NEW n \in DOMAIN items,
                      Saying(items)[m] = Saying(items)[n]
               PROVE  m = n
    BY <1>6 DEF Once
  <2>1. Saying(items)[m].path = Saying(items)[n].path
    OBVIOUS
  <2>2. items[m].place = items[n].place
    <3> DEFINE p == items[m].place
               q == items[n].place
    <3>1. p \in Nat /\ q \in Nat
      BY <1>1
    <3>2. (IF p = 0 THEN dir ELSE Append(dir, p)) = (IF q = 0 THEN dir ELSE Append(dir, q))
      BY <1>7, <2>1
    <3> HIDE DEF p, q
    <3>3. p = q
      BY <1>2, <3>1, <3>2
    <3>4. QED
      BY <3>3 DEF p, q
  <2>3. QED
    BY <1>1, <2>2
<1>11. \A what : \A path : path \in Heard(Saying(items), what)
           <=> \E m \in DOMAIN items : Saying(items)[m].what = what /\ Saying(items)[m].path = path
  BY <1>6 DEF Heard
<1>12. Heard(Saying(items), "entered") = {}
  BY <1>7, <1>11
<1>13. ASSUME NEW path
       PROVE  path \in Heard(Saying(items), "recorded")
                  <=> path \in Telling /\ Goes(path, listings, refusals, failures)
  <2>1. ASSUME NEW m \in DOMAIN items, items[m].kind \in {"file", "directory"}
        PROVE  Goes(Append(dir, items[m].place), listings, refusals, failures)
    <3>1. /\ items[m].place > 0 /\ items[m].place \in DOMAIN Listing
          /\ Listing[items[m].place] = items[m].kind
          /\ Append(dir, items[m].place) \notin refusals \union failures
      BY <1>1, <2>1 DEF ItemInv
    <3>2. QED
      BY <1>1, <1>3, <2>1, <3>1, GoesFacts
  <2>2. ASSUME path \in Heard(Saying(items), "recorded")
        PROVE  path \in Telling /\ Goes(path, listings, refusals, failures)
    <3>1. PICK m \in DOMAIN items : /\ Saying(items)[m].what = "recorded"
                                    /\ Saying(items)[m].path = path
      BY <1>11, <2>2
    <3>2. items[m].kind \in {"file", "directory"}
      BY <1>7, <3>1
    <3>3. items[m].place # 0
      BY <1>1, <3>2
    <3>4. path = Append(dir, items[m].place)
      BY <1>7, <3>1, <3>3
    <3>5. QED
      BY <1>9, <2>1, <3>2, <3>4
  <2>3. ASSUME path \in Telling, Goes(path, listings, refusals, failures)
        PROVE  path \in Heard(Saying(items), "recorded")
    <3> DEFINE p == Last(path)
    <3>1. path = Append(dir, p) /\ p \in Nat
      BY <1>5, <2>3
    <3> HIDE DEF p
    <3>2. p \in DOMAIN Listing /\ Listing[p] # "special" /\ path \notin failures
      BY <1>1, <1>3, <2>3, <3>1, GoesFacts
    <3>3. p <= scan.place /\ p > scan.job.start
      <4>1. p # 0 /\ p > 0
        BY <1>3, <3>1, <3>2
      <4>2. p <= scan.place /\ (First \/ p > scan.job.start)
        BY <1>4, <2>3, <3>1, <4>1
      <4>3. QED
        BY <1>1, <4>1, <4>2 DEF First
    <3>4. p \in (scan.job.start + 1)..scan.place
      BY <1>1, <3>1, <3>3
    <3>5. PICK m \in DOMAIN items : items[m].place = p
      BY <1>1, <2>3, <3>1, <3>4
    <3>6. items[m].kind \in {"file", "directory"}
      <4>1. ItemInv(dir, items[m], Listing, refusals, failures)
        BY <1>1
      <4>2. QED
        BY <1>8, <3>1, <3>2, <3>5, <4>1 DEF ItemInv
    <3>7. Saying(items)[m].what = "recorded" /\ Saying(items)[m].path = path
      BY <1>1, <1>7, <3>1, <3>3, <3>5, <3>6
    <3>8. QED
      BY <1>11, <3>7
  <2>4. QED
    BY <2>2, <2>3
<1> DEFINE Bad == {path \in Telling :
                       Last(path) > 0
                       /\ (listings[Front(path)][Last(path)] = "special" \/ path \in failures)}
           Zero == {Front(path) : path \in {path \in Telling : Last(path) = 0}}
<1>14. ASSUME NEW path, path \in Heard(Saying(items), "skipped")
       PROVE  path \in Bad \union Zero
  <2>1. PICK m \in DOMAIN items : Saying(items)[m].what = "skipped" /\ Saying(items)[m].path = path
    BY <1>11, <1>14
  <2>2. items[m].kind \in {"special", "failed"}
    BY <1>7, <1>8, <2>1
  <2> DEFINE e == Append(dir, items[m].place)
  <2>3. e \in Telling /\ Front(e) = dir /\ Last(e) = items[m].place /\ items[m].place \in Nat
    BY <1>1, <1>2, <1>9
  <2>4. ItemInv(dir, items[m], Listing, refusals, failures)
    BY <1>1
  <2>5. CASE items[m].place = 0
    <3>1. path = dir
      BY <1>7, <2>1, <2>5
    <3> HIDE DEF e
    <3>2. QED
      BY <2>3, <2>5, <3>1
  <2>6. CASE items[m].place # 0
    <3>1. path = e
      BY <1>7, <2>1, <2>6
    <3>2. items[m].kind = "failed" => e \in failures
      BY <2>4 DEF ItemInv
    <3>3. items[m].kind = "special" => Listing[items[m].place] = "special"
      BY <2>4 DEF ItemInv
    <3> HIDE DEF e
    <3>4. QED
      BY <1>1, <2>2, <2>3, <2>6, <3>1, <3>2, <3>3
  <2>7. QED
    BY <2>5, <2>6
<1>15. ASSUME NEW path, path \in Bad
       PROVE  path \in Heard(Saying(items), "skipped")
  <2> DEFINE p == Last(path)
  <2>1. path = Append(dir, p) /\ p \in Nat /\ p > 0 /\ path \in Telling
        /\ (Listing[p] = "special" \/ path \in failures)
    BY <1>1, <1>5, <1>15
  <2> HIDE DEF p, Bad
  <2>2. p \in DOMAIN Listing /\ p <= scan.place /\ p > scan.job.start
    <3>1. p \in DOMAIN Listing /\ p <= scan.place /\ (First \/ p > scan.job.start)
      BY <1>3, <1>4, <2>1
    <3>2. QED
      BY <2>1, <3>1 DEF First
  <2>3. p \in (scan.job.start + 1)..scan.place
    BY <1>1, <2>1, <2>2
  <2>4. PICK m \in DOMAIN items : items[m].place = p
    BY <1>1, <2>1, <2>3
  <2>5. items[m].kind \notin {"file", "directory"}
    <3>1. ItemInv(dir, items[m], Listing, refusals, failures)
      BY <1>1
    <3>2. QED
      BY <2>1, <2>4, <3>1 DEF ItemInv
  <2>6. Saying(items)[m].what = "skipped" /\ Saying(items)[m].path = path
    <3>1. items[m].place # 0
      BY <2>1, <2>4
    <3>2. QED
      BY <1>7, <2>1, <2>4, <2>5, <3>1
  <2>7. QED
    BY <1>11, <2>6
<1>16. ASSUME NEW path, path \in Zero
       PROVE  path \in Heard(Saying(items), "skipped")
  <2>1. PICK f \in Telling : Last(f) = 0 /\ path = Front(f)
    BY <1>16
  <2>2. f = Append(dir, 0) /\ path = dir
    BY <1>5, <2>1
  <2>3. First /\ Append(dir, 0) \in failures
    BY <1>1, <1>4, <2>1, <2>2
  <2>4. PICK m \in DOMAIN items : items[m].place = 0
    BY <1>1, <2>3
  <2>5. Saying(items)[m].what = "skipped" /\ Saying(items)[m].path = path
    BY <1>1, <1>7, <2>2, <2>4
  <2>6. QED
    BY <1>11, <2>5
<1>17. Heard(Saying(items), "skipped") = Bad \union Zero
  BY <1>14, <1>15, <1>16
<1>18. Heard(Saying(items), "recorded")
           = {path \in Telling : Goes(path, listings, refusals, failures)}
  BY <1>13
<1>19. QED
  BY <1>10, <1>12, <1>17, <1>18

\* The finished scan comes to what the walk has then reached.
LEMMA ReportReached ==
    ASSUME BaseInv, ReadInv, CallsInv, Quiet, Report
    PROVE  /\ ReachedOf(listings, failures)' = ReachedOf(listings, failures) \union Telling
           /\ ReachedOf(listings, failures) \intersect Telling = {}
<1>1. /\ Scanning /\ pc' = "walk" /\ pc = "report" /\ stack' = Append(Outer, Inner)
      /\ Outer \in Seq(LevelType) /\ Inner \in LevelType
      /\ UNCHANGED <<listings, failures>>
  BY ReportFacts
<1>2. Active /\ ~Scanning'
  BY <1>1 DEF Active, Scanning
<1>3. Outer' = Outer /\ Inner' = Inner
  BY <1>1, <1>2, AppendedFacts DEF Outer, Inner, Top
<1>4. Inner.dir = scan.path /\ Cur = scan.path /\ Cur' = scan.path
  BY <1>1, <1>3, InnerScan DEF Cur
<1>5. \A k \in DOMAIN Outer : Outer[k].dir # scan.path
  <2>1. /\ Len(Cur) = Len(Outer) /\ \A k \in DOMAIN Outer : Len(Outer[k].dir) = k - 1
    BY <1>2, ReadFacts
  <2>2. DOMAIN Outer = 1..Len(Outer) /\ Len(Outer) \in Nat
    BY <1>1, LenProperties
  <2>3. QED
    BY <1>4, <2>1, <2>2
<1>6. scan.job.start \in Nat
  BY ScanTypes DEF BaseInv
<1>7. Inner.rest # <<>> => Inner.rest[1].start \in Nat /\ (~First => scan.job.start <= Inner.rest[1].start)
  <2> SUFFICES ASSUME Inner.rest # <<>>
               PROVE  /\ Inner.rest[1].start \in Nat
                      /\ ~First => scan.job.start <= Inner.rest[1].start
    OBVIOUS
  <2>1. Inner.rest \in Seq(JobType) /\ 1 \in 1..Len(Inner.rest)
    BY <1>1, EmptySeq DEF LevelType
  <2>2. Inner.rest[1] \in JobType
    BY <2>1, ElementOfSeq
  <2>3. ASSUME ~First
        PROVE  scan.job.start <= Inner.rest[1].start
    <3>1. ~scan.unreadable
      BY <1>1, <2>3 DEF BaseInv, PhaseInv
    <3>2. scan.place = ReadTo(Inner, Listing) /\ scan.job.start <= scan.place
      BY <1>1, <3>1, ReportedFacts
    <3>3. QED
      BY <3>2 DEF ReadTo
  <2>4. QED
    BY <2>2, <2>3 DEF JobType
<1>8. \A path \in EntriesOf(listings) \union failures : Last(path) \in Int
  BY <1>2, ReachedFacts
<1>9. ASSUME NEW path \in EntriesOf(listings) \union failures
      PROVE  /\ Reached(path)' <=> Reached(path) \/ (Fresh(path) /\ UpTo(Inner, Last(path)))
             /\ ~(Reached(path) /\ Fresh(path))
  <2>1. Last(path) \in Int
    BY <1>8
  <2>2. Reached(path)'
            <=> /\ \A k \in DOMAIN Outer : Front(path) = Outer[k].dir => UpTo(Outer[k], Last(path))
                /\ Front(path) = scan.path => UpTo(Inner, Last(path))
    BY <1>2, <1>3, <1>4 DEF Reached, UpTo
  <2>3. Reached(path)
            <=> /\ \A k \in DOMAIN Outer : Front(path) = Outer[k].dir => UpTo(Outer[k], Last(path))
                /\ Front(path) = scan.path => ~First /\ Last(path) <= scan.job.start
    BY <1>1, <1>4 DEF Reached
  <2>4. CASE Front(path) # scan.path
    BY <2>2, <2>3, <2>4 DEF Fresh
  <2>5. CASE Front(path) = scan.path
    <3>1. Reached(path)' <=> UpTo(Inner, Last(path))
      BY <1>5, <2>2, <2>5
    <3>2. Reached(path) <=> ~First /\ Last(path) <= scan.job.start
      BY <1>5, <2>3, <2>5
    <3>3. Fresh(path) <=> First \/ Last(path) > scan.job.start
      BY <2>5 DEF Fresh
    <3>4. Reached(path) => UpTo(Inner, Last(path))
      BY <1>6, <1>7, <2>1, <3>2 DEF UpTo
    <3>5. Fresh(path) <=> ~Reached(path)
      BY <1>6, <2>1, <3>2, <3>3
    <3>6. QED
      BY <3>1, <3>4, <3>5
  <2>6. QED
    BY <2>4, <2>5
<1>10. QED
  BY <1>1, <1>9 DEF ReachedOf, Telling

\* No two entries and listings are skipped in the same words.
LEMMA SkipsDiffer ==
    ASSUME BaseInv, ReadInv, CallsInv, Quiet, Active,
           NEW f \in EntriesOf(listings) \union failures,
           NEW e \in EntriesOf(listings) \union failures
    PROVE  /\ Last(f) = 0 /\ Last(e) > 0
              /\ (listings[Front(e)][Last(e)] = "special" \/ e \in failures)
                 => Front(f) # e
           /\ Last(f) = 0 /\ Last(e) = 0 /\ Front(f) = Front(e) => f = e
<1>1. /\ f = Append(Front(f), Last(f)) /\ e = Append(Front(e), Last(e)) /\ e # <<>>
      /\ Last(f) = 0 => f \in failures
  BY ReachedFacts
<1>2. Last(f) = 0 => Front(f) = <<>> \/ Front(f) \in ToSet(rows)
  BY <1>1 DEF CallsInv, ZeroInv
<1>3. \A r \in ToSet(rows) : Goes(r, listings, refusals, failures)
  BY ReadFacts DEF HistoryInv, RowsInv
<1>4. QED
  BY <1>1, <1>2, <1>3 DEF Goes

LEMMA ReportCalls == BaseInv /\ ReadInv /\ CallsInv /\ Quiet' /\ Report => CallsInv'
<1> SUFFICES ASSUME BaseInv, ReadInv, CallsInv, Quiet', Report
             PROVE  CallsInv'
  OBVIOUS
<1>1. /\ Scanning /\ pc' = "walk" /\ pc = "report"
      /\ UNCHANGED <<on_error, listings, rows, refusals, failures>>
      /\ ~(scan.unreadable /\ (scan.path = <<>> \/ on_error = "Fail"))
  BY ReportFacts
<1>2. Active /\ Quiet /\ TypeOK /\ PhaseInv
  BY <1>1, QuietBefore DEF Active, BaseInv
<1>3. /\ scan.path \in Seq(Nat) /\ scan.items \in Seq(ItemType)
      /\ on_error \in {"Fail", "Skip"} /\ scan.unreadable \in BOOLEAN
  BY <1>2, ScanTypes DEF TypeOK
<1>4. /\ calls \in Seq(CallType) /\ SeenInv /\ ZeroInv
      /\ CallsAre(calls, ReachedOf(listings, failures), ToSet(rows), listings, refusals, failures)
  BY <1>2 DEF CallsInv
<1>5. SeenInv' /\ ZeroInv'
  BY <1>1, <1>4 DEF SeenInv, ZeroInv
<1> DEFINE reached == ReachedOf(listings, failures)
<1>6. /\ ReachedOf(listings, failures)' = reached \union Telling
      /\ reached \intersect Telling = {}
      /\ reached \union Telling \subseteq EntriesOf(listings) \union failures
  BY <1>2, ReportReached DEF ReachedOf, Telling
<1>7. ASSUME NEW more \in Seq(CallType), calls' = calls \o more,
             Once(more), Heard(more, "entered") = {},
             Heard(more, "recorded") = {path \in Telling : Goes(path, listings, refusals, failures)},
             Heard(more, "skipped")
                 = {path \in Telling :
                       Last(path) > 0
                       /\ (listings[Front(path)][Last(path)] = "special" \/ path \in failures)}
                       \union {Front(path) : path \in {path \in Telling : Last(path) = 0}}
      PROVE  CallsInv'
  <2>1. \A f, e \in reached \union Telling :
            /\ Last(f) = 0 /\ Last(e) > 0
               /\ (listings[Front(e)][Last(e)] = "special" \/ e \in failures)
                  => Front(f) # e
            /\ Last(f) = 0 /\ Last(e) = 0 /\ Front(f) = Front(e) => f = e
    BY <1>2, <1>6, SkipsDiffer
  <2> DEFINE found == ToSet(rows)
             new == Telling
  <2>2. CallsAre(calls, reached, found, listings, refusals, failures) /\ reached \intersect new = {}
    BY <1>4, <1>6
  <2> HIDE DEF reached, found
  <2>3. calls \o more \in Seq(CallType)
    BY <1>4, HeardMore
  <2>4. CallsAre(calls \o more, reached \union new, found, listings, refusals, failures)
    <3> HIDE DEF new
    <3>1. QED
      BY <1>4, <1>7, <2>1, <2>2, CallsGrow DEF new
  <2>5. ToSet(rows)' = found
    BY <1>1 DEF found, ToSet
  <2>6. QED
    BY <1>1, <1>5, <1>6, <1>7, <2>3, <2>4, <2>5 DEF CallsInv
<1>8. CASE ~scan.unreadable
  <2>1. /\ DOMAIN scan.items = 1..Len(scan.items)
        /\ \A m \in DOMAIN scan.items : CallsOf(scan.items[m]) = <<Says(scan.items[m])>>
    BY <1>1, <1>2, <1>8, ReportedFacts
  <2>2. Told(calls) = calls \o Saying(scan.items) /\ Saying(scan.items) \in Seq(CallType)
    BY <1>3, <1>4, <2>1, ToldSays
  <2>3. calls' = calls \o Saying(scan.items)
    BY <1>8, <2>2 DEF Report, Reported
  <2>4. /\ Once(Saying(scan.items)) /\ Heard(Saying(scan.items), "entered") = {}
        /\ Heard(Saying(scan.items), "recorded")
               = {path \in Telling : Goes(path, listings, refusals, failures)}
        /\ Heard(Saying(scan.items), "skipped")
               = {path \in Telling :
                     Last(path) > 0
                     /\ (listings[Front(path)][Last(path)] = "special" \/ path \in failures)}
                     \union {Front(path) : path \in {path \in Telling : Last(path) = 0}}
    BY <1>1, <1>2, <1>8, SayingIsTelling
  <2>5. QED
    BY <1>7, <2>2, <2>3, <2>4
<1>9. CASE scan.unreadable
  <2> DEFINE x == Append(scan.path, 0)
             call == Call("skipped", scan.path)
             one == <<call>>
             first == Append(calls, call)
  <2>1. scan.path # <<>> /\ on_error = "Skip" /\ scan.items = <<>>
    BY <1>1, <1>2, <1>3, <1>9 DEF PhaseInv
  <2>2. First /\ Unlisted
    BY <1>1, <1>2, <1>9 DEF PhaseInv, Unlisted
  <2>3. call \in CallType /\ call.what = "skipped" /\ call.path = scan.path
    BY <1>3 DEF Call, CallType
  <2>4. one \in Seq(CallType) /\ DOMAIN one = {1} /\ one[1] = call
    BY <2>3
  <2>5. calls' = calls \o one
    <3>1. first \in Seq(CallType) /\ first = calls \o one
      BY <1>4, <2>3
    <3>2. Len(scan.items) = 0 /\ \A m \in 1..Len(scan.items) : CallsOf(scan.items[m]) = <<Says(scan.items[m])>>
      BY <2>1, EmptySeq
    <3>3. Told(first) = first \o Saying(scan.items)
      <4> HIDE DEF first
      <4>1. QED
        BY <1>3, <3>1, <3>2, ToldSays
    <3>4. Saying(scan.items) = <<>>
      BY <3>2 DEF Saying
    <3>5. Told(first) = first
      <4> HIDE DEF first
      <4>1. QED
        BY <3>1, <3>3, <3>4
    <3>6. calls' = Told(first)
      BY <1>9, <2>1 DEF Report, Reported
    <3>7. QED
      BY <3>1, <3>5, <3>6
  <2>6. Front(x) = scan.path /\ Last(x) = 0 /\ x \in failures
    <3>1. Append(scan.path, 0) \in failures
      BY <1>1, <1>2, <1>9, ReadFacts DEF WindowInv
    <3>2. QED
      BY <1>3, <3>1, PathFacts
  <2>7. Telling = {x}
    <3>1. scan.path \notin DOMAIN listings
      BY <1>2, <2>2, ReadFacts DEF UnlistedInv
    <3>2. ASSUME NEW path \in Telling
          PROVE  path = x
      <4>1. path \in EntriesOf(listings) \union failures /\ Front(path) = scan.path
        BY DEF Telling, Fresh
      <4>2. path = Append(Front(path), Last(path))
            /\ (path \in EntriesOf(listings) => Front(path) \in DOMAIN listings)
            /\ (path \in EntriesOf(listings) \/ Last(path) = 0)
        BY <1>2, <4>1, ReachedFacts
      <4>3. QED
        BY <3>1, <4>1, <4>2
    <3>3. UpTo(Inner, 0)
      <4>1. Inner.rest # <<>> => Inner.rest[1].start \in Nat
        <5> SUFFICES ASSUME Inner.rest # <<>>
                     PROVE  Inner.rest[1].start \in Nat
          OBVIOUS
        <5>1. Inner.rest \in Seq(JobType) /\ 1 \in 1..Len(Inner.rest)
          BY <1>2, ReadFacts, EmptySeq DEF LevelType
        <5>2. Inner.rest[1] \in JobType
          BY <5>1, ElementOfSeq
        <5>3. QED
          BY <5>2 DEF JobType
      <4>2. QED
        BY <4>1 DEF UpTo
    <3>4. x \in Telling
      BY <2>2, <2>6, <3>3 DEF Telling, Fresh
    <3>5. QED
      BY <3>2, <3>4
  <2>8. x \notin EntriesOf(listings)
    BY <1>2, <2>6, ReachedFacts
  <2>9. Once(one)
    BY <2>4 DEF Once
  <2>10. \A what : Heard(one, what) = IF what = "skipped" THEN {scan.path} ELSE {}
    BY <2>3, <2>4 DEF Heard
  <2> HIDE DEF x, one
  <2>11. /\ {path \in Telling : Goes(path, listings, refusals, failures)} = {}
         /\ {path \in Telling :
                Last(path) > 0
                /\ (listings[Front(path)][Last(path)] = "special" \/ path \in failures)} = {}
         /\ {Front(path) : path \in {path \in Telling : Last(path) = 0}} = {scan.path}
    BY <2>6, <2>7, <2>8 DEF Goes
  <2>12. Heard(one, "entered") = {} /\ Heard(one, "recorded") = {} /\ Heard(one, "skipped") = {scan.path}
    BY <2>10
  <2>13. QED
    BY <1>7, <2>4, <2>5, <2>9, <2>11, <2>12
<1>10. QED
  BY <1>3, <1>8, <1>9

-----------------------------------------------------------------------------
(* The walk goes on.                                                       *)

\* What was reached stays so, and the directories entered are those in rows.
LEMMA WalkCalls ==
    ASSUME BaseInv, ReadInv, CallsInv, Quiet', Active, Active',
           UNCHANGED <<on_error, listings, refusals, failures>>,
           \A path \in EntriesOf(listings) \union failures : Reached(path)' <=> Reached(path),
           rows' \in Seq(Seq(Nat)), ToSet(rows) \subseteq ToSet(rows'), calls' \in Seq(CallType),
           Once(calls'),
           \A what \in {"recorded", "skipped"} : Heard(calls', what) = Heard(calls, what),
           Heard(calls', "entered")
               = {<<>>} \union {path \in ToSet(rows') : listings[Front(path)][Last(path)] = "directory"},
           pc' \notin {"entries", "report"},
           pc' \in {"fill", "list"} /\ First' => Append(scan'.path, 0) \notin failures
    PROVE  CallsInv'
<1>1. Quiet
  BY QuietBefore
<1>2. /\ ZeroInv
      /\ CallsAre(calls, ReachedOf(listings, failures), ToSet(rows), listings, refusals, failures)
  BY <1>1 DEF CallsInv
<1>3. ReachedOf(listings, failures)' = ReachedOf(listings, failures)
  BY DEF ReachedOf
<1>4. CallsAre(calls', ReachedOf(listings, failures), ToSet(rows'), listings, refusals, failures)
  BY <1>2 DEF CallsAre
<1>5. SeenInv' /\ ZeroInv'
  BY <1>2 DEF SeenInv, ZeroInv
<1>6. ToSet(rows)' = ToSet(rows')
  OBVIOUS
<1>7. QED
  BY <1>3, <1>4, <1>5, <1>6 DEF CallsInv

\* The same when the receiver hears nothing and no directory is entered.
LEMMA SilentCalls ==
    ASSUME BaseInv, ReadInv, CallsInv, Quiet', Active, Active',
           UNCHANGED <<on_error, listings, refusals, failures, calls>>,
           \A path \in EntriesOf(listings) \union failures : Reached(path)' <=> Reached(path),
           rows' \in Seq(Seq(Nat)), ToSet(rows) \subseteq ToSet(rows'),
           \A path \in ToSet(rows') \ ToSet(rows) : listings[Front(path)][Last(path)] # "directory",
           pc' = "walk" \/ (pc' = "fill" /\ ~First')
    PROVE  CallsInv'
<1>1. Quiet
  BY QuietBefore
<1>2. /\ calls \in Seq(CallType)
      /\ CallsAre(calls, ReachedOf(listings, failures), ToSet(rows), listings, refusals, failures)
  BY <1>1 DEF CallsInv
<1>3. {path \in ToSet(rows') : listings[Front(path)][Last(path)] = "directory"}
          = {path \in ToSet(rows) : listings[Front(path)][Last(path)] = "directory"}
  OBVIOUS
<1>4. /\ Once(calls)
      /\ Heard(calls, "entered")
             = {<<>>} \union {path \in ToSet(rows') : listings[Front(path)][Last(path)] = "directory"}
  BY <1>2, <1>3 DEF CallsAre
<1>5. /\ calls' \in Seq(CallType) /\ Once(calls')
      /\ \A what \in {"recorded", "skipped"} : Heard(calls', what) = Heard(calls, what)
      /\ Heard(calls', "entered")
             = {<<>>} \union {path \in ToSet(rows') : listings[Front(path)][Last(path)] = "directory"}
  BY <1>2, <1>4
<1>6. pc' \notin {"entries", "report"} /\ (pc' \in {"fill", "list"} /\ First' => FALSE)
  OBVIOUS
<1>7. QED
  BY <1>5, <1>6, WalkCalls

LEMMA VisitRowCalls ==
    BaseInv /\ ReadInv /\ CallsInv /\ Quiet' /\ (VisitFile \/ VisitSkipped) => CallsInv'
<1> SUFFICES ASSUME BaseInv, ReadInv, CallsInv, Quiet', VisitFile \/ VisitSkipped
             PROVE  CallsInv'
  OBVIOUS
<1> DEFINE item == Head(Top.items)
           x == Append(Top.dir, item.place)
           past == Past(Top)
<1>1. /\ Visiting /\ stack' = Visited /\ pc = "walk" /\ pc' = "walk"
      /\ UNCHANGED <<on_error, listings, refusals, failures, calls>>
      /\ \/ item.kind = "file" /\ rows' = Append(rows, ItemPath(Top.dir, item))
         \/ rows' = rows
  BY DEF VisitFile, VisitSkipped, Visiting, history
<1>2. /\ past \in LevelType /\ past.dir = Top.dir /\ past.rest = Top.rest
      /\ past.items = Tail(Top.items)
      /\ Front(Visited) = Front(stack) /\ Last(Visited) = past
  BY <1>1, VisitFacts
<1> HIDE DEF past
<1>3. /\ Active /\ ~Scanning /\ Cur = Top.dir /\ Outer = Front(stack) /\ Inner = Top
      /\ Top.dir \in DOMAIN listings /\ Top.dir \in Seq(Nat) /\ x \in Seq(Nat)
      /\ item \in ItemType
      /\ item.place = 0 => item.kind = "failed"
      /\ ItemInv(Top.dir, item, listings[Top.dir], refusals, failures)
  BY <1>1, <1>2, NextItem
<1>4. Active' /\ ~Scanning' /\ rows \in Seq(Seq(Nat))
  BY <1>1, <1>3, ReadFacts DEF Active, Scanning
<1>5. Outer' = Outer /\ Inner' = past /\ Cur' = Top.dir
  BY <1>1, <1>2, <1>3, <1>4 DEF Outer, Inner, Top, Cur
<1>6. \A path : Reached(path)' <=> Reached(path)
  BY <1>2, <1>3, <1>4, <1>5 DEF Reached, UpTo
<1> HIDE DEF item
<1>7. item.kind = "file" => /\ ItemPath(Top.dir, item) = x
                            /\ listings[Front(x)][Last(x)] = "file"
  <2> SUFFICES ASSUME item.kind = "file"
               PROVE  ItemPath(Top.dir, item) = x /\ listings[Front(x)][Last(x)] = "file"
    OBVIOUS
  <2>1. item.place \in Nat /\ item.place # 0
    BY <1>3 DEF ItemType
  <2>2. listings[Top.dir][item.place] = "file"
    BY <1>3 DEF ItemInv
  <2>3. QED
    BY <1>3, <2>1, <2>2, PathFacts DEF ItemPath
<1> HIDE DEF x
<1>8. /\ rows' \in Seq(Seq(Nat)) /\ ToSet(rows) \subseteq ToSet(rows')
      /\ \A path \in ToSet(rows') \ ToSet(rows) : listings[Front(path)][Last(path)] # "directory"
  <2>1. CASE rows' = rows
    BY <1>4, <2>1
  <2>2. CASE item.kind = "file" /\ rows' = Append(rows, x)
    <3>1. rows' \in Seq(Seq(Nat)) /\ ToSet(rows') = ToSet(rows) \union {x}
      BY <1>3, <1>4, <2>2, ToSetAppend, AppendProperties
    <3>2. QED
      BY <1>7, <2>2, <3>1
  <2>3. QED
    BY <1>1, <1>7, <2>1, <2>2
<1>9. QED
  BY <1>1, <1>3, <1>4, <1>6, <1>8, SilentCalls

LEMMA VisitDirectoryCalls == BaseInv /\ ReadInv /\ CallsInv /\ Quiet' /\ VisitDirectory => CallsInv'
<1> SUFFICES ASSUME BaseInv, ReadInv, CallsInv, Quiet', VisitDirectory
             PROVE  CallsInv'
  OBVIOUS
<1> DEFINE item == Head(Top.items)
           job == Head(Top.subdirs)
           x == Append(Top.dir, item.place)
           within == Within(Top)
<1>1. /\ Visiting /\ item.kind = "directory" /\ item.place \in Nat \ {0}
      /\ x \in Seq(Nat) /\ Take(x, job) /\ rows' = Append(rows, x)
      /\ job \in JobType /\ job.start = 0
      /\ within \in LevelType /\ within.dir = Top.dir /\ within.rest = Top.rest
      /\ within.items = Tail(Top.items)
      /\ stack' = Append(Front(stack), within)
      /\ UNCHANGED <<on_error, listings, refusals, failures>>
  BY VisitDirectoryFacts
<1> HIDE DEF within
<1>2. /\ pc = "walk" /\ Active /\ ~Scanning /\ Cur = Top.dir
      /\ Outer = Front(stack) /\ Inner = Top
      /\ Top.dir \in DOMAIN listings /\ Top.dir \in Seq(Nat)
      /\ ItemInv(Top.dir, item, listings[Top.dir], refusals, failures)
      /\ x \in Ahead
  BY <1>1, NextItem
<1>3. /\ ListsType(listings) /\ rows \in Seq(Seq(Nat)) /\ Outer \in Seq(LevelType)
      /\ HistoryInv(on_error, rows, Ahead, listings, refusals, failures, Lost)
  BY <1>2, ReadFacts
<1>4. /\ scan'.path = x /\ scan'.job = job /\ pc' = "fill"
      /\ calls' = Append(calls, Call("entered", x))
  BY <1>1, NewScanFacts DEF Take
<1> HIDE DEF job
<1>5. Active' /\ Scanning' /\ First' /\ Outer' = Append(Outer, within) /\ Cur' = x
  <2>1. Active' /\ Scanning' /\ First'
    BY <1>1, <1>4 DEF Active, Scanning, First
  <2>2. QED
    BY <1>1, <1>2, <1>4, <2>1 DEF Outer, Inner, Cur
<1>6. x # <<>> /\ x \notin ToSet(rows) /\ x \notin DOMAIN listings
  <2>1. x # <<>>
    BY <1>1, <1>2, PathFacts
  <2> HIDE DEF x
  <2>2. \A r \in ToSet(rows) : Before(r, x) /\ r \in Seq(Nat)
    BY <1>1, <1>2, <1>3, ToSetAppend DEF HistoryInv, RowsInv
  <2>3. x \notin ToSet(rows)
    BY <1>1, <2>2, BeforeIsNot
  <2>4. \A dir \in DOMAIN listings : dir = <<>> \/ dir \in ToSet(rows)
    BY <1>3 DEF HistoryInv, ListsInv
  <2>5. QED
    BY <2>1, <2>3, <2>4
<1>7. listings[Front(x)][Last(x)] = "directory"
  <2>1. listings[Top.dir][item.place] = "directory"
    BY <1>1, <1>2 DEF ItemInv
  <2>2. Front(x) = Top.dir /\ Last(x) = item.place
    BY <1>1, <1>2, PathFacts
  <2>3. QED
    BY <2>1, <2>2
<1> HIDE DEF item, x
<1>8. Quiet
  BY <1>1, QuietBefore
<1>9. /\ calls \in Seq(CallType) /\ ZeroInv
      /\ CallsAre(calls, ReachedOf(listings, failures), ToSet(rows), listings, refusals, failures)
  BY <1>2, <1>8 DEF CallsInv
<1>10. \A f \in failures : Last(f) = 0 => Front(f) # x
  BY <1>6, <1>9 DEF ZeroInv
<1>11. ASSUME NEW path \in EntriesOf(listings) \union failures
       PROVE  Reached(path)' <=> Reached(path)
  <2>1. Front(path) # x
    <3>1. /\ path \in EntriesOf(listings) => Front(path) \in DOMAIN listings
          /\ path \in EntriesOf(listings) \/ (path \in failures /\ Last(path) = 0)
      BY <1>2, ReachedFacts
    <3>2. QED
      BY <1>6, <1>10, <3>1
  <2>2. /\ DOMAIN Outer = 1..Len(Outer) /\ Len(Outer) \in Nat
        /\ DOMAIN Outer' = 1..(Len(Outer) + 1)
        /\ \A k \in 1..Len(Outer) : Outer'[k] = Outer[k]
        /\ Outer'[Len(Outer) + 1] = within
    BY <1>1, <1>3, <1>5, AppendProperties, LenProperties
  <2>3. /\ DOMAIN Outer' = DOMAIN Outer \union {Len(Outer) + 1}
        /\ Len(Outer) + 1 \notin DOMAIN Outer
    BY <2>2
  <2>4. (\A k \in DOMAIN Outer' : Front(path) = Outer'[k].dir => UpTo(Outer'[k], Last(path)))
            <=> /\ \A k \in DOMAIN Outer : Front(path) = Outer[k].dir => UpTo(Outer[k], Last(path))
                /\ Front(path) = Top.dir => UpTo(Top, Last(path))
    BY <1>1, <2>2, <2>3 DEF UpTo
  <2>5. Reached(path)' <=> \A k \in DOMAIN Outer' :
                               Front(path) = Outer'[k].dir => UpTo(Outer'[k], Last(path))
    BY <1>5, <2>1 DEF Reached, UpTo
  <2>6. Reached(path)
            <=> /\ \A k \in DOMAIN Outer : Front(path) = Outer[k].dir => UpTo(Outer[k], Last(path))
                /\ Front(path) = Top.dir => UpTo(Top, Last(path))
    BY <1>2 DEF Reached
  <2>7. QED
    BY <2>4, <2>5, <2>6
<1>12. /\ rows' \in Seq(Seq(Nat)) /\ ToSet(rows') = ToSet(rows) \union {x}
       /\ ToSet(rows) \subseteq ToSet(rows')
  BY <1>1, <1>3, ToSetAppend, AppendProperties
<1> DEFINE call == Call("entered", x)
<1>13. call \in CallType /\ call.what = "entered" /\ call.path = x
  BY <1>1 DEF Call, CallType
<1> HIDE DEF call
<1>14. /\ Append(calls, call) \in Seq(CallType)
       /\ \A what : Heard(Append(calls, call), what)
              = Heard(calls, what) \union (IF call.what = what THEN {call.path} ELSE {})
       /\ Once(calls) /\ call.path \notin Heard(calls, call.what) => Once(Append(calls, call))
  BY <1>9, <1>13, HeardAppend
<1>15. /\ Once(calls)
       /\ Heard(calls, "entered")
              = {<<>>} \union {path \in ToSet(rows) : listings[Front(path)][Last(path)] = "directory"}
  BY <1>9 DEF CallsAre
<1>16. x \notin Heard(calls, "entered")
  BY <1>6, <1>15
<1>17. /\ calls' \in Seq(CallType) /\ Once(calls')
       /\ Heard(calls', "entered") = Heard(calls, "entered") \union {x}
       /\ Heard(calls', "recorded") = Heard(calls, "recorded")
       /\ Heard(calls', "skipped") = Heard(calls, "skipped")
  <2>1. calls' = Append(calls, call)
    BY <1>4 DEF call
  <2>2. \A what : Heard(calls', what) = Heard(calls, what) \union (IF "entered" = what THEN {x} ELSE {})
    BY <1>13, <1>14, <2>1
  <2>3. Heard(calls', "entered") = Heard(calls, "entered") \union {x}
    BY <2>2
  <2>4. Heard(calls', "recorded") = Heard(calls, "recorded")
    BY <2>2
  <2>5. Heard(calls', "skipped") = Heard(calls, "skipped")
    BY <2>2
  <2>6. QED
    BY <1>13, <1>14, <1>15, <1>16, <2>1, <2>3, <2>4, <2>5
<1>18. Heard(calls', "entered")
           = {<<>>} \union {path \in ToSet(rows') : listings[Front(path)][Last(path)] = "directory"}
  <2>1. {path \in ToSet(rows') : listings[Front(path)][Last(path)] = "directory"}
            = {path \in ToSet(rows) : listings[Front(path)][Last(path)] = "directory"} \union {x}
    BY <1>7, <1>12
  <2>2. QED
    BY <1>15, <1>17, <2>1
<1>19. Append(scan'.path, 0) \notin failures
  <2>1. Front(Append(x, 0)) = x /\ Last(Append(x, 0)) = 0
    BY <1>1, PathFacts
  <2>2. QED
    BY <1>4, <1>10, <2>1
<1>20. \A what \in {"recorded", "skipped"} : Heard(calls', what) = Heard(calls, what)
  BY <1>17
<1>21. QED
  BY <1>1, <1>2, <1>4, <1>5, <1>11, <1>12, <1>17, <1>18, <1>19, <1>20, WalkCalls

LEMMA ReadOnCalls == BaseInv /\ ReadInv /\ CallsInv /\ Quiet' /\ ReadOn => CallsInv'
<1> SUFFICES ASSUME BaseInv, ReadInv, CallsInv, Quiet', ReadOn
             PROVE  CallsInv'
  OBVIOUS
<1> DEFINE job == Head(Top.rest)
<1>1. /\ pc = "walk" /\ stack # <<>> /\ Top.rest # <<>> /\ Take(Top.dir, job)
      /\ Top.dir \in Seq(Nat) /\ job = Top.rest[1] /\ job \in JobType /\ job.start > 0
      /\ Front(stack') = Front(stack)
      /\ UNCHANGED <<on_error, listings, rows, refusals, failures>>
  BY ReadOnFacts
<1>2. /\ Outer = Front(stack) /\ Inner = Top /\ Active /\ ~Scanning /\ Cur = Top.dir
  BY <1>1, WalkFacts DEF Active, Scanning, Cur
<1> HIDE DEF job
<1>3. job.start # 0
  BY <1>1 DEF JobType
<1>4. scan'.path = Top.dir /\ scan'.job = job /\ pc' = "fill" /\ calls' = calls
  BY <1>1, <1>3, NewScanFacts DEF Take
<1>5. Active' /\ Scanning' /\ ~First'
  BY <1>3, <1>4 DEF Active, Scanning, First
<1>6. Outer' = Outer /\ Cur' = Top.dir
  BY <1>1, <1>2, <1>4, <1>5 DEF Outer, Inner, Cur
<1>7. \A path : Reached(path)' <=> Reached(path)
  BY <1>1, <1>2, <1>4, <1>5, <1>6 DEF Reached, UpTo
<1>8. rows \in Seq(Seq(Nat)) /\ rows' = rows
  BY <1>1, <1>2, ReadFacts
<1>9. QED
  BY <1>1, <1>2, <1>4, <1>5, <1>7, <1>8, SilentCalls

LEMMA LeaveCalls == BaseInv /\ ReadInv /\ CallsInv /\ Quiet' /\ Leave => CallsInv'
<1> SUFFICES ASSUME BaseInv, ReadInv, CallsInv, Quiet', Leave
             PROVE  CallsInv'
  OBVIOUS
<1>1. /\ pc = "walk" /\ stack # <<>> /\ Top.items = <<>> /\ Top.rest = <<>>
      /\ stack' = Front(stack) /\ pc' = IF Len(stack) = 1 THEN "done" ELSE "walk"
      /\ UNCHANGED <<on_error, scan, listings, rows, refusals, failures, calls>>
  BY DEF Leave, UsedUp, history
<1>2. CASE Len(stack) = 1
  BY <1>1, <1>2 DEF CallsInv, Active
<1>3. CASE Len(stack) # 1
  <2>1. /\ Outer = Front(stack) /\ Inner = Top
        /\ Len(Front(stack)) = Len(stack) - 1 /\ Len(stack) \in Nat
        /\ Outer \in Seq(LevelType)
    BY <1>1, WalkFacts
  <2>2. Active /\ ~Scanning /\ Cur = Top.dir
    BY <1>1, <2>1 DEF Active, Scanning, Cur
  <2> DEFINE levels == Front(Outer)
             level == Last(Outer)
  <2>3. Outer # <<>>
    <3>1. Len(stack) - 1 # 0
      BY <1>3, <2>1
    <3>2. QED
      BY <2>1, <3>1, EmptySeq
  <2>4. /\ levels \in Seq(LevelType) /\ level \in LevelType /\ Outer = Append(levels, level)
    BY <2>1, <2>3, FrontAndLast
  <2>5. Active' /\ ~Scanning' /\ rows \in Seq(Seq(Nat))
    BY <1>1, <1>3, <2>2, ReadFacts DEF Active, Scanning
  <2>6. Outer' = levels /\ Inner' = level /\ Cur' = level.dir
    BY <1>1, <2>1, <2>5 DEF Outer, Inner, Cur, Top
  <2> HIDE DEF levels, level
  <2>7. /\ DOMAIN levels = 1..Len(levels) /\ Len(levels) \in Nat
        /\ DOMAIN Outer = 1..(Len(levels) + 1)
        /\ \A k \in 1..Len(levels) : Outer[k] = levels[k]
        /\ Outer[Len(levels) + 1] = level
    BY <2>1, <2>4, AppendProperties, LenProperties
  <2>8. DOMAIN Outer = DOMAIN levels \union {Len(levels) + 1} /\ Len(levels) + 1 \notin DOMAIN levels
    BY <2>7
  <2>9. ASSUME NEW path
        PROVE  Reached(path)' <=> Reached(path)
    <3>1. (\A k \in DOMAIN Outer : Front(path) = Outer[k].dir => UpTo(Outer[k], Last(path)))
              <=> /\ \A k \in DOMAIN levels : Front(path) = levels[k].dir => UpTo(levels[k], Last(path))
                  /\ Front(path) = level.dir => UpTo(level, Last(path))
      BY <2>7, <2>8
    <3>2. UpTo(Top, Last(path))
      BY <1>1 DEF UpTo
    <3>3. Reached(path)
              <=> \A k \in DOMAIN Outer : Front(path) = Outer[k].dir => UpTo(Outer[k], Last(path))
      BY <2>1, <2>2, <3>2 DEF Reached
    <3>4. Reached(path)'
              <=> /\ \A k \in DOMAIN levels : Front(path) = levels[k].dir => UpTo(levels[k], Last(path))
                  /\ Front(path) = level.dir => UpTo(level, Last(path))
      BY <2>5, <2>6 DEF Reached, UpTo
    <3>5. QED
      BY <3>1, <3>3, <3>4
  <2>10. QED
    BY <1>1, <1>3, <2>2, <2>5, <2>9, SilentCalls
<1>4. QED
  BY <1>2, <1>3

LEMMA StartCalls == BaseInv /\ Unheard /\ Start => CallsInv'
<1> SUFFICES ASSUME BaseInv, Unheard, Start
             PROVE  CallsInv'
  OBVIOUS
<1>1. /\ rows = <<>> /\ DOMAIN listings = {} /\ failures = {} /\ calls = <<>>
      /\ Take(<<>>, Root) /\ UNCHANGED <<listings, rows, refusals, failures>>
  BY DEF Start, BaseInv, PhaseInv, Unheard
<1>2. Root.start = 0
  BY DEF Root, DirectoryJob
<1> DEFINE root == <<>>
           call == Call("entered", root)
           none == <<>>
<1>3. pc' = "fill" /\ calls' = Append(none, call)
  BY <1>1, <1>2 DEF Take
<1>4. root \in Seq(Nat) /\ none \in Seq(CallType) /\ DOMAIN none = {}
  BY EmptySeq
<1>5. call \in CallType /\ call.what = "entered" /\ call.path = root
  BY <1>4 DEF Call, CallType
<1>6. EntriesOf(listings') = {} /\ failures' = {} /\ ToSet(rows') = {}
  BY <1>1, <1>4 DEF EntriesOf, ToSet
<1>7. ReachedOf(listings, failures)' = {}
  BY <1>6 DEF ReachedOf
<1> HIDE DEF call, none
<1>8. \A what : Heard(none, what) = {}
  BY <1>4 DEF Heard
<1>9. Once(none)
  BY <1>4 DEF Once
<1>10. /\ calls' \in Seq(CallType) /\ Once(calls')
       /\ \A what : Heard(calls', what) = IF "entered" = what THEN {root} ELSE {}
  <2>1. /\ Append(none, call) \in Seq(CallType)
        /\ \A what : Heard(Append(none, call), what)
               = Heard(none, what) \union (IF call.what = what THEN {call.path} ELSE {})
        /\ Once(none) /\ call.path \notin Heard(none, call.what) => Once(Append(none, call))
    BY <1>4, <1>5, HeardAppend
  <2>2. call.path \notin Heard(none, call.what)
    BY <1>8
  <2> DEFINE list == Append(none, call)
  <2> HIDE DEF list, root
  <2>3. \A what : Heard(list, what) = IF "entered" = what THEN {root} ELSE {}
    BY <1>5, <1>8, <2>1 DEF list
  <2>4. QED
    BY <1>3, <1>9, <2>1, <2>2, <2>3 DEF list
<1>11. /\ Heard(calls', "entered") = {root} /\ Heard(calls', "recorded") = {}
       /\ Heard(calls', "skipped") = {}
  <2>1. Heard(calls', "entered") = {root}
    BY <1>10
  <2>2. Heard(calls', "recorded") = {}
    BY <1>10
  <2>3. Heard(calls', "skipped") = {}
    BY <1>10
  <2>4. QED
    BY <2>1, <2>2, <2>3
<1>12. CallsAre(calls', {}, {}, listings', refusals', failures')
  BY <1>10, <1>11 DEF CallsAre
<1>13. SeenInv' /\ ZeroInv'
  BY <1>3, <1>6 DEF SeenInv, ZeroInv
<1>14. ToSet(rows)' = {}
  BY <1>6
<1>15. QED
  BY <1>7, <1>10, <1>12, <1>13, <1>14 DEF CallsInv

LEMMA CallsStep == BaseInv /\ ReadInv /\ Unheard /\ CallsInv /\ Next => CallsInv'
<1> SUFFICES ASSUME BaseInv, ReadInv, Unheard, CallsInv, Next, Quiet'
             PROVE  CallsInv'
  BY DEF CallsInv
<1>1. CASE Fill
  BY <1>1, FillCalls, ListCalls DEF Fill
<1>2. CASE Cancelled \/ VisitFailed \/ ScanFails
  BY <1>2 DEF Cancelled, VisitFailed, ScanFails, FailOn, CallsInv, Active
<1>3. CASE Visit
  BY <1>2, <1>3, VisitRowCalls, VisitDirectoryCalls DEF Visit
<1>4. CASE Terminating
  BY <1>4 DEF Terminating, vars, CallsInv, Active
<1>5. QED
  BY <1>1, <1>2, <1>3, <1>4, StartCalls, EntriesCalls, ReportCalls, ReadOnCalls, LeaveCalls
     DEF Next, Step

LEMMA CallsStutter == CallsInv /\ UNCHANGED vars => CallsInv'
  BY DEF vars, history, CallsInv, Quiet, Active, SeenInv, ZeroInv, ReachedOf, Reached, Cur,
         Scanning, First, Listing, Inner, Outer, Top

LEMMA UnheardStep == Unheard /\ [Next]_vars => Unheard'
<1> SUFFICES ASSUME Unheard, [Next]_vars, pc' = "start"
             PROVE  calls' = <<>>
  BY DEF Unheard
<1>1. UNCHANGED vars
  BY DEF Next, Step, Start, Fill, FillRefused, FillOpened, FillRest, Open, OpenStarved, List,
         Unreadable, ListWhole, ListCut, Opens, Entries, EntrySpecial, EntryRefused, EntryFile,
         EntryDirectory, EntriesEnd, FailedHere, Reading, ScanFails, Report, Visit, Cancelled,
         VisitFile, VisitSkipped, VisitFailed, VisitDirectory, Visiting, ReadOn, UsedUp, Leave,
         Take, FailOn, Terminating
<1>2. QED
  BY <1>1 DEF Unheard, vars, history

-----------------------------------------------------------------------------
(* The walk ends.                                                          *)

\* Whatever has been listed is reached when the walk is done.
LEMMA CallsAtEnd ==
    ASSUME BaseInv, ReadInv, CallsInv, Leave, Len(stack) = 1
    PROVE  /\ ListsType(listings) /\ Active /\ Quiet /\ calls \in Seq(CallType)
           /\ ToSet(rows) = {path \in EntriesOf(listings) : Goes(path, listings, refusals, failures)}
           /\ CallsAre(calls, EntriesOf(listings) \union failures, ToSet(rows),
                       listings, refusals, failures)
<1>1. pc = "walk" /\ stack # <<>> /\ Top.items = <<>> /\ Top.rest = <<>>
  BY DEF Leave, UsedUp
<1>2. /\ scan = NoScan /\ Outer = Front(stack) /\ Inner = Top
      /\ Front(stack) \in Seq(LevelType) /\ Len(Front(stack)) = Len(stack) - 1
  BY <1>1, WalkFacts
<1>3. /\ Active /\ ~Scanning /\ Lost = {} /\ Unread = {} /\ Cur = Top.dir
  BY <1>1, <1>2, NoScanFacts DEF Active, Scanning, Lost, Unread, Cur
<1>4. DOMAIN Outer = {}
  BY <1>2, LenProperties
<1>5. Ahead = {}
  <2>1. AheadOf(Outer, listings) = {}
    BY <1>4 DEF AheadOf
  <2>2. AheadAt(Top, listings[Top.dir], {}) = {}
    BY <1>1 DEF AheadAt, AheadIn, Later
  <2>3. QED
    BY <1>2, <1>3, <2>1, <2>2 DEF Ahead
<1>6. /\ ListsType(listings)
      /\ HistoryInv(on_error, rows, {}, listings, refusals, failures, {})
  BY <1>3, <1>5, ReadFacts
<1>7. ToSet(rows) = {path \in EntriesOf(listings) : Goes(path, listings, refusals, failures)}
  BY <1>6, HistoryEnds
<1>8. Quiet
  BY <1>6 DEF HistoryInv, FailInv, Quiet
<1>9. ReachedOf(listings, failures) = EntriesOf(listings) \union failures
  BY <1>1, <1>2, <1>3, <1>4 DEF ReachedOf, Reached, UpTo
<1>10. /\ calls \in Seq(CallType)
       /\ CallsAre(calls, ReachedOf(listings, failures), ToSet(rows), listings, refusals, failures)
  BY <1>3, <1>8 DEF CallsInv
<1>11. QED
  BY <1>3, <1>6, <1>7, <1>8, <1>9, <1>10

LEMMA LeaveOnce == BaseInv /\ ReadInv /\ CallsInv /\ Leave => EveryCallOnce'
<1> SUFFICES ASSUME BaseInv, ReadInv, CallsInv, Leave, Len(stack) = 1
             PROVE  EveryCallOnce'
  BY DEF Leave, EveryCallOnce
<1>1. UNCHANGED <<listings, rows, calls, refusals, failures>>
  BY DEF Leave, history
<1>2. /\ ListsType(listings) /\ Active /\ Quiet /\ calls \in Seq(CallType)
      /\ ToSet(rows) = {path \in EntriesOf(listings) : Goes(path, listings, refusals, failures)}
      /\ CallsAre(calls, EntriesOf(listings) \union failures, ToSet(rows),
                  listings, refusals, failures)
  BY CallsAtEnd
<1> DEFINE all == EntriesOf(listings) \union failures
<1>3. /\ Once(calls)
      /\ Heard(calls, "recorded") = {path \in all : Goes(path, listings, refusals, failures)}
      /\ Heard(calls, "entered")
             = {<<>>} \union {path \in ToSet(rows) : listings[Front(path)][Last(path)] = "directory"}
      /\ Heard(calls, "skipped")
             = {path \in all :
                   Last(path) > 0
                   /\ (listings[Front(path)][Last(path)] = "special" \/ path \in failures)}
                   \union {Front(path) : path \in {path \in all : Last(path) = 0}}
  BY <1>2 DEF CallsAre
<1>4. Listed' = EntriesOf(listings)
  BY <1>1 DEF Listed, EntriesOf
<1>5. ASSUME NEW path \in EntriesOf(listings)
      PROVE  LET one(holds) == IF holds THEN 1 ELSE 0
                 special == listings[Front(path)][Last(path)] = "special"
                 kept == Goes(path, listings, refusals, failures)
             IN  /\ Times("recorded", path) = one(kept)
                 /\ Times("entered", path)
                        = one(kept /\ listings[Front(path)][Last(path)] = "directory")
                 /\ Times("skipped", path)
                        = one(special \/ path \in failures) + one(Append(path, 0) \in failures)
  <2> DEFINE special == listings[Front(path)][Last(path)] = "special"
             kept == Goes(path, listings, refusals, failures)
             bad == special \/ path \in failures
             zero == Append(path, 0) \in failures
  <2>1. path \in Seq(Nat) /\ path # <<>> /\ Last(path) \in Nat \ {0} /\ path \in all
    BY <1>2, ReachedFacts
  <2>2. Front(Append(path, 0)) = path /\ Last(Append(path, 0)) = 0
    BY <2>1, PathFacts
  <2>3. path \in Heard(calls, "recorded") <=> kept
    BY <1>3, <2>1
  <2>4. path \in Heard(calls, "entered")
            <=> kept /\ listings[Front(path)][Last(path)] = "directory"
    BY <1>2, <1>3, <2>1
  <2>5. path \in {Front(f) : f \in {f \in all : Last(f) = 0}} <=> zero
    <3>1. \A f \in all : Last(f) = 0 => f \in failures /\ f = Append(Front(f), 0)
      BY <1>2, ReachedFacts
    <3>2. QED
      BY <2>2, <3>1
  <2>6. path \in Heard(calls, "skipped") <=> bad \/ zero
    <3> DEFINE Bad == {e \in all :
                          Last(e) > 0
                          /\ (listings[Front(e)][Last(e)] = "special" \/ e \in failures)}
               Zero == {Front(f) : f \in {f \in all : Last(f) = 0}}
    <3>1. Heard(calls, "skipped") = Bad \union Zero
      BY <1>3
    <3>2. path \in Bad <=> bad
      BY <2>1
    <3>3. path \in Zero <=> zero
      BY <2>5
    <3> HIDE DEF Bad, Zero, bad, zero
    <3>4. QED
      BY <3>1, <3>2, <3>3
  <2>7. ~(bad /\ zero)
    <3> SUFFICES ASSUME bad, zero
                 PROVE  FALSE
      OBVIOUS
    <3>1. Append(path, 0) \in all
      OBVIOUS
    <3>2. Last(path) > 0
      BY <2>1
    <3>3. Front(Append(path, 0)) # path
      BY <1>2, <2>1, <2>2, <3>1, <3>2, SkipsDiffer
    <3>4. QED
      BY <2>2, <3>3
  <2>8. Times("recorded", path) = IF kept THEN 1 ELSE 0
    BY <1>2, <1>3, <2>3, TimesOnce
  <2>9. Times("entered", path)
            = IF kept /\ listings[Front(path)][Last(path)] = "directory" THEN 1 ELSE 0
    BY <1>2, <1>3, <2>4, TimesOnce
  <2>10. Times("skipped", path) = (IF bad THEN 1 ELSE 0) + (IF zero THEN 1 ELSE 0)
    <3>1. Times("skipped", path) = IF bad \/ zero THEN 1 ELSE 0
      BY <1>2, <1>3, <2>6, TimesOnce
    <3> HIDE DEF bad, zero
    <3>2. QED
      BY <2>7, <3>1
  <2>11. QED
    BY <2>8, <2>9, <2>10
<1>6. \A path \in EntriesOf(listings) : Kept(path)' <=> Goes(path, listings, refusals, failures)
  BY <1>1 DEF Kept, KindOf, Goes
<1>7. \A what, path : Times(what, path)' = Times(what, path)
  BY <1>1 DEF Times
<1>8. \A path : KindOf(path)' = listings[Front(path)][Last(path)]
  BY <1>1 DEF KindOf
<1>9. QED
  BY <1>1, <1>4, <1>5, <1>6, <1>7, <1>8 DEF EveryCallOnce

LEMMA OnceStep == BaseInv /\ ReadInv /\ CallsInv /\ EveryCallOnce /\ [Next]_vars => EveryCallOnce'
<1> SUFFICES ASSUME BaseInv, ReadInv, CallsInv, EveryCallOnce, [Next]_vars, pc' = "done"
             PROVE  EveryCallOnce'
  BY DEF EveryCallOnce
<1>1. CASE UNCHANGED vars \/ Terminating
  <2>1. UNCHANGED <<pc, listings, calls, refusals, failures>>
    BY <1>1 DEF Terminating, vars, history
  <2>2. Listed' = Listed
    BY <2>1 DEF Listed
  <2>3. \A path : (Kept(path)' <=> Kept(path)) /\ KindOf(path)' = KindOf(path)
    BY <2>1 DEF Kept, KindOf
  <2>4. \A what, path : Times(what, path)' = Times(what, path)
    BY <2>1 DEF Times
  <2>5. QED
    BY <2>1, <2>2, <2>3, <2>4 DEF EveryCallOnce
<1>2. CASE Leave
  BY <1>2, LeaveOnce
<1>3. QED
  BY <1>1, <1>2
     DEF Next, Step, Start, Fill, FillRefused, FillOpened, FillRest, Open, OpenStarved, List,
         Unreadable, ListWhole, ListCut, Opens, Entries, EntrySpecial, EntryRefused, EntryFile,
         EntryDirectory, EntriesEnd, FailedHere, Reading, ScanFails, Report, Visit, Cancelled,
         VisitFile, VisitSkipped, VisitFailed, VisitDirectory, Visiting, ReadOn, Take, FailOn

LEMMA FullInit == Init => FullInv
  BY IInit DEF Init, FullInv, Unheard, CallsInv, Active, EveryCallOnce

LEMMA FullStep == FullInv /\ [Next]_vars => FullInv'
<1> SUFFICES ASSUME FullInv, [Next]_vars
             PROVE  FullInv'
  OBVIOUS
<1>1. IInv' /\ Unheard'
  BY IStep, UnheardStep DEF FullInv
<1>2. BaseInv /\ ReadInv /\ Unheard /\ CallsInv /\ EveryCallOnce
  BY DEF FullInv, IInv
<1>3. CallsInv' /\ EveryCallOnce'
  BY <1>2, CallsStep, CallsStutter, OnceStep
<1>4. QED
  BY <1>1, <1>3 DEF FullInv

\* Scanner::report, walk/cut.rs and Skips: the progress receiver of a finished
\* walk has heard of each entry in a row once and of no other, has been told to
\* enter each directory once, the root too, and has heard of each skip once,
\* however the directory's listing was cut into windows and whether its own scan
\* or that of its parent found out that it cannot be opened.
THEOREM EveryCallIsOnce == Spec => []EveryCallOnce
<1>1. Init => FullInv
  BY FullInit
<1>2. FullInv /\ [Next]_vars => FullInv'
  BY FullStep
<1>3. FullInv => EveryCallOnce
  BY DEF FullInv
<1>4. QED
  BY <1>1, <1>2, <1>3, PTL DEF Spec
=============================================================================
