---------------------------- MODULE NatInduction ----------------------------
(***************************************************************************)
(* Induction over the naturals, for a set in place of a predicate, and the *)
(* recursive functions that it shows to exist: the proofs of several       *)
(* components need them.                                                   *)
(***************************************************************************)
EXTENDS Integers, FiniteSetTheorems, TLAPS

\* A set that has 0, and with every number the next one, has every number.  If m
\* were not in it, n |-> n + 1 would map those of 0..m that are into themselves,
\* one to one but never onto 0.
LEMMA Induction ==
    ASSUME NEW S, 0 \in S, \A n \in Nat : n \in S => n + 1 \in S
    PROVE  \A n \in Nat : n \in S
<1> SUFFICES ASSUME NEW m \in Nat, m \notin S PROVE FALSE
  OBVIOUS
<1> DEFINE T == {n \in 0..m : n \in S}
           f == [n \in T |-> n + 1]
<1>1. IsFiniteSet(T)
  <2>1. T \subseteq 0..m
    OBVIOUS
  <2>2. IsFiniteSet(0..m)
    BY FS_Interval
  <2>3. QED
    BY <2>1, <2>2, FS_Subset
<1>2. \A n \in T : n + 1 \in T /\ n \in Nat
  OBVIOUS
<1>3. f \in Injection(T, T)
  <2>1. f \in [T -> T]
    BY <1>2
  <2>2. \A a, b \in T : f[a] = f[b] => a = b
    BY <1>2
  <2>3. QED
    BY <2>1, <2>2 DEF Injection, IsInjective
<1>4. f \in Surjection(T, T)
  <2> HIDE DEF T, f
  <2>1. QED
    BY <1>1, <1>3, FS_Injection
<1>5. 0 \in T
  OBVIOUS
<1>6. \E n \in T : f[n] = 0
  BY <1>4, <1>5 DEF Surjection
<1>7. QED
  BY <1>6, <1>2

\* The same up to a bound.
LEMMA InductionUpTo ==
    ASSUME NEW m \in Nat, NEW S, 0 \in S, \A n \in 0..(m - 1) : n \in S => n + 1 \in S
    PROVE  \A n \in 0..m : n \in S
<1> DEFINE T == {n \in Nat : n <= m => n \in S}
<1>1. \A n \in Nat : n \in T => n + 1 \in T
  OBVIOUS
<1>2. 0 \in T
  OBVIOUS
<1>3. \A n \in Nat : n \in T
  <2> HIDE DEF T
  <2>1. QED
    BY <1>1, <1>2, Induction
<1>4. QED
  BY <1>3

-----------------------------------------------------------------------------
(* Recursive functions over the places of a sequence.                      *)

\* One value of the function.
ValueAt(v0, g, t, n) == IF n = 0 THEN v0 ELSE g[<<n, t[n - 1]>>]

IsStep(N, V, g) == g \in [(1..N) \X V -> V]

HasValues(N, V, v0, g) ==
    \E t \in [0..N -> V] : \A n \in 0..N : t[n] = ValueAt(v0, g, t, n)

LEMMA RecursionExists ==
    ASSUME NEW N \in Nat, NEW V, NEW v0 \in V, NEW g, IsStep(N, V, g)
    PROVE  HasValues(N, V, v0, g)
<1> USE DEF IsStep, HasValues
<1> DEFINE S == {m \in 0..N : \E t \in [0..m -> V] : \A n \in 0..m : t[n] = ValueAt(v0, g, t, n)}
<1>1. 0 \in S
  <2> DEFINE t == [n \in 0..0 |-> v0]
  <2>1. t \in [0..0 -> V] /\ \A n \in 0..0 : t[n] = ValueAt(v0, g, t, n)
    BY DEF ValueAt
  <2>2. QED
    BY <2>1
<1>2. ASSUME NEW m \in 0..(N - 1), m \in S
      PROVE  m + 1 \in S
  <2>1. PICK t \in [0..m -> V] : \A n \in 0..m : t[n] = ValueAt(v0, g, t, n)
    BY <1>2
  <2> DEFINE u == [n \in 0..(m + 1) |-> IF n = m + 1 THEN g[<<m + 1, t[m]>>] ELSE t[n]]
  <2>2. m \in 0..m /\ m + 1 \in 1..N /\ m + 1 # 0 /\ t[m] \in V
    OBVIOUS
  <2>3. g[<<m + 1, t[m]>>] \in V
    BY <2>2
  <2>4. u \in [0..(m + 1) -> V]
    BY <2>3
  <2>5. ASSUME NEW n \in 0..(m + 1)
        PROVE  u[n] = ValueAt(v0, g, u, n)
    <3>1. CASE n = m + 1
      <4>1. n # 0 /\ n - 1 = m /\ m \in 0..(m + 1) /\ m # m + 1
        BY <3>1
      <4>2. u[n] = g[<<n, t[m]>>] /\ u[n - 1] = t[m]
        BY <3>1, <4>1
      <4>3. QED
        BY <4>1, <4>2 DEF ValueAt
    <3>2. CASE n \in 0..m /\ n # 0
      <4>1. n - 1 \in 0..m /\ n - 1 \in 0..(m + 1) /\ n # m + 1 /\ n - 1 # m + 1
        BY <3>2
      <4>2. u[n] = t[n] /\ u[n - 1] = t[n - 1] /\ t[n] = ValueAt(v0, g, t, n)
        BY <2>1, <3>2, <4>1
      <4>3. QED
        BY <3>2, <4>2 DEF ValueAt
    <3>3. CASE n = 0
      <4>1. u[0] = t[0] /\ t[0] = ValueAt(v0, g, t, 0)
        BY <2>1
      <4>2. QED
        BY <3>3, <4>1 DEF ValueAt
    <3>4. QED
      BY <3>1, <3>2, <3>3
  <2> HIDE DEF u
  <2>6. m + 1 \in 0..N
    OBVIOUS
  <2>7. QED
    BY <2>4, <2>5, <2>6
<1>3. N \in S
  <2> HIDE DEF S
  <2>1. \A n \in 0..N : n \in S
    BY <1>1, <1>2, InductionUpTo
  <2>2. QED
    BY <2>1
<1>4. QED
  BY <1>3

\* The functions start alike and go on alike.
GoAlike(N, t, u) == t[0] = u[0] /\ \A n \in 1..N : t[n - 1] = u[n - 1] => t[n] = u[n]

Alike(N, t, u) == \A n \in 0..N : t[n] = u[n]

LEMMA RecursionIsOne ==
    ASSUME NEW N \in Nat, NEW t, NEW u, GoAlike(N, t, u)
    PROVE  Alike(N, t, u)
<1> USE DEF GoAlike, Alike
<1> DEFINE S == {n \in 0..N : t[n] = u[n]}
<1>1. 0 \in S
  OBVIOUS
<1>2. ASSUME NEW n \in 0..(N - 1), n \in S PROVE n + 1 \in S
  <2>1. n + 1 \in 1..N /\ (n + 1) - 1 = n
    OBVIOUS
  <2>2. t[n + 1] = u[n + 1]
    BY <1>2, <2>1
  <2>3. QED
    BY <2>1, <2>2
<1>3. \A n \in 0..N : n \in S
  <2> HIDE DEF S
  <2>1. QED
    BY <1>1, <1>2, InductionUpTo
<1>4. QED
  BY <1>3
=============================================================================
