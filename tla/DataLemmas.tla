----------------------------- MODULE DataLemmas -----------------------------
(***************************************************************************)
(* Facts about numbers, counting and recursive functions that the proofs   *)
(* of several modules cite.  Induction is by the least counterexample,     *)
(* which LeastNatural provides.                                            *)
(***************************************************************************)
EXTENDS Integers, Sequences, FiniteSetTheorems, WellFoundedInduction, TLAPS

(* Every set of natural numbers but the empty one has a least element.     *)
LEMMA LeastNatural ==
    ASSUME NEW S \in SUBSET Nat, S # {}
    PROVE  \E n \in S : \A m \in S : n <= m
<1>1. PICK n \in S : \A m \in S : <<m, n>> \notin OpToRel(<, Nat)
  BY NatLessThanWellFounded, WFMin, Zenon
<1>2. \A m \in S : ~(m < n)
  BY <1>1 DEF OpToRel
<1>3. n \in Nat /\ \A m \in S : m \in Nat
  OBVIOUS
<1>4. \A m \in S : n <= m
  BY <1>2, <1>3
<1>5. QED
  BY <1>4

(* Moving a finite set of numbers by the same distance keeps its size.     *)
LEMMA CountShifted ==
    ASSUME NEW S \in SUBSET Int, IsFiniteSet(S), NEW d \in Int
    PROVE  /\ IsFiniteSet({k + d : k \in S})
           /\ Cardinality({k + d : k \in S}) = Cardinality(S)
<1> DEFINE T == {k + d : k \in S}
           f == [k \in S |-> k + d]
<1>1. f \in Bijection(S, T)
  <2>1. f \in [S -> T]
    OBVIOUS
  <2>2. \A j, k \in S : f[j] = f[k] => j = k
    OBVIOUS
  <2>3. \A t \in T : \E k \in S : f[k] = t
    OBVIOUS
  <2>4. QED
    BY <2>1, <2>2, <2>3, Zenon DEF Bijection, Injection, Surjection, IsInjective
<1>2. ExistsBijection(S, T)
  BY <1>1, Zenon DEF ExistsBijection
<1>3. QED
  BY <1>2, FS_Bijection

(* A sum over the first terms of a series, defined by recursion, exists.   *)
LEMMA RunningSum ==
    ASSUME NEW x
    PROVE  \E f : f = [n \in Nat |-> IF n = 0 THEN 0 ELSE f[n - 1] + x[n]]
<1> DEFINE Part(g, n) ==
        g = [k \in 0..n |-> IF k = 0 THEN 0 ELSE g[k - 1] + x[k]]
<1>1. \A n \in Nat : \E g : Part(g, n)
  <2> DEFINE S == {n \in Nat : ~\E g : Part(g, n)}
  <2>1. SUFFICES ASSUME S # {}
                 PROVE  FALSE
    OBVIOUS
  <2>2. PICK n \in S : \A m \in S : n <= m
    BY <2>1, LeastNatural
  <2>3. n # 0
    <3>1. Part([k \in 0..0 |-> 0], 0)
      OBVIOUS
    <3>2. QED
      BY <3>1
  <2>4. n - 1 \in Nat /\ n - 1 \notin S
    BY <2>2, <2>3
  <2>5. PICK g : Part(g, n - 1)
    BY <2>4
  <2>6. DEFINE h == [k \in 0..n |-> IF k < n THEN g[k] ELSE g[n - 1] + x[n]]
  <2>7. \A k \in 0..n : h[k] = IF k = 0 THEN 0 ELSE h[k - 1] + x[k]
    <3>1. ASSUME NEW k \in 0..n, k < n
          PROVE  h[k] = IF k = 0 THEN 0 ELSE h[k - 1] + x[k]
      <4>1. h[k] = g[k] /\ k \in 0..(n - 1)
        BY <3>1, <2>4
      <4>2. g[k] = IF k = 0 THEN 0 ELSE g[k - 1] + x[k]
        BY <4>1, <2>5
      <4>3. k # 0 => h[k - 1] = g[k - 1]
        BY <3>1, <2>4
      <4>4. QED
        BY <4>1, <4>2, <4>3
    <3>2. h[n] = g[n - 1] + x[n] /\ h[n - 1] = g[n - 1]
      BY <2>4
    <3>3. QED
      BY <3>1, <3>2, <2>3
  <2>8. Part(h, n)
    BY <2>7
  <2>9. QED
    BY <2>8
<1>2. ASSUME NEW m \in Nat, NEW n \in Nat, NEW g, NEW h, Part(g, m), Part(h, n), m <= n
      PROVE  g[m] = h[m]
  <2> DEFINE S == {k \in 0..m : g[k] # h[k]}
  <2>1. SUFFICES ASSUME S # {}
                 PROVE  FALSE
    OBVIOUS
  <2> S \in SUBSET Nat
    OBVIOUS
  <2>2. PICK k \in S : \A j \in S : k <= j
    BY <2>1, LeastNatural
  <2>3. k # 0
    BY <1>2
  <2>4. k - 1 \in 0..m /\ g[k - 1] = h[k - 1]
    BY <2>2, <2>3
  <2>5. g[k] = g[k - 1] + x[k] /\ h[k] = h[k - 1] + x[k]
    BY <1>2, <2>3
  <2>6. QED
    BY <2>4, <2>5
<1> DEFINE part(n) == CHOOSE g : Part(g, n)
           f == [n \in Nat |-> part(n)[n]]
<1>3. \A n \in Nat : Part(part(n), n)
  BY <1>1
<1>4. ASSUME NEW n \in Nat
      PROVE  f[n] = IF n = 0 THEN 0 ELSE f[n - 1] + x[n]
  <2> DEFINE g == part(n)
  <2> HIDE DEF Part, part
  <2>1. g[n] = IF n = 0 THEN 0 ELSE g[n - 1] + x[n]
    BY <1>3 DEF Part
  <2>2. ASSUME n # 0
        PROVE  f[n - 1] = g[n - 1]
    <3>1. n - 1 \in Nat /\ n - 1 <= n
      BY <2>2
    <3>2. QED
      BY <3>1, <1>2, <1>3
  <2>3. QED
    BY <2>1, <2>2
<1>5. f = [n \in Nat |-> IF n = 0 THEN 0 ELSE f[n - 1] + x[n]]
  BY <1>4
<1>6. QED
  BY <1>5
=============================================================================
