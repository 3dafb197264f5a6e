-------------------------- MODULE NumberRecursion --------------------------
(***************************************************************************)
(* Induction and recursion on numbers, from the fact that a set of natural *)
(* numbers has a smallest element.  The induction is over a set and the    *)
(* recursion over functions, so that no operator is a parameter.           *)
(***************************************************************************)
EXTENDS Integers, FiniteSetTheorems, WellFoundedInduction, TLAPS

(* The smallest element of a set of numbers.                               *)
LEMMA Smallest ==
    ASSUME NEW S \in SUBSET Nat, S # {}
    PROVE  \E k \in S : \A i \in S : k <= i
<1>1. PICK k \in S : \A i \in S : ~(<<i, k>> \in OpToRel(<, Nat))
    BY WFMin, NatLessThanWellFounded
<1>2. ASSUME NEW i \in S PROVE k <= i
  <2>1. i \in Nat /\ k \in Nat /\ <<i, k>> \in Nat \X Nat
    OBVIOUS
  <2>2. i < k => <<i, k>> \in OpToRel(<, Nat)
    BY <2>1 DEF OpToRel
  <2>3. ~(i < k)
    BY <1>1, <2>2, Zenon
  <2> QED
    BY <2>1, <2>3
<1> QED
    BY <1>2

(* Induction on the elements of D: those below b, and each one from the    *)
(* smaller ones.                                                           *)
LEMMA Induction ==
    ASSUME NEW D \in SUBSET Int, NEW b \in Nat, NEW S,
           \A n \in D : n < b => n \in S,
           \A n \in D : n >= b /\ (\A m \in D : m < n => m \in S) => n \in S
    PROVE  \A n \in D : n \in S
<1> DEFINE R == {n \in D : n \notin S}
<1> SUFFICES ASSUME R # {} PROVE FALSE
    OBVIOUS
<1>1. \A n \in R : n \in D /\ n \in Int /\ n \notin S /\ ~(n < b)
    OBVIOUS
<1>2. R \subseteq Nat
  <2>1. ASSUME NEW n \in R PROVE n \in Nat
    <3>1. n \in Int /\ ~(n < b)
      BY <1>1
    <3> QED
      BY <3>1
  <2> QED
    BY <2>1
<1>3. PICK m \in R : \A i \in R : m <= i
  <2> HIDE DEF R
  <2> QED
    BY <1>2, Smallest
<1>4. \A i \in D : i < m => i \in S
    BY <1>1, <1>3
<1>5. m \in D /\ m >= b /\ m \notin S
    BY <1>1
<1> QED
    BY <1>4, <1>5

(* A function on the numbers D, given by start below the number b and from *)
(* there on by step at the function's value for a smaller number.          *)
Solves(f, E, start, step, smaller, b) ==
    \A n \in E : f[n] = IF n < b THEN start[n] ELSE step[<<n, f[smaller[n]]>>]

LEMMA RecursionUnique ==
    ASSUME NEW D \in SUBSET Int, NEW b \in Nat, NEW start, NEW step, NEW smaller,
           \A n \in D : n >= b => smaller[n] \in D /\ smaller[n] < n,
           NEW k \in Int, NEW l \in Int, NEW f, NEW h,
           Solves(f, {n \in D : n <= k}, start, step, smaller, b),
           Solves(h, {n \in D : n <= l}, start, step, smaller, b)
    PROVE  \A n \in D : n <= k /\ n <= l => f[n] = h[n]
<1> DEFINE S == {n \in D : n <= k /\ n <= l /\ f[n] # h[n]}
<1> SUFFICES ASSUME S # {} PROVE FALSE
    BY DEF S
<1>1. S \subseteq Nat
  <2>1. ASSUME NEW n \in S, n < b PROVE FALSE
    BY <2>1 DEF Solves
  <2>2. ASSUME NEW n \in S PROVE n \in Nat
    <3>1. n \in Int /\ ~(n < b)
      BY <2>1
    <3> QED
      BY <3>1
  <2> QED
    BY <2>2
<1>2. PICK m \in S : \A i \in S : m <= i
    <2> HIDE DEF S
    <2> QED BY <1>1, Smallest
<1>3. m \in D /\ m <= k /\ m <= l /\ f[m] # h[m] /\ m \in Int
    OBVIOUS
<1>4. CASE m < b
    BY <1>3, <1>4 DEF Solves
<1>5. CASE m >= b
  <2>1. smaller[m] \in D /\ smaller[m] < m /\ smaller[m] \in Int
    BY <1>3, <1>5
  <2>2. smaller[m] <= k /\ smaller[m] <= l /\ smaller[m] \notin S
    BY <1>2, <1>3, <2>1
  <2>3. f[smaller[m]] = h[smaller[m]]
    BY <2>1, <2>2
  <2>4. f[m] = step[<<m, f[smaller[m]]>>] /\ h[m] = step[<<m, h[smaller[m]]>>]
    BY <1>3, <1>5 DEF Solves
  <2> QED
    BY <1>3, <2>3, <2>4
<1> QED
    BY <1>3, <1>4, <1>5

LEMMA Recursion ==
    ASSUME NEW D \in SUBSET Int, NEW b \in Nat, NEW V,
           NEW start, NEW step, NEW smaller,
           \A n \in D : n < b => start[n] \in V,
           \A n \in D, v \in V : n >= b => step[<<n, v>>] \in V,
           \A n \in D : n >= b => smaller[n] \in D /\ smaller[n] < n
    PROVE  \E f \in [D -> V] : Solves(f, D, start, step, smaller, b)
<1> DEFINE Below(k) == {n \in D : n <= k}
           Good(k, f) == f \in [Below(k) -> V] /\ Solves(f, Below(k), start, step, smaller, b)
           H(k) == CHOOSE f : Good(k, f)
           Bad == {k \in D : ~ \E f : Good(k, f)}
<1>1. Bad \subseteq Nat
  <2>1. ASSUME NEW k \in D, k < b PROVE \E f : Good(k, f)
    <3> DEFINE f == [n \in Below(k) |-> start[n]]
    <3>1. \A n \in Below(k) : n < b /\ n \in D
      BY <2>1
    <3>2. f \in [Below(k) -> V]
      BY <3>1
    <3>3. Solves(f, Below(k), start, step, smaller, b)
      BY <3>1 DEF Solves
    <3> QED
      BY <3>2, <3>3
  <2>2. ASSUME NEW k \in Bad PROVE k \in Nat
    <3> HIDE DEF Good
    <3>1. k \in D /\ k \in Int
      OBVIOUS
    <3>2. ~(k < b)
      BY <2>1, <3>1
    <3> QED
      BY <3>1, <3>2
  <2> QED
    BY <2>2
<1>2. ASSUME NEW k \in D, k \notin Bad PROVE Good(k, H(k))
    BY <1>2
<1>3. ASSUME NEW k \in D, NEW l \in D, NEW f, NEW h, Good(k, f), Good(l, h), NEW n \in D, n <= k, n <= l
      PROVE  f[n] = h[n]
  <2>1. Solves(f, {m \in D : m <= k}, start, step, smaller, b)
    BY <1>3
  <2>2. Solves(h, {m \in D : m <= l}, start, step, smaller, b)
    BY <1>3
  <2>3. k \in Int /\ l \in Int
    OBVIOUS
  <2> HIDE DEF Good
  <2> QED
    BY <1>3, <2>1, <2>2, <2>3, RecursionUnique
<1> HIDE DEF H
<1>4. Bad = {}
  <2> SUFFICES ASSUME Bad # {} PROVE FALSE
    OBVIOUS
  <2>1. PICK m \in Bad : \A i \in Bad : m <= i
    <3> HIDE DEF Bad
    <3> QED BY <1>1, Smallest
  <2>2. \A k \in D : k < m => Good(k, H(k))
    <3> HIDE DEF Good
    <3>1. \A k \in D : k < m => k \notin Bad
      BY <2>1, <1>1
    <3> HIDE DEF Bad
    <3> QED
      BY <1>2, <3>1
  <2> DEFINE f == [n \in Below(m) |-> IF n < b THEN start[n]
                                      ELSE step[<<n, H(smaller[n])[smaller[n]]>>]]
  <2>3. ASSUME NEW n \in Below(m), n >= b
        PROVE  /\ smaller[n] \in D /\ smaller[n] < m /\ smaller[n] < n
               /\ H(smaller[n])[smaller[n]] \in V
    <3>1. smaller[n] \in D /\ smaller[n] < n /\ n <= m /\ n \in Int /\ m \in Int /\ smaller[n] \in Int
      BY <2>3
    <3>2. smaller[n] < m
      BY <3>1
    <3>3. Good(smaller[n], H(smaller[n]))
      <4> HIDE DEF Good
      <4> QED BY <2>2, <3>1, <3>2
    <3>4. smaller[n] \in Below(smaller[n])
      BY <3>1
    <3>5. H(smaller[n]) \in [Below(smaller[n]) -> V]
      BY <3>3
    <3> HIDE DEF Good, Below
    <3> QED
      BY <3>1, <3>2, <3>4, <3>5
  <2>4. \A n \in Below(m) : f[n] \in V
    BY <2>3
  <2>5. f \in [Below(m) -> V]
    BY <2>4
  <2>6. ASSUME NEW n \in D, n < m PROVE f[n] = H(n)[n]
    <3>1. Good(n, H(n)) /\ n \in Below(n) /\ n \in Below(m) /\ n \in Int
      <4>1. Good(n, H(n))
        <5> HIDE DEF Good
        <5> QED BY <2>2, <2>6
      <4>2. n \in Int /\ m \in Int
        OBVIOUS
      <4> HIDE DEF Good
      <4> QED
        BY <2>6, <4>1, <4>2
    <3>2. H(n)[n] = IF n < b THEN start[n] ELSE step[<<n, H(n)[smaller[n]]>>]
      BY <3>1 DEF Solves
    <3>3. ASSUME n >= b PROVE H(n)[smaller[n]] = H(smaller[n])[smaller[n]]
      <4>1. smaller[n] \in D /\ smaller[n] < m /\ smaller[n] < n /\ smaller[n] \in Int
        BY <2>3, <3>1, <3>3
      <4>2. Good(smaller[n], H(smaller[n]))
        <5> HIDE DEF Good
        <5> QED BY <2>2, <4>1
      <4>3. smaller[n] <= n /\ smaller[n] <= smaller[n]
        BY <3>1, <4>1
      <4> HIDE DEF Good
      <4> QED
        BY <1>3, <3>1, <4>1, <4>2, <4>3
    <3>4. CASE n < b
      BY <3>1, <3>2, <3>4
    <3>5. CASE n >= b
      BY <3>1, <3>2, <3>3, <3>5
    <3> QED
      BY <3>1, <3>4, <3>5
  <2>7. Solves(f, Below(m), start, step, smaller, b)
    <3>1. ASSUME NEW n \in Below(m), n >= b
          PROVE f[n] = step[<<n, f[smaller[n]]>>]
      <4>1. f[smaller[n]] = H(smaller[n])[smaller[n]]
        BY <2>3, <2>6, <3>1
      <4>2. n \in Int /\ ~(n < b)
        <5>1. n \in D /\ n \in Int
          OBVIOUS
        <5> QED
          BY <3>1, <5>1
      <4>3. f[n] = step[<<n, H(smaller[n])[smaller[n]]>>]
        BY <4>2
      <4> QED
        BY <4>1, <4>3
    <3>2. \A n \in Below(m) : n < b => f[n] = start[n]
      OBVIOUS
    <3>3. \A n \in Below(m) : n < b \/ n >= b
      OBVIOUS
    <3> HIDE DEF f, Below
    <3> QED
      BY <3>1, <3>2, <3>3 DEF Solves
  <2>8. Good(m, f)
    BY <2>5, <2>7
  <2> HIDE DEF Good
  <2> QED
    BY <2>1, <2>8
<1> DEFINE F == [n \in D |-> H(n)[n]]
<1>5. \A n \in D : Good(n, H(n))
    BY <1>2, <1>4
<1>6. F \in [D -> V]
  <2>1. ASSUME NEW n \in D PROVE H(n)[n] \in V
    <3>1. n \in Below(n)
      <4>1. n \in Int /\ n <= n
        OBVIOUS
      <4> QED
        BY <4>1
    <3>2. Good(n, H(n))
      <4> HIDE DEF Good
      <4> QED BY <1>5
    <3>3. H(n) \in [Below(n) -> V]
      BY <3>2
    <3> HIDE DEF Below
    <3> QED
      BY <3>1, <3>3
  <2> QED
    BY <2>1
<1>7. ASSUME NEW n \in D
      PROVE  F[n] = IF n < b THEN start[n] ELSE step[<<n, F[smaller[n]]>>]
  <2>1. Good(n, H(n)) /\ n \in Below(n) /\ n \in Int
    <3> HIDE DEF Good
    <3> QED BY <1>5
  <2>2. H(n)[n] = IF n < b THEN start[n] ELSE step[<<n, H(n)[smaller[n]]>>]
    BY <2>1 DEF Solves
  <2>3. ASSUME n >= b PROVE H(n)[smaller[n]] = F[smaller[n]]
    <3>1. smaller[n] \in D /\ smaller[n] < n /\ smaller[n] \in Int
      BY <2>1, <2>3
    <3>2. Good(smaller[n], H(smaller[n])) /\ smaller[n] <= n /\ smaller[n] <= smaller[n]
      BY <1>5, <2>1, <3>1
    <3>3. H(n)[smaller[n]] = H(smaller[n])[smaller[n]]
      <4> HIDE DEF Good
      <4> QED BY <1>3, <2>1, <3>1, <3>2
    <3> QED
      BY <3>1, <3>3
  <2>4. CASE n < b
    BY <2>1, <2>2, <2>4
  <2>5. CASE n >= b
    BY <2>1, <2>2, <2>3, <2>5
  <2> QED
    BY <2>1, <2>4, <2>5
<1> QED
  <2> HIDE DEF F
  <2> QED
    BY <1>6, <1>7 DEF Solves

-----------------------------------------------------------------------------
(* Induction and recursion from 0 up.                                      *)

LEMMA Upward ==
    ASSUME NEW k \in Nat, NEW S, 0 \in S, \A n \in 0 .. k - 1 : n \in S => n + 1 \in S
    PROVE  \A n \in 0 .. k : n \in S
<1> DEFINE D == 0 .. k
<1>1. D \in SUBSET Int /\ 1 \in Nat
    OBVIOUS
<1>2. \A n \in D : n < 1 => n \in S
    OBVIOUS
<1>3. ASSUME NEW n \in D, n >= 1, \A m \in D : m < n => m \in S PROVE n \in S
  <2>1. n - 1 \in D /\ n - 1 < n /\ n - 1 \in 0 .. k - 1 /\ (n - 1) + 1 = n
    BY <1>3
  <2> QED
    BY <1>3, <2>1
<1>4. \A n \in D : n >= 1 /\ (\A m \in D : m < n => m \in S) => n \in S
    BY <1>3
<1> HIDE DEF D
<1>5. \A n \in D : n \in S
    BY <1>1, <1>2, <1>4, Induction, ZenonT(60)
<1> QED
    BY <1>5 DEF D

Closed(k, V, step) == \A n \in 1 .. k, x \in V : step[<<n, x>>] \in V
Follows(f, k, v, step) == f[0] = v /\ \A n \in 1 .. k : f[n] = step[<<n, f[n - 1]>>]

LEMMA UpwardRecursion ==
    ASSUME NEW k \in Nat, NEW V, NEW v \in V, NEW step, Closed(k, V, step)
    PROVE  \E f \in [0 .. k -> V] : Follows(f, k, v, step)
<1> DEFINE D == 0 .. k
           start == [n \in D |-> v]
           smaller == [n \in D |-> n - 1]
<1>1. D \in SUBSET Int /\ 1 \in Nat
    OBVIOUS
<1>2. \A n \in D : n < 1 => start[n] \in V
    OBVIOUS
<1>3. \A n \in D : n >= 1 => smaller[n] \in D /\ smaller[n] < n /\ smaller[n] = n - 1
    OBVIOUS
<1>4. \A n \in D, x \in V : n >= 1 => step[<<n, x>>] \in V
    BY DEF Closed
<1>5. 0 \in D /\ start[0] = v /\ \A n \in 1 .. k : n \in D /\ n >= 1 /\ ~(n < 1)
    OBVIOUS
<1> HIDE DEF D, start, smaller
<1>6. PICK f \in [D -> V] : Solves(f, D, start, step, smaller, 1)
    BY <1>1, <1>2, <1>3, <1>4, Recursion
<1>7. f[0] = v
  <2>1. 0 < 1
    OBVIOUS
  <2> QED
    BY <1>5, <1>6, <2>1 DEF Solves
<1>8. ASSUME NEW n \in 1 .. k PROVE f[n] = step[<<n, f[n - 1]>>]
    BY <1>3, <1>5, <1>6 DEF Solves
<1> QED
    BY <1>6, <1>7, <1>8 DEF D, Follows

-----------------------------------------------------------------------------
(* Counting.                                                               *)

LEMMA IntervalSize ==
    ASSUME NEW a \in Int, NEW n \in Int, n >= 0
    PROVE  IsFiniteSet(a .. a + n - 1) /\ Cardinality(a .. a + n - 1) = n
<1>1. PICK z \in Int : z = a + n - 1
    OBVIOUS
<1>2. IsFiniteSet(a .. z) /\ Cardinality(a .. z) = IF a > z THEN 0 ELSE z - a + 1
    BY FS_Interval
<1> QED
    BY <1>1, <1>2

LEMMA DisjointUnion ==
    ASSUME NEW S, NEW T, IsFiniteSet(S), IsFiniteSet(T), S \cap T = {}
    PROVE  /\ IsFiniteSet(S \cup T)
           /\ Cardinality(S \cup T) = Cardinality(S) + Cardinality(T)
<1>1. Cardinality(S \cap T) = 0
    BY FS_EmptySet
<1>2. Cardinality(S) \in Nat /\ Cardinality(T) \in Nat
    BY FS_CardinalityType
<1>3. /\ IsFiniteSet(S \cup T)
      /\ Cardinality(S \cup T) = Cardinality(S) + Cardinality(T) - Cardinality(S \cap T)
    BY FS_Union
<1> QED
    BY <1>1, <1>2, <1>3

(* k intervals of w numbers, no two of which meet.                         *)
LEMMA DisjointIntervals ==
    ASSUME NEW k \in Nat, NEW w \in Nat, NEW s, \A i \in 1 .. k : s[i] \in Int,
           \A i, j \in 1 .. k : i # j => s[i] + w <= s[j] \/ s[j] + w <= s[i]
    PROVE  LET U == {x \in Int : \E i \in 1 .. k : s[i] <= x /\ x < s[i] + w}
           IN  IsFiniteSet(U) /\ Cardinality(U) = k * w
<1> DEFINE U(n) == {x \in Int : \E i \in 1 .. n : s[i] <= x /\ x < s[i] + w}
           S == {n \in 0 .. k : IsFiniteSet(U(n)) /\ Cardinality(U(n)) = n * w}
<1>1. 0 \in S
  <2>1. U(0) = {}
    OBVIOUS
  <2>2. IsFiniteSet(U(0)) /\ Cardinality(U(0)) = 0
    BY <2>1, FS_EmptySet
  <2>3. 0 * w = 0 /\ 0 \in 0 .. k
    OBVIOUS
  <2> HIDE DEF U
  <2> QED
    BY <2>2, <2>3
<1>2. ASSUME NEW n \in 0 .. k - 1, n \in S PROVE n + 1 \in S
  <2>1. n + 1 \in 1 .. k /\ n + 1 \in 0 .. k /\ s[n + 1] \in Int /\ n \in Nat
    BY <1>2
  <2>2. PICK a \in Int : a = s[n + 1]
    BY <2>1
  <2> DEFINE I == a .. a + w - 1
  <2>3. U(n + 1) = U(n) \cup I
    <3>1. ASSUME NEW x \in U(n + 1) PROVE x \in U(n) \cup I
      <4>1. PICK i \in 1 .. n + 1 : s[i] <= x /\ x < s[i] + w
        OBVIOUS
      <4>2. CASE i = n + 1
        BY <2>2, <4>1, <4>2
      <4>3. CASE i # n + 1
        <5>1. i \in 1 .. n
            BY <2>1, <4>3
        <5> QED
            BY <4>1, <5>1
      <4> QED
        BY <4>2, <4>3
    <3>2. ASSUME NEW x \in U(n) PROVE x \in U(n + 1)
        BY <2>1
    <3>3. ASSUME NEW x \in I PROVE x \in U(n + 1)
        BY <2>1, <2>2
    <3> QED
        BY <3>1, <3>2, <3>3
  <2>4. U(n) \cap I = {}
    <3> SUFFICES ASSUME NEW x \in U(n), x \in I PROVE FALSE
        OBVIOUS
    <3>1. PICK i \in 1 .. n : s[i] <= x /\ x < s[i] + w
        OBVIOUS
    <3>2. i \in 1 .. k /\ i # n + 1 /\ s[i] \in Int
        BY <2>1
    <3>3. s[i] + w <= a \/ a + w <= s[i]
        BY <2>1, <2>2, <3>2
    <3> QED
        BY <3>1, <3>2, <3>3
  <2>5. IsFiniteSet(I) /\ Cardinality(I) = w
    BY IntervalSize
  <2>6. IsFiniteSet(U(n)) /\ Cardinality(U(n)) = n * w
    BY <1>2
  <2> HIDE DEF U, I
  <2>7. IsFiniteSet(U(n + 1)) /\ Cardinality(U(n + 1)) = n * w + w
    BY <2>3, <2>4, <2>5, <2>6, DisjointUnion
  <2>8. n * w + w = (n + 1) * w
    BY <2>1
  <2> QED
    BY <2>1, <2>7, <2>8
<1> HIDE DEF S
<1>3. \A n \in 0 .. k : n \in S
    BY <1>1, <1>2, Upward
<1>4. k \in S
    BY <1>3
<1> QED
    BY <1>4 DEF S

=============================================================================
