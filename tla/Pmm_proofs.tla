----------------------------- MODULE Pmm_proofs -----------------------------
(***************************************************************************)
(* Proofs about the page allocator, for every interval and every largest   *)
(* order that the assumptions of module Pmm admit.                         *)
(***************************************************************************)
EXTENDS Pmm, SequenceTheorems, NumberRecursion

-----------------------------------------------------------------------------
(* The arithmetic of buddies.  tlapm's provers do not know powers of two:  *)
(* each fact is proved for the twelve orders one by one, where the         *)
(* divisions are by numerals.                                              *)

(* The table, order by order.                                              *)
LEMMA Pow2Values ==
    /\ Pow2(0) = 1 /\ Pow2(1) = 2 /\ Pow2(2) = 4 /\ Pow2(3) = 8
    /\ Pow2(4) = 16 /\ Pow2(5) = 32 /\ Pow2(6) = 64 /\ Pow2(7) = 128
    /\ Pow2(8) = 256 /\ Pow2(9) = 512 /\ Pow2(10) = 1024 /\ Pow2(11) = 2048
BY DEF Pow2

(* An order is one of twelve.                                              *)
LEMMA TwelveOrders ==
    \A o \in 0 .. 11 :
        \/ o = 0 \/ o = 1 \/ o = 2 \/ o = 3 \/ o = 4 \/ o = 5
        \/ o = 6 \/ o = 7 \/ o = 8 \/ o = 9 \/ o = 10 \/ o = 11
OBVIOUS

(* Every block has at least one page, and one order up it has twice as many.*)
LEMMA Pow2Type == \A o \in 0 .. 11 : Pow2(o) \in Nat /\ Pow2(o) >= 1
BY Pow2Values, TwelveOrders

LEMMA Pow2Double == \A o \in 0 .. 10 : Pow2(o + 1) = 2 * Pow2(o)
BY Pow2Values

(* The lower half of a block starts where the block does, the buddy that   *)
(* pmm_alloc_pages splits off is the upper half.                           *)
LEMMA SplitBuddy ==
    ASSUME NEW p \in Nat, NEW o \in 0 .. 10, Aligned(p, o + 1)
    PROVE  /\ Aligned(p, o)
           /\ Xor(p, o) = p + Pow2(o)
           /\ Aligned(p + Pow2(o), o)
BY TwelveOrders, Pow2Values DEF Aligned, Xor

(* A block and its buddy differ by one block, are each other's buddy, and  *)
(* the lower of the two is aligned for the next order.                     *)
LEMMA MergeBuddy ==
    ASSUME NEW p \in Nat, NEW o \in 0 .. 10, Aligned(p, o)
    PROVE  /\ Xor(p, o) \in Nat
           /\ Aligned(Xor(p, o), o)
           /\ Xor(Xor(p, o), o) = p
           /\ \/ Xor(p, o) = p + Pow2(o) /\ Aligned(p, o + 1)
              \/ p = Xor(p, o) + Pow2(o) /\ Aligned(Xor(p, o), o + 1)
<1>1. CASE o = 0  BY <1>1, Pow2Values DEF Aligned, Xor
<1>2. CASE o = 1  BY <1>2, Pow2Values DEF Aligned, Xor
<1>3. CASE o = 2  BY <1>3, Pow2Values DEF Aligned, Xor
<1>4. CASE o = 3  BY <1>4, Pow2Values DEF Aligned, Xor
<1>5. CASE o = 4  BY <1>5, Pow2Values DEF Aligned, Xor
<1>6. CASE o = 5  BY <1>6, Pow2Values DEF Aligned, Xor
<1>7. CASE o = 6  BY <1>7, Pow2Values DEF Aligned, Xor
<1>8. CASE o = 7  BY <1>8, Pow2Values DEF Aligned, Xor
<1>9. CASE o = 8  BY <1>9, Pow2Values DEF Aligned, Xor
<1>10. CASE o = 9  BY <1>10, Pow2Values DEF Aligned, Xor
<1>11. CASE o = 10  BY <1>11, Pow2Values DEF Aligned, Xor
<1> QED
    BY <1>1, <1>2, <1>3, <1>4, <1>5, <1>6, <1>7, <1>8, <1>9, <1>10, <1>11

(* An aligned address is aligned for every smaller order.                  *)
LEMMA AlignedDown ==
    ASSUME NEW p \in Nat, NEW m \in 0 .. 11, NEW o \in 0 .. m, Aligned(p, m)
    PROVE  Aligned(p, o)
<1>1. CASE o = 0  BY <1>1, TwelveOrders, Pow2Values DEF Aligned
<1>2. CASE o = 1  BY <1>2, TwelveOrders, Pow2Values DEF Aligned
<1>3. CASE o = 2  BY <1>3, TwelveOrders, Pow2Values DEF Aligned
<1>4. CASE o = 3  BY <1>4, TwelveOrders, Pow2Values DEF Aligned
<1>5. CASE o = 4  BY <1>5, TwelveOrders, Pow2Values DEF Aligned
<1>6. CASE o = 5  BY <1>6, TwelveOrders, Pow2Values DEF Aligned
<1>7. CASE o = 6  BY <1>7, TwelveOrders, Pow2Values DEF Aligned
<1>8. CASE o = 7  BY <1>8, TwelveOrders, Pow2Values DEF Aligned
<1>9. CASE o = 8  BY <1>9, TwelveOrders, Pow2Values DEF Aligned
<1>10. CASE o = 9  BY <1>10, TwelveOrders, Pow2Values DEF Aligned
<1>11. CASE o = 10  BY <1>11, TwelveOrders, Pow2Values DEF Aligned
<1>12. CASE o = 11  BY <1>12, TwelveOrders, Pow2Values DEF Aligned
<1> QED
    BY <1>1, <1>2, <1>3, <1>4, <1>5, <1>6, <1>7, <1>8, <1>9, <1>10, <1>11, <1>12

(* The bit that Xor flips, read from the remainder one order up.           *)
LEMMA XorBit ==
    ASSUME NEW p \in Nat, NEW o \in 0 .. 10
    PROVE  (p \div Pow2(o)) % 2 = 0 <=> p % Pow2(o + 1) < Pow2(o)
<1>1. CASE o = 0  BY <1>1, Pow2Values
<1>2. CASE o = 1  BY <1>2, Pow2Values
<1>3. CASE o = 2  BY <1>3, Pow2Values
<1>4. CASE o = 3  BY <1>4, Pow2Values
<1>5. CASE o = 4  BY <1>5, Pow2Values
<1>6. CASE o = 5  BY <1>6, Pow2Values
<1>7. CASE o = 6  BY <1>7, Pow2Values
<1>8. CASE o = 7  BY <1>8, Pow2Values
<1>9. CASE o = 8  BY <1>9, Pow2Values
<1>10. CASE o = 9  BY <1>10, Pow2Values
<1>11. CASE o = 10  BY <1>11, Pow2Values
<1> QED
    BY <1>1, <1>2, <1>3, <1>4, <1>5, <1>6, <1>7, <1>8, <1>9, <1>10, <1>11

(* An aligned base does not change the remainder.                          *)
LEMMA RelativeRemainder ==
    ASSUME NEW base \in Nat, NEW p \in Nat, base <= p, NEW o \in 0 .. 11, Aligned(base, o)
    PROVE  (p - base) % Pow2(o) = p % Pow2(o)
<1>1. CASE o = 0  BY <1>1, Pow2Values DEF Aligned
<1>2. CASE o = 1  BY <1>2, Pow2Values DEF Aligned
<1>3. CASE o = 2  BY <1>3, Pow2Values DEF Aligned
<1>4. CASE o = 3  BY <1>4, Pow2Values DEF Aligned
<1>5. CASE o = 4  BY <1>5, Pow2Values DEF Aligned
<1>6. CASE o = 5  BY <1>6, Pow2Values DEF Aligned
<1>7. CASE o = 6  BY <1>7, Pow2Values DEF Aligned
<1>8. CASE o = 7  BY <1>8, Pow2Values DEF Aligned
<1>9. CASE o = 8  BY <1>9, Pow2Values DEF Aligned
<1>10. CASE o = 9  BY <1>10, Pow2Values DEF Aligned
<1>11. CASE o = 10  BY <1>11, Pow2Values DEF Aligned
<1>12. CASE o = 11  BY <1>12, Pow2Values DEF Aligned
<1> QED
    BY <1>1, <1>2, <1>3, <1>4, <1>5, <1>6, <1>7, <1>8, <1>9, <1>10, <1>11, <1>12

(* The buddy of an index from an aligned base is the buddy of the address: *)
(* pmm_free_pages looks for the block pmm_alloc_pages split off.           *)
LEMMA RelativeBuddy ==
    ASSUME NEW base \in Nat, NEW p \in Nat, base <= p,
           NEW o \in 0 .. 10, Aligned(base, o + 1)
    PROVE  base + Xor(p - base, o) = Xor(p, o)
<1>1. (p - base) % Pow2(o + 1) = p % Pow2(o + 1)
    BY RelativeRemainder
<1>2. ((p - base) \div Pow2(o)) % 2 = 0 <=> (p \div Pow2(o)) % 2 = 0
    BY <1>1, XorBit
<1> QED
    BY <1>2, Pow2Type DEF Xor

(* Sizes are multiples of the smaller sizes.                               *)
LEMMA SizeAligned ==
    ASSUME NEW m \in 0 .. 11, NEW o \in 0 .. m
    PROVE  Aligned(Pow2(m), o)
<1>1. Aligned(Pow2(m), m)
    BY TwelveOrders, Pow2Values DEF Aligned
<1> QED
    BY <1>1, AlignedDown, Pow2Type

LEMMA AlignedSum ==
    ASSUME NEW p \in Nat, NEW q \in Nat, NEW o \in 0 .. 11, Aligned(p, o), Aligned(q, o)
    PROVE  Aligned(p + q, o)
BY TwelveOrders, Pow2Values DEF Aligned

(* Between two aligned addresses there is room for a block.                *)
LEMMA AlignedGap ==
    ASSUME NEW p \in Nat, NEW q \in Nat, NEW o \in 0 .. 11,
           Aligned(p, o), Aligned(q, o), p < q
    PROVE  p + Pow2(o) <= q
BY TwelveOrders, Pow2Values DEF Aligned

(* A block that contains the first page of a smaller one contains all of it.*)
LEMMA BlockContains ==
    ASSUME NEW p \in Nat, NEW m \in 0 .. 11, NEW q \in Nat, NEW o \in 0 .. m,
           Aligned(p, m), Aligned(q, o), p <= q, q < p + Pow2(m)
    PROVE  q + Pow2(o) <= p + Pow2(m)
<1>1. Aligned(p, o) /\ Aligned(Pow2(m), o)
    BY AlignedDown, SizeAligned
<1>2. o \in 0 .. 11 /\ Pow2(m) \in Nat /\ p + Pow2(m) \in Nat
    BY Pow2Type
<1>3. Aligned(p + Pow2(m), o)
    BY <1>1, <1>2, AlignedSum
<1> QED
    BY <1>2, <1>3, AlignedGap

-----------------------------------------------------------------------------
(* The interval pmm_init computes.                                         *)

(* Rounding up to a multiple of the largest block.                         *)
LEMMA RoundUp ==
    ASSUME NEW x \in Nat, NEW o \in 0 .. 11
    PROVE  LET r == ((x + Pow2(o) - 1) \div Pow2(o)) * Pow2(o)
           IN  r \in Nat /\ x <= r /\ Aligned(r, o)
<1>1. CASE o = 0  BY <1>1, Pow2Values DEF Aligned
<1>2. CASE o = 1  BY <1>2, Pow2Values DEF Aligned
<1>3. CASE o = 2  BY <1>3, Pow2Values DEF Aligned
<1>4. CASE o = 3  BY <1>4, Pow2Values DEF Aligned
<1>5. CASE o = 4  BY <1>5, Pow2Values DEF Aligned
<1>6. CASE o = 5  BY <1>6, Pow2Values DEF Aligned
<1>7. CASE o = 6  BY <1>7, Pow2Values DEF Aligned
<1>8. CASE o = 7  BY <1>8, Pow2Values DEF Aligned
<1>9. CASE o = 8  BY <1>9, Pow2Values DEF Aligned
<1>10. CASE o = 9  BY <1>10, Pow2Values DEF Aligned
<1>11. CASE o = 10  BY <1>11, Pow2Values DEF Aligned
<1>12. CASE o = 11  BY <1>12, Pow2Values DEF Aligned
<1> QED
    BY <1>1, <1>2, <1>3, <1>4, <1>5, <1>6, <1>7, <1>8, <1>9, <1>10, <1>11, <1>12

(* The bitmap takes at least one page, so the first block is not page 0 and *)
(* lies above the base.                                                    *)
LEMMA FirstBlock ==
    /\ first_block \in Nat
    /\ first_block > memory_start
    /\ Aligned(first_block, MAX_ORDER)
<1> DEFINE bitmap_end == memory_start + (bitmap_size + PAGE_SIZE - 1) \div PAGE_SIZE
<1>1. bitmap_end \in Nat /\ bitmap_end > memory_start
    BY IntervalAssumption DEF bitmap_size, total_pages, PAGE_SIZE
<1>2. first_block = ((bitmap_end + Pow2(MAX_ORDER) - 1) \div Pow2(MAX_ORDER)) * Pow2(MAX_ORDER)
    BY DEF first_block
<1>3. memory_start \in Nat
    BY IntervalAssumption
<1> HIDE DEF bitmap_end
<1>4. first_block \in Nat /\ bitmap_end <= first_block /\ Aligned(first_block, MAX_ORDER)
    BY <1>1, <1>2, RoundUp, MaxOrderAssumption
<1> QED
    BY <1>1, <1>3, <1>4

LEMMA NatProducts ==
    ASSUME NEW x \in Nat, NEW o \in 0 .. 11
    PROVE  x \div Pow2(o) \in Nat /\ x * Pow2(o) \in Nat
BY TwelveOrders, Pow2Values

LEMMA ArenaFacts ==
    /\ nr_blocks \in Nat
    /\ nr_blocks * Pow2(MAX_ORDER) \in Nat
    /\ arena_end \in Nat
    /\ first_block <= arena_end
    /\ Arena \subseteq Nat
    /\ 0 \notin Arena
<1>1. total_pages \in Nat
    BY IntervalAssumption DEF total_pages
<1>2. nr_blocks \in Nat /\ nr_blocks * Pow2(MAX_ORDER) \in Nat
    BY <1>1, NatProducts, MaxOrderAssumption DEF nr_blocks
<1>3. memory_start \in Nat
    BY IntervalAssumption
<1> QED
    BY <1>2, <1>3, FirstBlock DEF arena_end, Arena

-----------------------------------------------------------------------------
(* Lists.                                                                  *)

(* list_add on a list that does not have the block yet.                    *)
LEMMA PushFacts ==
    ASSUME NEW S, NEW s \in Seq(S), NEW x \in S
    PROVE  /\ <<x>> \o s \in Seq(S)
           /\ Len(<<x>> \o s) = Len(s) + 1
           /\ Range(<<x>> \o s) = {x} \cup Range(s)
           /\ IsInjective(s) /\ x \notin Range(s) => IsInjective(<<x>> \o s)
<1> DEFINE t == <<x>> \o s
<1>1. t \in Seq(S) /\ Len(t) = Len(s) + 1
    OBVIOUS
<1>2. \A i \in 1 .. Len(s) + 1 : t[i] = IF i = 1 THEN x ELSE s[i - 1]
    OBVIOUS
<1> HIDE DEF t
<1>3. DOMAIN t = 1 .. Len(s) + 1 /\ DOMAIN s = 1 .. Len(s) /\ Len(s) \in Nat
    BY <1>1
<1>4. Range(t) = {x} \cup Range(s)
  <2>1. ASSUME NEW y \in Range(t) PROVE y \in {x} \cup Range(s)
    BY <1>2, <1>3, <2>1 DEF Range
  <2>2. x \in Range(t)
    BY <1>2, <1>3 DEF Range
  <2>3. ASSUME NEW y \in Range(s) PROVE y \in Range(t)
    <3>1. PICK i \in 1 .. Len(s) : y = s[i]
        BY <1>3, <2>3 DEF Range
    <3>2. i + 1 \in 1 .. Len(s) + 1 /\ t[i + 1] = y
        BY <1>2, <1>3, <3>1
    <3> QED BY <1>3, <3>2 DEF Range
  <2> QED BY <2>1, <2>2, <2>3
<1>5. ASSUME IsInjective(s), x \notin Range(s) PROVE IsInjective(t)
  <2>1. \A i \in 1 .. Len(s) : s[i] # x
    BY <1>3, <1>5 DEF Range
  <2>2. \A i, j \in 1 .. Len(s) : s[i] = s[j] => i = j
    BY <1>3, <1>5 DEF IsInjective
  <2>3. SUFFICES ASSUME NEW i \in 1 .. Len(s) + 1, NEW j \in 1 .. Len(s) + 1, t[i] = t[j]
                 PROVE  i = j
    BY <1>3 DEF IsInjective
  <2>4. CASE i = 1 /\ j # 1
    <3>1. j - 1 \in 1 .. Len(s) /\ t[i] = x /\ t[j] = s[j - 1]
        BY <1>2, <1>3, <2>4
    <3> QED BY <2>1, <2>3, <3>1
  <2>5. CASE i # 1 /\ j = 1
    <3>1. i - 1 \in 1 .. Len(s) /\ t[j] = x /\ t[i] = s[i - 1]
        BY <1>2, <1>3, <2>5
    <3> QED BY <2>1, <2>3, <3>1
  <2>6. CASE i # 1 /\ j # 1
    <3>1. /\ i - 1 \in 1 .. Len(s) /\ j - 1 \in 1 .. Len(s)
          /\ t[i] = s[i - 1] /\ t[j] = s[j - 1]
        BY <1>2, <1>3, <2>6
    <3>2. i - 1 = j - 1
        BY <2>2, <2>3, <3>1
    <3> QED BY <3>2
  <2> QED BY <2>4, <2>5, <2>6
<1> QED
    BY <1>1, <1>4, <1>5 DEF t

(* list_del of the i-th entry.                                             *)
LEMMA RemoveFacts ==
    ASSUME NEW S, NEW s \in Seq(S), NEW i \in 1 .. Len(s), IsInjective(s)
    PROVE  /\ RemoveAt(s, i) \in Seq(S)
           /\ Len(RemoveAt(s, i)) = Len(s) - 1
           /\ Range(RemoveAt(s, i)) = Range(s) \ {s[i]}
           /\ IsInjective(RemoveAt(s, i))
<1> DEFINE t == RemoveAt(s, i)
<1> DEFINE a == SubSeq(s, 1, i - 1)
<1> DEFINE b == SubSeq(s, i + 1, Len(s))
<1>a. /\ a \in Seq(S) /\ Len(a) = i - 1
      /\ \A j \in 1 .. i - 1 : a[j] = s[j]
    OBVIOUS
<1>b. /\ b \in Seq(S) /\ Len(b) = Len(s) - i
      /\ \A j \in 1 .. Len(s) - i : b[j] = s[j + i]
    OBVIOUS
<1>c. t = a \o b
    BY DEF RemoveAt
<1> HIDE DEF a, b, t
<1>d. /\ t \in Seq(S)
      /\ Len(t) = Len(a) + Len(b)
      /\ \A j \in 1 .. Len(a) + Len(b) : t[j] = IF j <= Len(a) THEN a[j] ELSE b[j - Len(a)]
    BY <1>a, <1>b, <1>c, ConcatProperties, Zenon
<1>e. Len(s) \in Nat
    OBVIOUS
<1>1. t \in Seq(S) /\ Len(t) = Len(s) - 1
    BY <1>a, <1>b, <1>d, <1>e
<1>2. ASSUME NEW j \in 1 .. Len(s) - 1 PROVE t[j] = IF j < i THEN s[j] ELSE s[j + 1]
  <2>1. CASE j < i
    <3>1. j \in 1 .. i - 1 /\ j <= Len(a) /\ j \in 1 .. Len(a) + Len(b)
        BY <1>a, <1>b, <1>e, <2>1
    <3> QED BY <1>a, <1>d, <2>1, <3>1
  <2>2. CASE ~(j < i)
    <3>1. /\ j - (i - 1) \in 1 .. Len(s) - i
          /\ ~(j <= Len(a))
          /\ j \in 1 .. Len(a) + Len(b)
          /\ j - (i - 1) + i = j + 1
        BY <1>a, <1>b, <1>e, <2>2
    <3>2. t[j] = b[j - (i - 1)]
        BY <1>a, <1>d, <3>1
    <3>3. b[j - (i - 1)] = s[j - (i - 1) + i]
        BY <1>b, <3>1
    <3> QED BY <2>2, <3>1, <3>2, <3>3
  <2> QED BY <2>1, <2>2
<1>3. DOMAIN t = 1 .. Len(s) - 1 /\ DOMAIN s = 1 .. Len(s) /\ Len(s) \in Nat
    BY <1>1
<1>4. Range(t) = Range(s) \ {s[i]}
  <2>1. ASSUME NEW y \in Range(t) PROVE y \in Range(s) \ {s[i]}
    <3>1. PICK j \in 1 .. Len(s) - 1 : y = t[j]
        BY <1>3, <2>1 DEF Range
    <3>2. PICK k \in 1 .. Len(s) : k # i /\ y = s[k]
      <4>1. CASE j < i  BY <1>2, <1>3, <3>1, <4>1
      <4>2. CASE ~(j < i)
        <5>1. j + 1 \in 1 .. Len(s) /\ j + 1 # i /\ t[j] = s[j + 1]
            BY <1>2, <1>3, <4>2
        <5> QED BY <3>1, <5>1
      <4> QED BY <4>1, <4>2
    <3>3. s[k] # s[i]
        BY <1>3, <3>2 DEF IsInjective
    <3> QED BY <1>3, <3>2, <3>3 DEF Range
  <2>2. ASSUME NEW y \in Range(s), y # s[i] PROVE y \in Range(t)
    <3>1. PICK k \in 1 .. Len(s) : y = s[k]
        BY <1>3, <2>2 DEF Range
    <3>2. CASE k < i
        BY <1>2, <1>3, <3>1, <3>2 DEF Range
    <3>3. CASE k > i
      <4>1. k - 1 \in 1 .. Len(s) - 1 /\ t[k - 1] = y
        BY <1>2, <1>3, <3>1, <3>3
      <4> QED BY <1>3, <4>1 DEF Range
    <3> QED BY <2>2, <3>1, <3>2, <3>3, <1>3
  <2> QED BY <2>1, <2>2
<1>5. IsInjective(t)
  <2>1. \A j, k \in 1 .. Len(s) : s[j] = s[k] => j = k
    BY <1>3 DEF IsInjective
  <2>2. SUFFICES ASSUME NEW j \in 1 .. Len(s) - 1, NEW k \in 1 .. Len(s) - 1, t[j] = t[k]
                 PROVE  j = k
    BY <1>3 DEF IsInjective
  <2> DEFINE src(x) == IF x < i THEN x ELSE x + 1
  <2>3. src(j) \in 1 .. Len(s) /\ src(k) \in 1 .. Len(s)
    BY <1>3
  <2>4. t[j] = s[src(j)] /\ t[k] = s[src(k)]
    BY <1>2
  <2>5. src(j) = src(k)
    BY <2>1, <2>2, <2>3, <2>4
  <2> QED BY <2>5
<1> QED
    BY <1>1, <1>4, <1>5 DEF t

-----------------------------------------------------------------------------
(* Tilings: sets of aligned blocks that meet every page exactly once.      *)

Tiling(B) ==
    /\ \A b \in B : Aligned(b[1], b[2]) /\ b[1] + Pow2(b[2]) <= arena_end
    /\ \A b, c \in B : b # c => Disjoint(b, c)
    /\ \A p \in Arena : \E b \in B : p \in b[1] .. b[1] + Pow2(b[2]) - 1

(* A block has an address, an order and a size.                            *)
LEMMA BlockFacts ==
    ASSUME NEW b \in Block
    PROVE  /\ b = <<b[1], b[2]>>
           /\ b[1] \in Arena /\ b[1] \in Nat /\ first_block <= b[1]
           /\ b[2] \in Orders /\ b[2] \in 0 .. 11
           /\ Pow2(b[2]) \in Nat /\ Pow2(b[2]) >= 1
<1>1. b = <<b[1], b[2]>> /\ b[1] \in Arena /\ b[2] \in Orders
    BY DEF Block
<1>2. b[2] \in 0 .. 11
    BY <1>1, MaxOrderAssumption DEF Orders
<1>3. b[1] \in Nat /\ first_block <= b[1]
    BY <1>1, ArenaFacts, FirstBlock DEF Arena
<1> QED
    BY <1>1, <1>2, <1>3, Pow2Type

(* Splitting a block into its halves keeps a tiling.                       *)
LEMMA SplitTiling ==
    ASSUME NEW B \in SUBSET Block, Tiling(B),
           NEW p \in Arena, NEW o \in Orders, o < MAX_ORDER, <<p, o + 1>> \in B
    PROVE  LET lo == <<p, o>>
               hi == <<Xor(p, o), o>>
           IN  /\ lo \in Block /\ hi \in Block
               /\ lo \notin B /\ hi \notin B /\ lo # hi
               /\ Xor(p, o) = p + Pow2(o)
               /\ Tiling((B \ {<<p, o + 1>>}) \cup {lo, hi})
<1> DEFINE big == <<p, o + 1>>
           lo == <<p, o>>
           hi == <<p + Pow2(o), o>>
           C == (B \ {big}) \cup {lo, hi}
<1>1. o \in 0 .. 10 /\ p \in Nat /\ first_block <= p /\ arena_end \in Nat /\ first_block \in Nat
    BY MaxOrderAssumption, ArenaFacts, FirstBlock DEF Orders, Arena
<1>2. /\ Pow2(o) \in Nat /\ Pow2(o) >= 1
      /\ Pow2(o + 1) = Pow2(o) + Pow2(o)
    BY <1>1, Pow2Type, Pow2Double
<1>3. Aligned(p, o + 1) /\ p + Pow2(o + 1) <= arena_end
    BY DEF Tiling
<1>4. Aligned(p, o) /\ Xor(p, o) = p + Pow2(o) /\ Aligned(p + Pow2(o), o)
    BY <1>1, <1>3, SplitBuddy
<1>5. lo \in Block /\ hi \in Block /\ lo # hi /\ lo # big /\ hi # big
    BY <1>1, <1>2, <1>3 DEF Block, Arena
<1>6. ASSUME NEW c \in Block, Disjoint(big, c)
      PROVE  Disjoint(lo, c) /\ Disjoint(hi, c) /\ Disjoint(c, lo) /\ Disjoint(c, hi)
                /\ c # lo /\ c # hi
    BY <1>1, <1>2, <1>6, BlockFacts DEF Disjoint
<1>7. \A c \in B \ {big} : Disjoint(big, c)
    BY DEF Tiling
<1>8. lo \notin B /\ hi \notin B
    BY <1>5, <1>6, <1>7
<1>9. Tiling(C)
  <2>1. ASSUME NEW b \in C PROVE Aligned(b[1], b[2]) /\ b[1] + Pow2(b[2]) <= arena_end
    <3>1. CASE b \in B BY <3>1 DEF Tiling
    <3>2. CASE b = lo BY <3>2, <1>1, <1>2, <1>3, <1>4
    <3>3. CASE b = hi BY <3>3, <1>1, <1>2, <1>3, <1>4
    <3> QED BY <3>1, <3>2, <3>3
  <2>2. Disjoint(lo, hi) /\ Disjoint(hi, lo)
    BY <1>1, <1>2 DEF Disjoint
  <2>3. ASSUME NEW b \in C, NEW c \in C, b # c PROVE Disjoint(b, c)
    <3>1. CASE b \in B \ {big} /\ c \in B \ {big} BY <2>3, <3>1 DEF Tiling
    <3>2. CASE b \in B \ {big} /\ c \in {lo, hi} BY <3>2, <1>6, <1>7
    <3>3. CASE b \in {lo, hi} /\ c \in B \ {big} BY <3>3, <1>6, <1>7
    <3>4. CASE b \in {lo, hi} /\ c \in {lo, hi} BY <2>2, <2>3, <3>4
    <3> QED BY <3>1, <3>2, <3>3, <3>4
  <2>4. ASSUME NEW x \in Arena PROVE \E b \in C : x \in b[1] .. b[1] + Pow2(b[2]) - 1
    <3>1. PICK b \in B : x \in b[1] .. b[1] + Pow2(b[2]) - 1
        BY DEF Tiling
    <3>2. CASE b # big BY <3>1, <3>2
    <3>3. CASE b = big
      <4>1. x \in p .. p + Pow2(o) - 1 \/ x \in (p + Pow2(o)) .. (p + Pow2(o)) + Pow2(o) - 1
        BY <1>1, <1>2, <3>1, <3>3
      <4>2. lo \in C /\ lo[1] = p /\ lo[2] = o /\ hi \in C /\ hi[1] = p + Pow2(o) /\ hi[2] = o
        OBVIOUS
      <4> QED BY <4>1, <4>2
    <3> QED BY <3>2, <3>3
  <2> QED BY <2>1, <2>3, <2>4 DEF Tiling
<1> QED
    BY <1>4, <1>5, <1>8, <1>9

(* Joining two buddies keeps a tiling.                                     *)
LEMMA MergeTiling ==
    ASSUME NEW B \in SUBSET Block, Tiling(B),
           NEW p \in Arena, NEW o \in Orders, o < MAX_ORDER,
           <<p, o>> \in B, <<Xor(p, o), o>> \in B
    PROVE  LET q == Xor(p, o)
               low == IF p > q THEN q ELSE p
           IN  /\ <<low, o + 1>> \in Block
               /\ <<low, o + 1>> \notin B
               /\ q # p
               /\ Tiling((B \ {<<p, o>>, <<q, o>>}) \cup {<<low, o + 1>>})
<1> DEFINE q == Xor(p, o)
           low == IF p > q THEN q ELSE p
           big == <<low, o + 1>>
           lo == <<low, o>>
           hi == <<low + Pow2(o), o>>
           C == (B \ {lo, hi}) \cup {big}
<1>1. o \in 0 .. 10 /\ p \in Nat /\ first_block <= p /\ arena_end \in Nat /\ first_block \in Nat
    BY MaxOrderAssumption, ArenaFacts, FirstBlock DEF Orders, Arena
<1>2. /\ Pow2(o) \in Nat /\ Pow2(o) >= 1
      /\ Pow2(o + 1) = Pow2(o) + Pow2(o)
    BY <1>1, Pow2Type, Pow2Double
<1>3. Aligned(p, o)
    BY DEF Tiling
<1>4. /\ q \in Nat
      /\ \/ q = p + Pow2(o) /\ Aligned(p, o + 1)
         \/ p = q + Pow2(o) /\ Aligned(q, o + 1)
    BY <1>1, <1>3, MergeBuddy
<1>5. q \in Arena
    BY DEF Block
<1> HIDE DEF q
<1>6. /\ q # p /\ low \in Arena /\ low \in Nat /\ Aligned(low, o + 1)
      /\ {<<p, o>>, <<q, o>>} = {lo, hi}
    BY <1>1, <1>2, <1>4, <1>5
<1>7. lo \in B /\ hi \in B
    BY <1>6 DEF q
<1> HIDE DEF low
<1>8. low + Pow2(o + 1) <= arena_end
    BY <1>1, <1>2, <1>6, <1>7 DEF Tiling
<1>9. big \in Block /\ lo \in Block /\ hi \in Block /\ lo # hi
    BY <1>1, <1>2, <1>6, <1>7, MaxOrderAssumption DEF Block, Orders
<1>10. ASSUME NEW c \in B \ {lo, hi}
       PROVE  Disjoint(big, c) /\ Disjoint(c, big) /\ c # big
  <2>1. Disjoint(lo, c) /\ Disjoint(hi, c)
    BY <1>7 DEF Tiling
  <2> QED BY <1>1, <1>2, <1>6, <2>1, BlockFacts DEF Disjoint
<1>11. big \notin B
    BY <1>1, <1>10
<1>12. Tiling(C)
  <2>1. ASSUME NEW b \in C PROVE Aligned(b[1], b[2]) /\ b[1] + Pow2(b[2]) <= arena_end
    <3>1. CASE b \in B BY <3>1 DEF Tiling
    <3>2. CASE b = big BY <3>2, <1>6, <1>8
    <3> QED BY <3>1, <3>2
  <2>2. ASSUME NEW b \in C, NEW c \in C, b # c PROVE Disjoint(b, c)
    <3>1. CASE b # big /\ c # big BY <2>2, <3>1 DEF Tiling
    <3>2. CASE b = big \/ c = big BY <2>2, <3>2, <1>10
    <3> QED BY <3>1, <3>2
  <2>3. ASSUME NEW x \in Arena PROVE \E b \in C : x \in b[1] .. b[1] + Pow2(b[2]) - 1
    <3>1. PICK b \in B : x \in b[1] .. b[1] + Pow2(b[2]) - 1
        BY DEF Tiling
    <3>2. CASE b \notin {lo, hi} BY <3>1, <3>2
    <3>3. CASE b \in {lo, hi}
      <4>1. x \in low .. low + Pow2(o + 1) - 1
        BY <1>1, <1>2, <1>6, <3>1, <3>3
      <4>2. big \in C /\ big[1] = low /\ big[2] = o + 1
        OBVIOUS
      <4> QED BY <4>1, <4>2
    <3> QED BY <3>2, <3>3
  <2> QED BY <2>1, <2>2, <2>3 DEF Tiling
<1> QED
    BY <1>6, <1>9, <1>11, <1>12 DEF q, low

-----------------------------------------------------------------------------
(* What list_add and list_del do to the set of free blocks.                *)

LEMMA AddFree ==
    ASSUME TypeOK, ListsCounted,
           NEW a \in Arena, NEW o \in Orders, <<a, o>> \notin FreeBlocks, list_add(a, o)
    PROVE  /\ free_list' \in [Orders -> Seq(Arena)]
           /\ nr_free' \in [Orders -> Nat]
           /\ ListsCounted'
           /\ FreeBlocks' = FreeBlocks \cup {<<a, o>>}
<1> DEFINE s == free_list[o]
<1>1. s \in Seq(Arena) /\ IsInjective(s) /\ nr_free[o] = Len(s) /\ nr_free[o] \in Nat
    BY DEF TypeOK, ListsCounted
<1>2. a \notin Range(s)
    BY DEF FreeBlocks, Block
<1>3. /\ <<a>> \o s \in Seq(Arena)
      /\ Len(<<a>> \o s) = Len(s) + 1
      /\ Range(<<a>> \o s) = {a} \cup Range(s)
      /\ IsInjective(<<a>> \o s)
    BY <1>1, <1>2, PushFacts
<1>4. /\ \A k \in Orders \ {o} : free_list'[k] = free_list[k] /\ nr_free'[k] = nr_free[k]
      /\ free_list'[o] = <<a>> \o s
      /\ nr_free'[o] = nr_free[o] + 1
      /\ free_list' \in [Orders -> Seq(Arena)]
      /\ nr_free' \in [Orders -> Nat]
    BY <1>1, <1>3 DEF list_add, TypeOK
<1>5. ListsCounted'
    BY <1>1, <1>3, <1>4 DEF ListsCounted
<1>6. \A b \in Block : b \in FreeBlocks' <=> b \in FreeBlocks \/ b = <<a, o>>
  <2> SUFFICES ASSUME NEW b \in Block
               PROVE  b \in FreeBlocks' <=> b \in FreeBlocks \/ b = <<a, o>>
    OBVIOUS
  <2>1. b \in FreeBlocks' <=> b[1] \in Range(free_list'[b[2]])
    BY DEF FreeBlocks
  <2>2. b \in FreeBlocks <=> b[1] \in Range(free_list[b[2]])
    BY DEF FreeBlocks
  <2>3. CASE b[2] = o
    <3>1. b = <<a, o>> <=> b[1] = a
        BY <2>3, BlockFacts
    <3> QED BY <1>3, <1>4, <2>1, <2>2, <2>3, <3>1
  <2>4. CASE b[2] # o
    BY <1>4, <2>1, <2>2, <2>4, BlockFacts
  <2> QED BY <2>3, <2>4
<1>7. FreeBlocks' \subseteq Block /\ FreeBlocks \subseteq Block /\ <<a, o>> \in Block
    BY DEF FreeBlocks, Block
<1> QED
    BY <1>4, <1>5, <1>6, <1>7

LEMMA DelFree ==
    ASSUME TypeOK, ListsCounted,
           NEW o \in Orders, NEW i \in DOMAIN free_list[o], list_del(i, o)
    PROVE  /\ free_list' \in [Orders -> Seq(Arena)]
           /\ nr_free' \in [Orders -> Nat]
           /\ ListsCounted'
           /\ <<free_list[o][i], o>> \in FreeBlocks
           /\ FreeBlocks' = FreeBlocks \ {<<free_list[o][i], o>>}
<1> DEFINE s == free_list[o]
<1>1. /\ s \in Seq(Arena) /\ IsInjective(s) /\ nr_free[o] = Len(s) /\ nr_free[o] \in Nat
      /\ i \in 1 .. Len(s)
    BY DEF TypeOK, ListsCounted
<1>2. /\ RemoveAt(s, i) \in Seq(Arena)
      /\ Len(RemoveAt(s, i)) = Len(s) - 1
      /\ Range(RemoveAt(s, i)) = Range(s) \ {s[i]}
      /\ IsInjective(RemoveAt(s, i))
    BY <1>1, RemoveFacts
<1>3. s[i] \in Arena /\ s[i] \in Range(s)
    BY <1>1 DEF Range
<1>4. /\ \A k \in Orders \ {o} : free_list'[k] = free_list[k] /\ nr_free'[k] = nr_free[k]
      /\ free_list'[o] = RemoveAt(s, i)
      /\ nr_free'[o] = nr_free[o] - 1
      /\ free_list' \in [Orders -> Seq(Arena)]
      /\ nr_free' \in [Orders -> Nat]
    BY <1>1, <1>2 DEF list_del, TypeOK
<1>5. ListsCounted'
    BY <1>1, <1>2, <1>4 DEF ListsCounted
<1>6. \A b \in Block : b \in FreeBlocks' <=> b \in FreeBlocks /\ b # <<s[i], o>>
  <2> SUFFICES ASSUME NEW b \in Block
               PROVE  b \in FreeBlocks' <=> b \in FreeBlocks /\ b # <<s[i], o>>
    OBVIOUS
  <2>1. b \in FreeBlocks' <=> b[1] \in Range(free_list'[b[2]])
    BY DEF FreeBlocks
  <2>2. b \in FreeBlocks <=> b[1] \in Range(free_list[b[2]])
    BY DEF FreeBlocks
  <2>3. CASE b[2] = o
    BY <1>2, <1>4, <2>1, <2>2, <2>3, BlockFacts
  <2>4. CASE b[2] # o
    BY <1>4, <2>1, <2>2, <2>4, BlockFacts
  <2> QED BY <2>3, <2>4
<1>7. FreeBlocks' \subseteq Block /\ FreeBlocks \subseteq Block /\ <<s[i], o>> \in FreeBlocks
    BY <1>3 DEF FreeBlocks, Block
<1> QED
    BY <1>4, <1>5, <1>6, <1>7

-----------------------------------------------------------------------------
(* The inductive invariant.  NoOverlap alone is not inductive: that a      *)
(* merge takes nothing but its buddy needs the lists to hold each block    *)
(* once, and HeldMarked needs the blocks to be disjoint.                   *)

IInv ==
    /\ TypeOK
    /\ ListsCounted
    /\ NoOverlap
    /\ NoPageLost
    /\ NoFreeBuddies
    /\ HeldMarked

LEMMA TilingOfInv ==
    /\ NoOverlap /\ NoPageLost
         <=> /\ Tiling(Blocks)
             /\ FreeBlocks \cap held = {}
             /\ InFlight \cap (FreeBlocks \cup held) = {}
BY DEF NoOverlap, NoPageLost, Tiling

(* The blocks of a typed state are blocks of the arena.                    *)
LEMMA BlocksType ==
    ASSUME TypeOK
    PROVE  /\ FreeBlocks \subseteq Block /\ held \subseteq Block
           /\ InFlight \subseteq Block /\ Blocks \subseteq Block
           /\ pc # "idle" => <<current_addr, current_order>> \in Block
<1>1. FreeBlocks \subseteq Block /\ held \subseteq Block
    BY DEF FreeBlocks, TypeOK
<1>2. pc # "idle" => <<current_addr, current_order>> \in Block
    BY MaxOrderAssumption, SMTT(30) DEF TypeOK, Block, Orders
<1> QED
    BY <1>1, <1>2 DEF InFlight, Blocks

(* A free list that only loses blocks has no new pair of buddies.          *)
LEMMA FewerBuddies ==
    ASSUME NoFreeBuddies, FreeBlocks' \subseteq FreeBlocks
    PROVE  NoFreeBuddies'
BY DEF NoFreeBuddies

(* Nor one that gains a block whose buddy is not free.                     *)
LEMMA AddCoalesced ==
    ASSUME NoFreeBuddies, FreeBlocks \subseteq Block,
           \A c \in FreeBlocks : Aligned(c[1], c[2]),
           NEW a \in Arena, NEW o \in Orders, Aligned(a, o),
           o < MAX_ORDER => <<Xor(a, o), o>> \notin FreeBlocks,
           FreeBlocks' = FreeBlocks \cup {<<a, o>>}
    PROVE  NoFreeBuddies'
<1>1. \A c \in Block : c[2] < MAX_ORDER => c[2] \in 0 .. 10
    BY BlockFacts, MaxOrderAssumption DEF Orders
<1>2. <<a, o>> \in Block
    BY DEF Block
<1>3. ASSUME NEW c \in FreeBlocks \cup {<<a, o>>}, c[2] < MAX_ORDER,
             <<Xor(c[1], c[2]), c[2]>> \in FreeBlocks \cup {<<a, o>>}
      PROVE  FALSE
  <2>1. /\ c \in Block /\ c[1] \in Nat /\ c[2] \in 0 .. 10 /\ Aligned(c[1], c[2])
        /\ c = <<c[1], c[2]>>
    BY <1>1, <1>2, <1>3, BlockFacts
  <2>2. /\ Xor(Xor(c[1], c[2]), c[2]) = c[1]
        /\ Xor(c[1], c[2]) # c[1]
    BY <2>1, MergeBuddy, Pow2Type
  <2>3. CASE c = <<a, o>>
    BY <1>3, <2>2, <2>3
  <2>4. CASE c \in FreeBlocks /\ <<Xor(c[1], c[2]), c[2]>> = <<a, o>>
    BY <1>3, <2>1, <2>2, <2>4
  <2> QED BY <1>3, <2>3, <2>4 DEF NoFreeBuddies
<1> QED
    BY <1>3 DEF NoFreeBuddies

(* The bits of a block of the arena are bits of the arena; disjoint blocks *)
(* have no bit in common.                                                  *)
LEMMA IndicesFacts ==
    ASSUME NEW b \in Block, b[1] + Pow2(b[2]) <= arena_end
    PROVE  /\ Indices(b[1], Pow2(b[2])) \subseteq {p - memory_start : p \in Arena}
           /\ \A c \in Block : Disjoint(b, c) =>
                  Indices(b[1], Pow2(b[2])) \cap Indices(c[1], Pow2(c[2])) = {}
<1>1. memory_start \in Nat /\ first_block \in Nat /\ arena_end \in Nat
    BY IntervalAssumption, FirstBlock, ArenaFacts
<1>2. /\ b[1] \in Nat /\ Pow2(b[2]) \in Nat /\ first_block <= b[1]
      /\ \A c \in Block : c[1] \in Nat /\ Pow2(c[2]) \in Nat
    BY BlockFacts
<1>3. b[1] .. b[1] + Pow2(b[2]) - 1 \subseteq Arena
    BY <1>1, <1>2 DEF Arena
<1>4. Indices(b[1], Pow2(b[2])) \subseteq {p - memory_start : p \in Arena}
    BY <1>3 DEF Indices
<1>5. ASSUME NEW c \in Block, Disjoint(b, c),
             NEW x \in Indices(b[1], Pow2(b[2])), x \in Indices(c[1], Pow2(c[2]))
      PROVE  FALSE
  <2>1. PICK i \in b[1] .. b[1] + Pow2(b[2]) - 1 : x = i - memory_start
    BY DEF Indices
  <2>2. PICK j \in c[1] .. c[1] + Pow2(c[2]) - 1 : x = j - memory_start
    BY <1>5 DEF Indices
  <2> QED BY <1>1, <1>2, <1>5, <2>1, <2>2 DEF Disjoint
<1> QED
    BY <1>4, <1>5

-----------------------------------------------------------------------------
(* One lemma per action: it keeps the inductive invariant.                 *)

LEMMA KeepAllocTake ==
    ASSUME IInv, NEW o \in Orders, AllocTake(o)
    PROVE  IInv'
<1>1. PICK k \in o .. MAX_ORDER :
          /\ free_list[k] # << >>
          /\ current_addr' = free_list[k][1]
          /\ current_order' = k
          /\ list_del(1, k)
    BY DEF AllocTake, search
<1>2. k \in Orders /\ free_list[k] \in Seq(Arena) /\ 1 \in DOMAIN free_list[k]
    BY <1>1, MaxOrderAssumption, SMTT(30) DEF IInv, TypeOK, Orders
<1> DEFINE b == <<free_list[k][1], k>>
<1>3. /\ free_list' \in [Orders -> Seq(Arena)] /\ nr_free' \in [Orders -> Nat]
      /\ ListsCounted'
      /\ b \in FreeBlocks /\ FreeBlocks' = FreeBlocks \ {b}
    BY <1>1, <1>2, DelFree DEF IInv
<1>4. TypeOK'
  <2>1. pc' = "split" /\ order' \in Orders /\ current_order' \in order' .. MAX_ORDER
    BY <1>1 DEF AllocTake
  <2>2. current_addr' \in Arena
    BY <1>1, <1>2
  <2>3. UNCHANGED <<bitmap, held, answer>>
    BY DEF AllocTake
  <2> QED BY <1>3, <2>1, <2>2, <2>3 DEF IInv, TypeOK
<1>5. held' = held /\ bitmap' = bitmap /\ InFlight = {} /\ InFlight' = {b}
    BY <1>1 DEF AllocTake, InFlight
<1>6. FreeBlocks \cap held = {} /\ Tiling(Blocks)
    BY TilingOfInv DEF IInv
<1>7. Blocks' = Blocks
    BY <1>3, <1>5 DEF Blocks
<1>8. /\ Tiling(Blocks') /\ FreeBlocks' \cap held' = {}
      /\ InFlight' \cap (FreeBlocks' \cup held') = {}
    BY <1>3, <1>5, <1>6, <1>7
<1>9. (NoOverlap /\ NoPageLost)'
    BY <1>8 DEF NoOverlap, NoPageLost, Tiling
<1>10. NoFreeBuddies'
    BY <1>3, FewerBuddies DEF IInv
<1>11. HeldMarked'
    BY <1>5 DEF IInv, HeldMarked
<1> QED
    BY <1>3, <1>4, <1>9, <1>10, <1>11 DEF IInv

LEMMA KeepSplitStep ==
    ASSUME IInv, SplitStep
    PROVE  IInv'
<1> DEFINE o == current_order - 1
           b == <<current_addr, current_order>>
           lo == <<current_addr, o>>
           hi == <<Xor(current_addr, o), o>>
<1>1. /\ current_addr \in Arena /\ o \in Orders /\ o < MAX_ORDER /\ order <= o
      /\ order \in Orders /\ current_order = o + 1
    BY MaxOrderAssumption DEF IInv, TypeOK, SplitStep, Orders
<1>2. /\ Tiling(Blocks) /\ FreeBlocks \cap held = {}
      /\ b \notin FreeBlocks \cup held
      /\ InFlight = {b}
    BY TilingOfInv DEF IInv, InFlight, SplitStep
<1>3. Blocks \subseteq Block /\ b \in Blocks /\ FreeBlocks \subseteq Block
    BY <1>2, BlocksType DEF IInv, Blocks
<1> HIDE DEF o
<1>4. /\ lo \in Block /\ hi \in Block /\ lo \notin Blocks /\ hi \notin Blocks /\ lo # hi
      /\ Xor(current_addr, o) = current_addr + Pow2(o)
      /\ Tiling((Blocks \ {b}) \cup {lo, hi})
    BY <1>1, <1>2, <1>3, SplitTiling
<1>5. Xor(current_addr, o) \in Arena /\ hi \notin FreeBlocks /\ list_add(Xor(current_addr, o), o)
    BY <1>1, <1>4 DEF Block, Blocks, SplitStep, split_buddy, o
<1>6. /\ free_list' \in [Orders -> Seq(Arena)] /\ nr_free' \in [Orders -> Nat]
      /\ ListsCounted'
      /\ FreeBlocks' = FreeBlocks \cup {hi}
    BY <1>1, <1>5, AddFree DEF IInv
<1>7. /\ held' = held /\ bitmap \subseteq bitmap'
      /\ bitmap' = bitmap \cup {Xor(current_addr, o) - memory_start}
      /\ InFlight' = {lo}
    BY DEF SplitStep, InFlight, split_buddy, o
<1>8. TypeOK'
  <2>1. pc' = "split" /\ order' \in Orders /\ current_order' = o
    BY <1>1 DEF SplitStep, o
  <2>2. current_order' \in order' .. MAX_ORDER
    BY <1>1, <2>1, MaxOrderAssumption DEF SplitStep, Orders
  <2>3. current_addr' \in Arena /\ held' \subseteq Block /\ UNCHANGED answer
    BY <1>1 DEF IInv, TypeOK, SplitStep
  <2>4. bitmap' \subseteq {p - memory_start : p \in Arena}
    BY <1>5, <1>7 DEF IInv, TypeOK
  <2> QED BY <1>6, <2>1, <2>2, <2>3, <2>4 DEF IInv, TypeOK
<1>9. Blocks' = (Blocks \ {b}) \cup {lo, hi}
    BY <1>2, <1>6, <1>7 DEF Blocks
<1>10. /\ Tiling(Blocks') /\ FreeBlocks' \cap held' = {}
       /\ InFlight' \cap (FreeBlocks' \cup held') = {}
  <2>1. /\ lo \notin FreeBlocks /\ lo \notin held /\ lo # hi
        /\ hi \notin FreeBlocks /\ hi \notin held
    BY <1>4 DEF Blocks
  <2>2. Tiling(Blocks')
    BY <1>4, <1>9
  <2>3. FreeBlocks' \cap held' = {}
    BY <1>2, <1>6, <1>7, <2>1
  <2> QED BY <1>6, <1>7, <2>1, <2>2, <2>3
<1>11. (NoOverlap /\ NoPageLost)'
    BY <1>10 DEF NoOverlap, NoPageLost, Tiling
<1>12. NoFreeBuddies'
  <2>1. o \in 0 .. 10 /\ current_addr \in Nat /\ Aligned(current_addr, o + 1)
    BY <1>1, <1>2, <1>3, MaxOrderAssumption, ArenaFacts DEF Tiling, Orders
  <2>2. Aligned(Xor(current_addr, o), o) /\ Xor(Xor(current_addr, o), o) = current_addr
    BY <2>1, SplitBuddy, MergeBuddy
  <2>3. <<Xor(Xor(current_addr, o), o), o>> \notin FreeBlocks
    BY <1>4, <2>2 DEF Blocks
  <2>4. \A c \in FreeBlocks : Aligned(c[1], c[2])
    BY <1>2 DEF Tiling, Blocks
  <2>5. NoFreeBuddies
    BY DEF IInv
  <2> QED BY <1>1, <1>3, <1>5, <1>6, <2>2, <2>3, <2>4, <2>5, AddCoalesced
<1>13. HeldMarked'
    BY <1>7 DEF IInv, HeldMarked
<1> QED
    BY <1>6, <1>8, <1>11, <1>12, <1>13 DEF IInv

LEMMA KeepAllocReturn ==
    ASSUME IInv, AllocReturn
    PROVE  IInv'
<1> DEFINE b == <<current_addr, order>>
<1>1. current_order = order /\ order \in Orders /\ b \in Block /\ current_addr \in Arena
    BY MaxOrderAssumption, BlocksType, SMTT(30) DEF IInv, TypeOK, AllocReturn, Orders
<1>2. /\ Tiling(Blocks) /\ FreeBlocks \cap held = {}
      /\ b \notin FreeBlocks \cup held
      /\ InFlight = {b}
    BY <1>1, TilingOfInv DEF IInv, InFlight, AllocReturn
<1>3. /\ FreeBlocks' = FreeBlocks /\ held' = held \cup {b} /\ InFlight' = {}
      /\ bitmap' = bitmap \cup Indices(b[1], Pow2(b[2]))
    BY DEF AllocReturn, FreeBlocks, InFlight, area, Return
<1>4. Blocks' = Blocks /\ b \in Blocks
    BY <1>2, <1>3 DEF Blocks
<1>5. b[1] + Pow2(b[2]) <= arena_end
    BY <1>2, <1>4 DEF Tiling
<1>6. bitmap' \subseteq {p - memory_start : p \in Arena}
    BY <1>1, <1>3, <1>5, IndicesFacts DEF IInv, TypeOK
<1>7. TypeOK'
  <2>1. pc' = "idle" /\ order' = 0 /\ current_order' = 0 /\ current_addr' = 0 /\ 0 \in Orders
    BY MaxOrderAssumption DEF AllocReturn, Return, Orders
  <2>2. held' \subseteq Block /\ UNCHANGED <<free_list, nr_free>>
    BY <1>1, <1>3 DEF IInv, TypeOK, AllocReturn, area
  <2>3. answer' \in (0 .. MAX_ORDER + 1) \X ({-1, 0} \cup Arena)
    BY <1>1, MaxOrderAssumption DEF AllocReturn, Orders
  <2> QED BY <1>6, <2>1, <2>2, <2>3 DEF IInv, TypeOK
<1>8. /\ Tiling(Blocks') /\ FreeBlocks' \cap held' = {}
      /\ InFlight' \cap (FreeBlocks' \cup held') = {}
    BY <1>2, <1>3, <1>4
<1>9. (NoOverlap /\ NoPageLost)'
    BY <1>8 DEF NoOverlap, NoPageLost, Tiling
<1>10. NoFreeBuddies' /\ ListsCounted'
    BY <1>3 DEF IInv, NoFreeBuddies, ListsCounted, AllocReturn, area
<1>11. HeldMarked'
    BY <1>3 DEF IInv, HeldMarked
<1> QED
    BY <1>7, <1>9, <1>10, <1>11 DEF IInv

LEMMA KeepFreeBegin ==
    ASSUME IInv, NEW b \in held, FreeBegin(b[1], b[2])
    PROVE  IInv'
<1>1. b \in Block /\ b = <<b[1], b[2]>> /\ b[1] \in Arena /\ b[2] \in Orders
    BY BlocksType, BlockFacts DEF IInv
<1>2. /\ Tiling(Blocks) /\ FreeBlocks \cap held = {} /\ InFlight = {}
      /\ held \subseteq Block
    BY TilingOfInv, BlocksType DEF IInv, InFlight, FreeBegin
<1>3. /\ FreeBlocks' = FreeBlocks /\ held' = held \ {b} /\ InFlight' = {b}
      /\ bitmap' = bitmap \ Indices(b[1], Pow2(b[2]))
    BY <1>1 DEF FreeBegin, FreeBlocks, InFlight, area, pages_to_free
<1>4. Blocks' = Blocks /\ held \subseteq Blocks
    BY <1>2, <1>3 DEF Blocks
<1>5. TypeOK'
  <2>1. pc' = "merge" /\ order' \in Orders /\ current_order' \in Orders /\ current_addr' \in Arena
    BY <1>1 DEF FreeBegin
  <2>2. UNCHANGED <<free_list, nr_free>> /\ held' \subseteq Block
    BY <1>2, <1>3 DEF FreeBegin, area
  <2>3. answer' \in (0 .. MAX_ORDER + 1) \X ({-1, 0} \cup Arena)
    BY MaxOrderAssumption DEF FreeBegin, NoAnswer
  <2>4. bitmap' \subseteq {p - memory_start : p \in Arena}
    BY <1>3 DEF IInv, TypeOK
  <2> QED BY <2>1, <2>2, <2>3, <2>4 DEF IInv, TypeOK
<1>6. /\ Tiling(Blocks') /\ FreeBlocks' \cap held' = {}
      /\ InFlight' \cap (FreeBlocks' \cup held') = {}
    BY <1>2, <1>3, <1>4
<1>7. (NoOverlap /\ NoPageLost)'
    BY <1>6 DEF NoOverlap, NoPageLost, Tiling
<1>8. NoFreeBuddies' /\ ListsCounted'
    BY <1>3 DEF IInv, NoFreeBuddies, ListsCounted, FreeBegin, area
<1>9. HeldMarked'
  <2> SUFFICES ASSUME NEW c \in held, c # b
               PROVE  Indices(c[1], Pow2(c[2])) \subseteq bitmap \ Indices(b[1], Pow2(b[2]))
    BY <1>3 DEF HeldMarked
  <2>1. Disjoint(b, c) /\ b[1] + Pow2(b[2]) <= arena_end /\ c \in Block
    BY <1>2, <1>4 DEF Tiling
  <2>2. Indices(b[1], Pow2(b[2])) \cap Indices(c[1], Pow2(c[2])) = {}
    BY <1>1, <2>1, IndicesFacts
  <2>3. Indices(c[1], Pow2(c[2])) \subseteq bitmap
    BY DEF IInv, HeldMarked
  <2> QED BY <2>2, <2>3
<1> QED
    BY <1>5, <1>7, <1>8, <1>9 DEF IInv

(* The buddy pmm_free_pages computes from the index is that of the address. *)
LEMMA BuddyAddr ==
    ASSUME TypeOK, pc = "merge", current_order < MAX_ORDER
    PROVE  buddy_addr = Xor(current_addr, current_order)
<1>1. current_addr \in Nat /\ memory_start \in Nat /\ memory_start <= current_addr
    BY IntervalAssumption, FirstBlock, ArenaFacts DEF TypeOK, Arena
<1>2. current_order \in 0 .. 10 /\ current_order + 1 \in 0 .. MAX_ORDER
    BY MaxOrderAssumption DEF TypeOK, Orders
<1>3. Aligned(memory_start, MAX_ORDER)
    BY BaseAlignedAssumption DEF Aligned
<1>4. Aligned(memory_start, current_order + 1)
    BY <1>1, <1>2, <1>3, AlignedDown, MaxOrderAssumption
<1> QED
    BY <1>1, <1>2, <1>4, RelativeBuddy DEF buddy_addr, find_buddy_pfn

LEMMA KeepMergeStep ==
    ASSUME IInv, MergeStep
    PROVE  IInv'
<1> DEFINE p == current_addr
           o == current_order
           q == Xor(p, o)
           low == IF p > q THEN q ELSE p
           a == <<p, o>>
           b == <<q, o>>
           big == <<low, o + 1>>
<1>1. /\ p \in Arena /\ o \in Orders /\ o < MAX_ORDER /\ buddy_addr = q
      /\ order \in Orders
    BY BuddyAddr DEF IInv, TypeOK, MergeStep, buddy_found
<1>2. PICK i \in DOMAIN free_list[o] : free_list[o][i] = q /\ list_del(i, o)
    BY <1>1 DEF MergeStep
<1>3. /\ free_list' \in [Orders -> Seq(Arena)] /\ nr_free' \in [Orders -> Nat]
      /\ ListsCounted'
      /\ b \in FreeBlocks /\ FreeBlocks' = FreeBlocks \ {b}
    BY <1>1, <1>2, DelFree DEF IInv
<1>4. /\ Tiling(Blocks) /\ FreeBlocks \cap held = {}
      /\ a \notin FreeBlocks \cup held
      /\ InFlight = {a}
    BY TilingOfInv DEF IInv, InFlight, MergeStep
<1>5. Blocks \subseteq Block /\ a \in Blocks /\ b \in Blocks
    BY <1>3, <1>4, BlocksType DEF IInv, Blocks
<1>6. /\ big \in Block /\ big \notin Blocks /\ q # p
      /\ Tiling((Blocks \ {a, b}) \cup {big})
    BY <1>1, <1>4, <1>5, MergeTiling
<1>7. /\ current_addr' = low /\ current_order' = o + 1 /\ pc' = "merge"
      /\ UNCHANGED <<bitmap, held, order, answer>>
    BY <1>1 DEF MergeStep, merged
<1>8. InFlight' = {big}
    BY <1>7 DEF InFlight
<1> HIDE DEF big, a, b
<1>9. TypeOK'
  <2>1. current_addr' \in Arena /\ current_order' \in Orders
    BY <1>6, <1>7 DEF Block, big
  <2> QED BY <1>1, <1>3, <1>7, <2>1 DEF IInv, TypeOK
<1>10. Blocks' = (Blocks \ {a, b}) \cup {big}
    BY <1>3, <1>4, <1>7, <1>8 DEF Blocks
<1>11. /\ Tiling(Blocks') /\ FreeBlocks' \cap held' = {}
       /\ InFlight' \cap (FreeBlocks' \cup held') = {}
  <2>1. Tiling(Blocks')
    BY <1>6, <1>10
  <2>2. big \notin FreeBlocks /\ big \notin held
    BY <1>6 DEF Blocks
  <2> QED BY <1>3, <1>4, <1>7, <1>8, <2>1, <2>2
<1>12. (NoOverlap /\ NoPageLost)'
    BY <1>11 DEF NoOverlap, NoPageLost, Tiling
<1>13. NoFreeBuddies'
    BY <1>3, FewerBuddies DEF IInv
<1>14. HeldMarked'
    BY <1>7 DEF IInv, HeldMarked
<1> QED
    BY <1>3, <1>9, <1>12, <1>13, <1>14 DEF IInv

LEMMA KeepFreeReturn ==
    ASSUME IInv, FreeReturn
    PROVE  IInv'
<1> DEFINE p == current_addr
           o == current_order
           a == <<p, o>>
<1>1. p \in Arena /\ o \in Orders /\ list_add(p, o)
    BY DEF IInv, TypeOK, FreeReturn
<1>2. /\ Tiling(Blocks) /\ FreeBlocks \cap held = {}
      /\ a \notin FreeBlocks /\ a \notin held
      /\ InFlight = {a}
    BY TilingOfInv DEF IInv, InFlight, FreeReturn
<1>3. /\ free_list' \in [Orders -> Seq(Arena)] /\ nr_free' \in [Orders -> Nat]
      /\ ListsCounted'
      /\ FreeBlocks' = FreeBlocks \cup {a}
    BY <1>1, <1>2, AddFree DEF IInv
<1>4. UNCHANGED <<bitmap, held, answer>> /\ InFlight' = {}
    BY DEF FreeReturn, InFlight, Return
<1>5. TypeOK'
  <2>1. pc' = "idle" /\ order' = 0 /\ current_order' = 0 /\ current_addr' = 0 /\ 0 \in Orders
    BY MaxOrderAssumption DEF FreeReturn, Return, Orders
  <2> QED BY <1>3, <1>4, <2>1 DEF IInv, TypeOK
<1>6. Blocks' = Blocks /\ a \in Blocks /\ FreeBlocks \subseteq Blocks
    BY <1>2, <1>3, <1>4 DEF Blocks
<1>7. /\ Tiling(Blocks') /\ FreeBlocks' \cap held' = {}
      /\ InFlight' \cap (FreeBlocks' \cup held') = {}
    BY <1>2, <1>3, <1>4, <1>6
<1>8. (NoOverlap /\ NoPageLost)'
    BY <1>7 DEF NoOverlap, NoPageLost, Tiling
<1>9. NoFreeBuddies'
  <2>1. /\ Aligned(p, o) /\ FreeBlocks \subseteq Block /\ NoFreeBuddies
        /\ \A c \in FreeBlocks : Aligned(c[1], c[2])
    BY <1>2, <1>6, BlocksType DEF Tiling, IInv
  <2>2. o < MAX_ORDER => <<Xor(p, o), o>> \notin FreeBlocks
    BY BuddyAddr DEF IInv, FreeReturn, buddy_found, FreeBlocks
  <2> QED BY <1>1, <1>3, <2>1, <2>2, AddCoalesced
<1>10. HeldMarked'
    BY <1>4 DEF IInv, HeldMarked
<1> QED
    BY <1>3, <1>5, <1>8, <1>9, <1>10 DEF IInv

-----------------------------------------------------------------------------
(* The state that pmm_init leaves.                                         *)

LEMMA Multiples ==
    ASSUME NEW j \in Nat, NEW k \in Nat, NEW o \in 0 .. 11
    PROVE  /\ j * Pow2(o) \in Nat /\ Aligned(j * Pow2(o), o)
           /\ j < k => j * Pow2(o) + Pow2(o) <= k * Pow2(o)
BY TwelveOrders, Pow2Values DEF Aligned

LEMMA Quotient ==
    ASSUME NEW x \in Nat, NEW n \in Nat, NEW o \in 0 .. 11, x < n * Pow2(o)
    PROVE  /\ x \div Pow2(o) \in 0 .. n - 1
           /\ (x \div Pow2(o)) * Pow2(o) <= x
           /\ x < (x \div Pow2(o)) * Pow2(o) + Pow2(o)
BY TwelveOrders, Pow2Values

LEMMA InitIInv == Init => IInv
<1> SUFFICES ASSUME Init PROVE IInv
    OBVIOUS
<1> DEFINE M == MAX_ORDER
           P == Pow2(MAX_ORDER)
           n == nr_blocks
           f == first_block
           s == free_list[M]
<1>1. /\ M \in 0 .. 11 /\ M \in Orders /\ 0 \in Orders /\ P \in Nat /\ P >= 1
      /\ n \in Nat /\ f \in Nat /\ Aligned(f, M) /\ arena_end = f + n * P /\ n * P \in Nat
  <2>1. M \in 0 .. 11 /\ M \in Orders /\ 0 \in Orders
    BY MaxOrderAssumption DEF Orders
  <2>2. arena_end = f + n * P
    BY DEF arena_end
  <2> QED BY <2>1, <2>2, Pow2Type, ArenaFacts, FirstBlock
<1>2. /\ s = [i \in 1 .. n |-> f + (n - i) * P]
      /\ \A o \in Orders \ {M} : free_list[o] = << >>
      /\ DOMAIN free_list = Orders
      /\ nr_free = [o \in Orders |-> IF o = M THEN n ELSE 0]
    BY <1>1 DEF Init
<1>3. \A j, k \in 0 .. n - 1 :
          /\ f + j * P \in Arena
          /\ Aligned(f + j * P, M)
          /\ f + j * P + P <= arena_end
          /\ j < k => f + j * P + P <= f + k * P
  <2> SUFFICES ASSUME NEW j \in 0 .. n - 1, NEW k \in 0 .. n - 1
               PROVE  /\ f + j * P \in Arena
                      /\ Aligned(f + j * P, M)
                      /\ f + j * P + P <= arena_end
                      /\ j < k => f + j * P + P <= f + k * P
    OBVIOUS
  <2>1. j \in Nat /\ k \in Nat /\ j < n
    BY <1>1
  <2>2. /\ j * P \in Nat /\ k * P \in Nat /\ Aligned(j * P, M)
        /\ j * P + P <= n * P
        /\ j < k => j * P + P <= k * P
    BY <1>1, <2>1, Multiples
  <2>3. Aligned(f + j * P, M)
    BY <1>1, <2>2, AlignedSum
  <2> HIDE DEF P, f, n
  <2>4. f + j * P + P <= arena_end /\ (j < k => f + j * P + P <= f + k * P)
    BY <1>1, <2>2
  <2>5. f + j * P \in f .. arena_end - 1
    BY <1>1, <2>2
  <2> QED BY <2>3, <2>4, <2>5 DEF Arena, f
<1>4. \A i \in 1 .. n : n - i \in 0 .. n - 1 /\ s[i] = f + (n - i) * P
    BY <1>1, <1>2
<1>5. s \in Seq(Arena) /\ Len(s) = n /\ DOMAIN s = 1 .. n
  <2>1. s \in [1 .. n -> Arena]
    BY <1>2, <1>3, <1>4
  <2> QED BY <1>1, <2>1
<1>6. IsInjective(s)
  <2> SUFFICES ASSUME NEW i \in 1 .. n, NEW j \in 1 .. n, i < j PROVE s[i] # s[j]
    BY <1>1, <1>5, SMTT(30) DEF IsInjective
  <2>1. n - j \in 0 .. n - 1 /\ n - i \in 0 .. n - 1 /\ n - j < n - i
    BY <1>1
  <2>2. f + (n - j) * P + P <= f + (n - i) * P
    BY <1>3, <2>1
  <2>3. s[i] \in Nat /\ s[j] \in Nat
    <3>1. s[i] \in Arena /\ s[j] \in Arena
        BY <1>5
    <3> QED BY <3>1, ArenaFacts
  <2> HIDE DEF s
  <2>4. s[j] + P <= s[i]
    BY <1>4, <2>2
  <2> QED BY <1>1, <2>3, <2>4
<1>7. IsInjective(<< >>) /\ << >> \in Seq(Arena) /\ Len(<< >>) = 0 /\ Range(<< >>) = {}
    BY DEF IsInjective, Range
<1>8. free_list \in [Orders -> Seq(Arena)] /\ nr_free \in [Orders -> Nat]
  <2>1. \A o \in Orders : free_list[o] \in Seq(Arena)
    BY <1>2, <1>5, <1>7
  <2>2. free_list = [o \in Orders |-> free_list[o]]
    BY DEF Init
  <2> QED BY <1>1, <1>2, <2>1, <2>2
<1>9. TypeOK
    BY <1>1, <1>8, MaxOrderAssumption DEF Init, TypeOK, NoAnswer
<1>10. ListsCounted
    BY <1>1, <1>2, <1>5, <1>6, <1>7 DEF ListsCounted
<1>11. Blocks = FreeBlocks /\ held = {} /\ InFlight = {}
    BY DEF Init, Blocks, InFlight
<1>12. \A b \in FreeBlocks : b[2] = M /\ \E j \in 0 .. n - 1 : b[1] = f + j * P
  <2> SUFFICES ASSUME NEW b \in FreeBlocks
               PROVE  b[2] = M /\ \E j \in 0 .. n - 1 : b[1] = f + j * P
    OBVIOUS
  <2>1. b \in Block /\ b[1] \in Range(free_list[b[2]])
    BY DEF FreeBlocks
  <2>2. b[2] = M
    BY <1>2, <1>7, <2>1, BlockFacts
  <2>3. PICK i \in 1 .. n : b[1] = s[i]
    BY <1>5, <2>1, <2>2 DEF Range
  <2> QED BY <1>4, <2>2, <2>3
<1>13. Tiling(FreeBlocks)
  <2>1. \A b \in FreeBlocks : Aligned(b[1], b[2]) /\ b[1] + Pow2(b[2]) <= arena_end
    BY <1>3, <1>12
  <2>2. ASSUME NEW b \in FreeBlocks, NEW c \in FreeBlocks, b # c PROVE Disjoint(b, c)
    <3>1. PICK j \in 0 .. n - 1 : b[1] = f + j * P
        BY <1>12
    <3>2. PICK k \in 0 .. n - 1 : c[1] = f + k * P
        BY <1>12
    <3>3. b[2] = M /\ c[2] = M /\ b[1] # c[1]
        BY <1>12, <2>2, BlockFacts DEF FreeBlocks
    <3>4. j < k \/ k < j
        BY <1>1, <3>1, <3>2, <3>3
    <3> QED BY <1>3, <3>1, <3>2, <3>3, <3>4 DEF Disjoint
  <2>3. ASSUME NEW x \in Arena
        PROVE  \E b \in FreeBlocks : x \in b[1] .. b[1] + Pow2(b[2]) - 1
    <3> DEFINE k == (x - f) \div P
               i == n - k
    <3>1. x - f \in Nat /\ x - f < n * P /\ x \in Nat
        BY <1>1, ArenaFacts DEF Arena
    <3>2. k \in 0 .. n - 1 /\ k * P <= x - f /\ x - f < k * P + P /\ k * P \in Nat
      <4>1. k \in 0 .. n - 1 /\ k * P <= x - f /\ x - f < k * P + P
        BY <1>1, <3>1, Quotient
      <4>2. k \in Nat
        BY <1>1, <4>1
      <4> HIDE DEF k, n
      <4>3. k * P \in Nat
        BY <1>1, <4>2, Multiples
      <4> QED BY <4>1, <4>3
    <3> HIDE DEF k
    <3>3. i \in 1 .. n /\ n - i = k
        BY <1>1, <3>2
    <3>4. s[i] = f + k * P /\ s[i] \in Range(s) /\ s[i] \in Arena
        BY <1>4, <1>5, <3>3 DEF Range
    <3>5. <<s[i], M>> \in FreeBlocks
        BY <1>1, <3>4 DEF FreeBlocks, Block
    <3> HIDE DEF s, P, f, n, M
    <3>6. x \in s[i] .. s[i] + P - 1
        BY <1>1, <3>1, <3>2, <3>4
    <3> QED BY <3>5, <3>6 DEF P, M
  <2> QED BY <2>1, <2>2, <2>3 DEF Tiling
<1>14. NoOverlap /\ NoPageLost
    BY <1>11, <1>13, TilingOfInv
<1>15. NoFreeBuddies
    BY <1>1, <1>12 DEF NoFreeBuddies
<1>16. HeldMarked
    BY <1>11 DEF HeldMarked
<1> QED
    BY <1>9, <1>10, <1>14, <1>15, <1>16 DEF IInv

-----------------------------------------------------------------------------
(* The invariant holds in every reachable state.                           *)

(* A call that is turned away, or fails, touches neither lists nor bitmap. *)
LEMMA KeepRefused ==
    ASSUME IInv, NEW o \in 0 .. MAX_ORDER + 1, UNCHANGED <<area, bitmap, held, locals>>,
           answer' = <<o, 0>> \/ answer' = NoAnswer
    PROVE  IInv'
<1>1. UNCHANGED <<free_list, nr_free, bitmap, held, pc, order, current_order, current_addr>>
    BY DEF area, locals
<1>2. answer' \in (0 .. MAX_ORDER + 1) \X ({-1, 0} \cup Arena)
    BY MaxOrderAssumption DEF NoAnswer
<1>3. TypeOK'
    BY <1>1, <1>2 DEF IInv, TypeOK
<1>4. FreeBlocks' = FreeBlocks /\ InFlight' = InFlight /\ Blocks' = Blocks
    BY <1>1 DEF FreeBlocks, InFlight, Blocks
<1> QED
    BY <1>1, <1>3, <1>4 DEF IInv, ListsCounted, NoOverlap, NoPageLost, NoFreeBuddies, HeldMarked

LEMMA NextIInv == IInv /\ [Next]_vars => IInv'
<1> SUFFICES ASSUME IInv, [Next]_vars PROVE IInv'
    OBVIOUS
<1>1. ASSUME NEW o \in 0 .. MAX_ORDER + 1, AllocInvalid(o) PROVE IInv'
    BY <1>1, KeepRefused DEF AllocInvalid
<1>2. ASSUME NEW o \in 0 .. MAX_ORDER + 1, AllocOutOfMemory(o) PROVE IInv'
    BY <1>2, KeepRefused DEF AllocOutOfMemory
<1>3. ASSUME NEW o \in 0 .. MAX_ORDER + 1, AllocTake(o) PROVE IInv'
    BY <1>3, KeepAllocTake DEF AllocTake
<1>4. ASSUME NEW o \in 0 .. MAX_ORDER + 1, NEW page_addr, FreeInvalid(page_addr, o) PROVE IInv'
    BY <1>4, KeepRefused DEF FreeInvalid
<1>5. ASSUME NEW b \in held, FreeBegin(b[1], b[2]) PROVE IInv'
    BY <1>5, KeepFreeBegin
<1>6. CASE UNCHANGED vars
  <2>1. UNCHANGED <<free_list, nr_free, bitmap, held, pc, order, current_order, current_addr, answer>>
    BY <1>6 DEF vars
  <2>2. FreeBlocks' = FreeBlocks /\ InFlight' = InFlight /\ Blocks' = Blocks
    BY <2>1 DEF FreeBlocks, InFlight, Blocks
  <2> QED
    BY <2>1, <2>2 DEF IInv, TypeOK, ListsCounted, NoOverlap, NoPageLost, NoFreeBuddies, HeldMarked
<1> QED
    BY <1>1, <1>2, <1>3, <1>4, <1>5, <1>6,
       KeepSplitStep, KeepAllocReturn, KeepMergeStep, KeepFreeReturn
    DEF Next, Call, Step

(* The variables of pmm.c keep their types and the loops their bounds.     *)
THEOREM TypeCorrect == Spec => []TypeOK
<1>1. IInv => TypeOK
    BY DEF IInv
<1> QED
    BY <1>1, InitIInv, NextIInv, PTL DEF Spec

(* Buddy allocation is sound: no two blocks overlap, none is misaligned.   *)
THEOREM BlocksNeverOverlap == Spec => []NoOverlap
<1>1. IInv => NoOverlap
    BY DEF IInv
<1> QED
    BY <1>1, InitIInv, NextIInv, PTL DEF Spec

(* No sequence of splits and merges loses a page.                          *)
THEOREM PagesNeverLost == Spec => []NoPageLost
<1>1. IInv => NoPageLost
    BY DEF IInv
<1> QED
    BY <1>1, InitIInv, NextIInv, PTL DEF Spec

(* The lists have no duplicate and the counters of pmm_stats count them,   *)
(* at every step of a split or a merge.                                    *)
THEOREM FreeListsCounted == Spec => []ListsCounted
<1>1. IInv => ListsCounted
    BY DEF IInv
<1> QED
    BY <1>1, InitIInv, NextIInv, PTL DEF Spec

(* No two buddies are both free, and the bits of held pages stay set.      *)
THEOREM ListsConsistent == Spec => [](NoFreeBuddies /\ HeldMarked)
<1>1. IInv => NoFreeBuddies /\ HeldMarked
    BY DEF IInv
<1> QED
    BY <1>1, InitIInv, NextIInv, PTL DEF Spec

-----------------------------------------------------------------------------
(* pmm_stats counts the pages: those of one free list, of all lists below  *)
(* an order, and with the held ones those of the arena.                    *)

Total(nr) ==
    LET total[i \in 0 .. MAX_ORDER + 1] ==
            IF i = 0 THEN 0 ELSE total[i - 1] + nr[i - 1] * Pow2(i - 1)
    IN  total[MAX_ORDER + 1]

LEMMA TotalDef ==
    ASSUME NEW nr \in [Orders -> Nat]
    PROVE  \E t \in [0 .. MAX_ORDER + 1 -> Int] :
                /\ Total(nr) = t[MAX_ORDER + 1]
                /\ t[0] = 0
                /\ \A i \in Orders : t[i + 1] = t[i] + nr[i] * Pow2(i)
<1> DEFINE k == MAX_ORDER + 1
           step == [p \in (1 .. k) \X Int |-> p[2] + nr[p[1] - 1] * Pow2(p[1] - 1)]
           P(g) == g = [i \in 0 .. k |-> IF i = 0 THEN 0 ELSE g[i - 1] + nr[i - 1] * Pow2(i - 1)]
           total == CHOOSE g : P(g)
<1>1. k \in Nat /\ 0 \in Int /\ MAX_ORDER \in Nat
    BY MaxOrderAssumption
<1>2. Total(nr) = total[k]
    BY DEF Total
<1>3. \A n \in 1 .. k : n - 1 \in Orders /\ n - 1 \in 0 .. 11
    BY MaxOrderAssumption DEF Orders
<1>4. \A n \in 1 .. k : nr[n - 1] * Pow2(n - 1) \in Int
  <2>1. ASSUME NEW n \in 1 .. k PROVE nr[n - 1] * Pow2(n - 1) \in Int
    <3>1. nr[n - 1] \in Nat /\ Pow2(n - 1) \in Nat
        BY <1>3, Pow2Type
    <3> QED
        BY <3>1
  <2> QED
    BY <2>1
<1>5. \A n \in 1 .. k, x \in Int : step[<<n, x>>] = x + nr[n - 1] * Pow2(n - 1)
    OBVIOUS
<1>6. \A n \in 1 .. k, x \in Int : step[<<n, x>>] \in Int
  <2> HIDE DEF step, k
  <2>1. \A x, y \in Int : x + y \in Int
    OBVIOUS
  <2> QED
    BY <1>4, <1>5, <2>1
<1> HIDE DEF step
<1>7. PICK f \in [0 .. k -> Int] :
            f[0] = 0 /\ \A n \in 1 .. k : f[n] = step[<<n, f[n - 1]>>]
  <2> HIDE DEF k
  <2>1. PICK V, v : V = Int /\ v = 0 /\ v \in V
    OBVIOUS
  <2>2. Closed(k, V, step)
    BY <1>6, <2>1 DEF Closed
  <2>3. \E f \in [0 .. k -> V] : Follows(f, k, v, step)
    <3>1. k \in Nat /\ v \in V
        BY <1>1, <2>1
    <3> QED
        BY <2>2, <3>1, UpwardRecursion, ZenonT(60)
  <2> QED
    BY <2>1, <2>3 DEF Follows
<1>8. ASSUME NEW n \in 0 .. k
      PROVE  f[n] = IF n = 0 THEN 0 ELSE f[n - 1] + nr[n - 1] * Pow2(n - 1)
  <2>1. CASE n = 0
    BY <1>7, <2>1
  <2>2. CASE n # 0
    <3>1. n \in 1 .. k /\ n - 1 \in 0 .. k
        BY <1>1, <2>2
    <3>2. f[n - 1] \in Int
        BY <1>7, <3>1
    <3> HIDE DEF k
    <3> QED
        BY <1>5, <1>7, <2>2, <3>1, <3>2
  <2> QED
    BY <2>1, <2>2
<1>9. P(f)
  <2>1. f = [n \in 0 .. k |-> f[n]]
    BY <1>7
  <2> QED
    BY <1>8, <2>1
<1>10. P(total)
  <2> HIDE DEF P
  <2> QED
    BY <1>9
<1> HIDE DEF total
<1>11. total[0] = 0
    BY <1>1, <1>10
<1>12. ASSUME NEW i \in Orders PROVE total[i + 1] = total[i] + nr[i] * Pow2(i)
  <2>1. i + 1 \in 0 .. k /\ i + 1 # 0 /\ (i + 1) - 1 = i
    BY <1>1 DEF Orders
  <2> QED
    BY <1>10, <2>1
<1>13. \A n \in 0 .. k : total[n] \in Int
  <2> DEFINE S == {n \in 0 .. k : total[n] \in Int}
  <2>1. 0 \in S
    BY <1>1, <1>11
  <2>2. ASSUME NEW n \in 0 .. k - 1, n \in S PROVE n + 1 \in S
    <3>1. n + 1 \in 0 .. k /\ n + 1 \in 1 .. k /\ n \in Orders /\ (n + 1) - 1 = n
        BY <1>1 DEF Orders
    <3>2. nr[n] * Pow2(n) \in Int
        BY <1>4, <3>1
    <3>3. total[n] \in Int
        BY <2>2
    <3>4. total[n + 1] = total[n] + nr[n] * Pow2(n)
        BY <1>12, <3>1
    <3> QED
        BY <3>1, <3>2, <3>3, <3>4
  <2> HIDE DEF S
  <2>3. \A n \in 0 .. k : n \in S
    <3> HIDE DEF k
    <3> QED
        BY <1>1, <2>1, <2>2, Upward
  <2> QED
    BY <2>3 DEF S
<1>14. total \in [0 .. k -> Int]
  <2>1. total = [n \in 0 .. k |-> total[n]]
    BY <1>10
  <2> QED
    BY <1>13, <2>1
<1> QED
    BY <1>2, <1>11, <1>12, <1>14

(* The pages of the free blocks below order n.                             *)
FreePages(n) ==
    {p \in Arena : \E b \in FreeBlocks :
        b[2] < n /\ p \in b[1] .. b[1] + Pow2(b[2]) - 1}

(* The pages of the list of order o.                                       *)
ListPages(o) ==
    {p \in Int : \E i \in 1 .. Len(free_list[o]) :
        free_list[o][i] <= p /\ p < free_list[o][i] + Pow2(o)}

LEMMA ListPagesCount ==
    ASSUME IInv, NEW o \in Orders
    PROVE  IsFiniteSet(ListPages(o)) /\ Cardinality(ListPages(o)) = nr_free[o] * Pow2(o)
<1>1. PICK s : s = free_list[o]
    OBVIOUS
<1>2. /\ s \in Seq(Arena) /\ IsInjective(s) /\ nr_free[o] = Len(s) /\ Len(s) \in Nat
      /\ Pow2(o) \in Nat
  <2>1. free_list \in [Orders -> Seq(Arena)]
    BY DEF IInv, TypeOK
  <2>2. nr_free[o] = Len(free_list[o]) /\ IsInjective(free_list[o])
    BY DEF IInv, ListsCounted
  <2>3. o \in 0 .. 11
    BY MaxOrderAssumption DEF Orders
  <2>4. s \in Seq(Arena)
    BY <1>1, <2>1
  <2>5. Len(s) \in Nat
    BY <2>4
  <2>6. Pow2(o) \in Nat
    BY <2>3, Pow2Type
  <2> QED
    BY <1>1, <2>2, <2>4, <2>5, <2>6
<1>3. PICK k \in Nat, w \in Nat : k = Len(s) /\ w = Pow2(o)
    BY <1>2
<1>4. ASSUME NEW i \in 1 .. k PROVE s[i] \in Arena /\ s[i] \in Int /\ <<s[i], o>> \in FreeBlocks
  <2>1. s[i] \in Arena
    BY <1>2, <1>3
  <2>2. s[i] \in Range(s)
    BY <1>2, <1>3 DEF Range
  <2>3. <<s[i], o>> \in Block
    BY <2>1 DEF Block
  <2>4. <<s[i], o>>[1] = s[i] /\ <<s[i], o>>[2] = o
    OBVIOUS
  <2>5. <<s[i], o>> \in FreeBlocks
    BY <1>1, <2>2, <2>3, <2>4 DEF FreeBlocks
  <2>6. \A x \in Arena : x \in Int
    BY ArenaFacts
  <2> QED
    BY <2>1, <2>5, <2>6, Zenon
<1>5. ASSUME NEW i \in 1 .. k, NEW j \in 1 .. k, i # j
      PROVE  s[i] + w <= s[j] \/ s[j] + w <= s[i]
  <2>1. s[i] # s[j]
    BY <1>2, <1>3, <1>5 DEF IsInjective
  <2>2. <<s[i], o>> \in Blocks /\ <<s[j], o>> \in Blocks /\ <<s[i], o>> # <<s[j], o>>
    BY <1>4, <2>1 DEF Blocks
  <2>3. Disjoint(<<s[i], o>>, <<s[j], o>>)
    BY <2>2 DEF IInv, NoOverlap
  <2> QED
    BY <1>3, <2>3 DEF Disjoint
<1> DEFINE U == {x \in Int : \E i \in 1 .. k : s[i] <= x /\ x < s[i] + w}
<1>6. IsFiniteSet(U) /\ Cardinality(U) = k * w
    BY <1>4, <1>5, DisjointIntervals
<1>7. ListPages(o) = U
    BY <1>1, <1>3 DEF ListPages
<1> HIDE DEF U
<1> QED
    BY <1>2, <1>3, <1>6, <1>7

LEMMA FreePagesStep ==
    ASSUME IInv, NEW o \in Orders
    PROVE  /\ FreePages(o + 1) = FreePages(o) \cup ListPages(o)
           /\ FreePages(o) \cap ListPages(o) = {}
<1>1. /\ o \in Int /\ o \in 0 .. 11 /\ Pow2(o) \in Nat /\ free_list[o] \in Seq(Arena)
      /\ Len(free_list[o]) \in Nat
      /\ Arena \subseteq Nat /\ arena_end \in Nat /\ first_block \in Nat
  <2>1. free_list \in [Orders -> Seq(Arena)]
    BY DEF IInv, TypeOK
  <2>2. o \in 0 .. 11 /\ o \in Int
    BY MaxOrderAssumption DEF Orders
  <2>3. free_list[o] \in Seq(Arena)
    BY <2>1
  <2>4. Len(free_list[o]) \in Nat
    BY <2>3
  <2>5. Pow2(o) \in Nat
    BY <2>2, Pow2Type
  <2>6. Arena \subseteq Nat /\ arena_end \in Nat /\ first_block \in Nat
    BY ArenaFacts, FirstBlock
  <2> QED
    BY <2>2, <2>3, <2>4, <2>5, <2>6
<1>2. ASSUME NEW b \in FreeBlocks
      PROVE  /\ b \in Block /\ b \in Blocks /\ b[1] \in Nat /\ first_block <= b[1] /\ b[2] \in Int
             /\ Pow2(b[2]) \in Nat /\ b = <<b[1], b[2]>>
             /\ b[1] + Pow2(b[2]) <= arena_end
  <2>1. b \in Block /\ b \in Blocks
    BY DEF FreeBlocks, Blocks
  <2>2. b[2] \in 0 .. 11
    BY <2>1, BlockFacts
  <2> QED
    BY <2>1, <2>2, BlockFacts DEF IInv, NoOverlap
<1>3. ASSUME NEW p PROVE
        p \in ListPages(o) <=> \E b \in FreeBlocks : b[2] = o /\ p \in b[1] .. b[1] + Pow2(o) - 1
  <2>1. ASSUME p \in ListPages(o)
        PROVE  \E b \in FreeBlocks : b[2] = o /\ p \in b[1] .. b[1] + Pow2(o) - 1
    <3>1. PICK i \in 1 .. Len(free_list[o]) :
                p \in Int /\ free_list[o][i] <= p /\ p < free_list[o][i] + Pow2(o)
        BY <2>1 DEF ListPages
    <3>2. PICK a : a = free_list[o][i]
        OBVIOUS
    <3>3. a \in Arena /\ a \in Range(free_list[o]) /\ a \in Nat
      <4>1. DOMAIN free_list[o] = 1 .. Len(free_list[o]) /\ a \in Arena
        BY <1>1, <3>1, <3>2
      <4>2. a \in Range(free_list[o])
        BY <3>1, <3>2, <4>1 DEF Range
      <4> QED
        BY <1>1, <4>1, <4>2
    <3>4. <<a, o>> \in Block
        BY <3>3 DEF Block
    <3>5. <<a, o>> \in FreeBlocks
        BY <3>3, <3>4 DEF FreeBlocks
    <3>6. p \in a .. a + Pow2(o) - 1
        BY <1>1, <3>1, <3>2, <3>3
    <3> QED
        BY <3>5, <3>6
  <2>2. ASSUME NEW b \in FreeBlocks, b[2] = o, p \in b[1] .. b[1] + Pow2(o) - 1
        PROVE  p \in ListPages(o)
    <3>1. b[1] \in Range(free_list[o])
        BY <2>2 DEF FreeBlocks
    <3>2. PICK i \in 1 .. Len(free_list[o]) : free_list[o][i] = b[1]
        BY <1>1, <3>1 DEF Range
    <3> QED
        BY <1>1, <1>2, <2>2, <3>2 DEF ListPages
  <2> QED
    BY <2>1, <2>2
<1>4. ASSUME NEW p \in ListPages(o) PROVE p \in FreePages(o + 1)
  <2>1. PICK b \in FreeBlocks : b[2] = o /\ p \in b[1] .. b[1] + Pow2(o) - 1
    BY <1>3
  <2>2. p \in Arena /\ b[2] < o + 1
    BY <1>1, <1>2, <2>1 DEF Arena
  <2> QED
    BY <2>1, <2>2 DEF FreePages
<1>5. ASSUME NEW p \in FreePages(o) PROVE p \in FreePages(o + 1) /\ p \notin ListPages(o)
  <2>1. PICK b \in FreeBlocks : p \in Arena /\ b[2] < o /\ p \in b[1] .. b[1] + Pow2(b[2]) - 1
    BY DEF FreePages
  <2>2. b[2] < o + 1
    BY <1>1, <1>2, <2>1
  <2>3. ASSUME NEW c \in FreeBlocks, c[2] = o, p \in c[1] .. c[1] + Pow2(o) - 1 PROVE FALSE
    <3>1. b # c
        BY <1>1, <1>2, <2>1, <2>3
    <3>2. Disjoint(b, c)
        BY <1>2, <3>1 DEF IInv, NoOverlap
    <3> QED
        BY <1>1, <1>2, <2>1, <2>3, <3>2 DEF Disjoint
  <2> QED
    BY <1>3, <2>1, <2>2, <2>3 DEF FreePages
<1>6. ASSUME NEW p \in FreePages(o + 1) PROVE p \in FreePages(o) \cup ListPages(o)
  <2>1. PICK b \in FreeBlocks : p \in Arena /\ b[2] < o + 1 /\ p \in b[1] .. b[1] + Pow2(b[2]) - 1
    BY DEF FreePages
  <2>2. b[2] < o \/ b[2] = o
    BY <1>1, <1>2, <2>1
  <2> QED
    BY <1>3, <2>1, <2>2 DEF FreePages
<1> QED
    BY <1>4, <1>5, <1>6

LEMMA FreePagesCount ==
    ASSUME IInv
    PROVE  IsFiniteSet(FreePages(MAX_ORDER + 1))
           /\ Cardinality(FreePages(MAX_ORDER + 1)) = total_free_pages
<1>1. nr_free \in [Orders -> Nat] /\ total_free_pages = Total(nr_free)
    BY DEF IInv, TypeOK, total_free_pages, Total
<1>2. PICK t \in [0 .. MAX_ORDER + 1 -> Int] :
            /\ Total(nr_free) = t[MAX_ORDER + 1]
            /\ t[0] = 0
            /\ \A i \in Orders : t[i + 1] = t[i] + nr_free[i] * Pow2(i)
    BY <1>1, TotalDef
<1>3. PICK k \in Nat : k = MAX_ORDER + 1
    BY MaxOrderAssumption
<1> DEFINE S == {n \in 0 .. k : IsFiniteSet(FreePages(n)) /\ Cardinality(FreePages(n)) = t[n]}
<1>4. 0 \in S
  <2>1. ASSUME NEW b \in FreeBlocks PROVE ~(b[2] < 0)
    <3>1. b \in Block
        BY DEF FreeBlocks
    <3>2. b[2] \in 0 .. 11
        BY <3>1, BlockFacts
    <3> QED
        BY <3>2
  <2>2. FreePages(0) = {}
    BY <2>1 DEF FreePages
  <2>3. IsFiniteSet(FreePages(0)) /\ Cardinality(FreePages(0)) = t[0]
    BY <1>2, <2>2, FS_EmptySet
  <2> QED
    BY <2>3
<1>5. ASSUME NEW n \in 0 .. k - 1, n \in S PROVE n + 1 \in S
  <2>1. n \in Orders /\ n + 1 \in 0 .. k
    BY <1>3, MaxOrderAssumption DEF Orders
  <2>2. IsFiniteSet(FreePages(n)) /\ Cardinality(FreePages(n)) = t[n]
    BY <1>5
  <2>3. IsFiniteSet(ListPages(n)) /\ Cardinality(ListPages(n)) = nr_free[n] * Pow2(n)
    BY <2>1, ListPagesCount
  <2>4. /\ FreePages(n + 1) = FreePages(n) \cup ListPages(n)
        /\ FreePages(n) \cap ListPages(n) = {}
    BY <2>1, FreePagesStep
  <2>5. /\ IsFiniteSet(FreePages(n + 1))
        /\ Cardinality(FreePages(n + 1)) = t[n] + nr_free[n] * Pow2(n)
    BY <2>2, <2>3, <2>4, DisjointUnion
  <2> QED
    BY <1>2, <2>1, <2>5
<1> HIDE DEF S
<1>6. \A n \in 0 .. k : n \in S
    BY <1>4, <1>5, Upward
<1>7. k \in S
    BY <1>6
<1> QED
    BY <1>1, <1>2, <1>3, <1>7 DEF S

(* The free pages and the held ones are the arena, and none is both.       *)
LEMMA ArenaCount ==
    ASSUME IInv, pc = "idle"
    PROVE  Cardinality(Arena) = Cardinality(HeldPages) + total_free_pages
<1> DEFINE F == FreePages(MAX_ORDER + 1)
           H == HeldPages
<1>1. /\ first_block \in Int /\ arena_end \in Int /\ MAX_ORDER \in Int
    BY FirstBlock, ArenaFacts, MaxOrderAssumption
<1>2. IsFiniteSet(Arena)
  <2>1. PICK z \in Int : z = arena_end - 1
    BY <1>1
  <2>2. IsFiniteSet(first_block .. z)
    BY <1>1, FS_Interval
  <2> QED
    BY <2>1, <2>2 DEF Arena
<1>3. H \in SUBSET Arena
    BY DEF HeldPages
<1>4. IsFiniteSet(H) /\ Cardinality(H) \in Nat
    BY <1>2, <1>3, FS_Subset, FS_CardinalityType
<1>5. IsFiniteSet(F) /\ Cardinality(F) = total_free_pages
    BY FreePagesCount
<1>6. ASSUME NEW b \in Blocks
      PROVE  /\ b[1] \in Nat /\ Pow2(b[2]) \in Nat /\ b[2] < MAX_ORDER + 1
             /\ b \in FreeBlocks \cup held
  <2>1. b \in Block
    BY BlocksType DEF IInv
  <2>2. b[2] \in Orders /\ b[1] \in Nat /\ Pow2(b[2]) \in Nat
    BY <2>1, BlockFacts
  <2>3. b \in FreeBlocks \cup held
    BY DEF Blocks, InFlight
  <2> QED
    BY <1>1, <2>2, <2>3 DEF Orders
<1>7. Arena = H \cup F
  <2>1. ASSUME NEW p \in Arena PROVE p \in H \cup F
    <3>1. PICK b \in Blocks : p \in b[1] .. b[1] + Pow2(b[2]) - 1
        BY DEF IInv, NoPageLost
    <3> QED
        BY <1>6, <3>1 DEF HeldPages, FreePages
  <2> QED
    BY <2>1 DEF HeldPages, FreePages
<1>8. H \cap F = {}
  <2> SUFFICES ASSUME NEW p \in H, p \in F PROVE FALSE
    OBVIOUS
  <2>1. PICK b \in held : p \in Arena /\ p \in b[1] .. b[1] + Pow2(b[2]) - 1
    BY DEF HeldPages
  <2>2. PICK c \in FreeBlocks : p \in c[1] .. c[1] + Pow2(c[2]) - 1
    BY DEF FreePages
  <2>3. b \in Blocks /\ c \in Blocks /\ b # c
    BY DEF Blocks, IInv, NoOverlap
  <2>4. Disjoint(b, c)
    BY <2>3 DEF IInv, NoOverlap
  <2>5. p \in Int
    BY <2>1, ArenaFacts
  <2> QED
    BY <1>6, <2>1, <2>2, <2>3, <2>4, <2>5 DEF Disjoint
<1> HIDE DEF H, F
<1>9. Cardinality(Arena) = Cardinality(H) + Cardinality(F)
    BY <1>4, <1>5, <1>7, <1>8, DisjointUnion
<1> QED
    BY <1>5, <1>9 DEF H

(* What pmm_stats prints is right whenever no call is under way: the pages *)
(* it calls used are those the callers hold and those outside the arena.   *)
THEOREM StatsCountPages == Spec => []StatsExact
<1>1. IInv => StatsExact
  <2> SUFFICES ASSUME IInv, pc = "idle"
               PROVE  used_pages = Cardinality(HeldPages) + (total_pages - Cardinality(Arena))
    BY DEF StatsExact
  <2>1. Cardinality(Arena) = Cardinality(HeldPages) + total_free_pages
    BY ArenaCount
  <2>2. Cardinality(Arena) \in Int /\ Cardinality(HeldPages) \in Int /\ total_free_pages \in Int
    <3>1. PICK z \in Int : z = arena_end - 1
        BY ArenaFacts
    <3>2. first_block \in Int
        BY FirstBlock
    <3>3. IsFiniteSet(Arena)
        BY <3>1, <3>2, FS_Interval DEF Arena
    <3>4. HeldPages \in SUBSET Arena
        BY DEF HeldPages
    <3>5. IsFiniteSet(HeldPages)
        BY <3>3, <3>4, FS_Subset
    <3>6. Cardinality(Arena) \in Nat /\ Cardinality(HeldPages) \in Nat
        BY <3>3, <3>5, FS_CardinalityType
    <3>7. total_free_pages \in Nat
        BY FreePagesCount, FS_CardinalityType
    <3> QED
        BY <3>6, <3>7
  <2>3. total_pages \in Int
    BY IntervalAssumption DEF total_pages
  <2> QED
    BY <2>1, <2>2, <2>3 DEF used_pages
<1> QED
    BY <1>1, InitIInv, NextIInv, PTL DEF Spec

-----------------------------------------------------------------------------
(* An allocation fails only for want of an aligned run of unheld pages.    *)

(* Every aligned block of order k within the run <<p, o>> lies in one free *)
(* block.  Shown for k = 0 from NoPageLost, then order by order: two free  *)
(* halves would be buddies.                                                *)
FreeRun(k, p, o) ==
    \A x \in Arena :
        Aligned(x, k) /\ p <= x /\ x + Pow2(k) <= p + Pow2(o) =>
            \E b \in FreeBlocks :
                b[2] >= k /\ b[1] <= x /\ x + Pow2(k) <= b[1] + Pow2(b[2])

LEMMA FreeRunBase ==
    ASSUME IInv, pc = "idle", NEW p \in Arena, NEW o \in Orders,
           \A b \in held : Disjoint(<<p, o>>, b)
    PROVE  FreeRun(0, p, o)
<1> SUFFICES ASSUME NEW x \in Arena, p <= x, x + Pow2(0) <= p + Pow2(o)
             PROVE  \E b \in FreeBlocks :
                        b[2] >= 0 /\ b[1] <= x /\ x + Pow2(0) <= b[1] + Pow2(b[2])
    BY DEF FreeRun
<1>1. x \in Nat /\ p \in Nat /\ Pow2(0) = 1 /\ Pow2(o) \in Nat
    BY ArenaFacts, Pow2Values, Pow2Type, MaxOrderAssumption DEF Orders
<1>2. PICK b \in Blocks : x \in b[1] .. b[1] + Pow2(b[2]) - 1
    BY DEF IInv, NoPageLost
<1>3. b \in Block /\ b[1] \in Nat /\ b[2] \in 0 .. 11 /\ Pow2(b[2]) \in Nat
    BY BlocksType, BlockFacts DEF IInv
<1>4. b \notin held
    BY <1>1, <1>2, <1>3 DEF Disjoint
<1>5. b \in FreeBlocks
    BY <1>2, <1>4 DEF Blocks, InFlight
<1> QED
    BY <1>1, <1>2, <1>3, <1>5

LEMMA FreeRunStep ==
    ASSUME IInv, NEW p \in Arena, NEW o \in Orders, p + Pow2(o) <= arena_end,
           NEW k \in 0 .. 10, k + 1 <= o, FreeRun(k, p, o)
    PROVE  FreeRun(k + 1, p, o)
<1> SUFFICES ASSUME NEW x \in Arena, Aligned(x, k + 1), p <= x,
                    x + Pow2(k + 1) <= p + Pow2(o)
             PROVE  \E b \in FreeBlocks :
                        /\ b[2] >= k + 1
                        /\ b[1] <= x /\ x + Pow2(k + 1) <= b[1] + Pow2(b[2])
    BY DEF FreeRun
<1> DEFINE y == x + Pow2(k)
<1>1. /\ x \in Nat /\ p \in Nat /\ first_block \in Nat /\ arena_end \in Nat
      /\ Pow2(k) \in Nat /\ Pow2(k) >= 1 /\ Pow2(k + 1) = Pow2(k) + Pow2(k)
      /\ Pow2(o) \in Nat /\ k < MAX_ORDER
    BY ArenaFacts, FirstBlock, Pow2Type, Pow2Double, MaxOrderAssumption DEF Orders
<1>2. Aligned(x, k) /\ Aligned(y, k) /\ Xor(x, k) = y
    BY <1>1, SplitBuddy
<1>3. y \in Arena /\ p <= y /\ y + Pow2(k) <= p + Pow2(o) /\ x + Pow2(k) <= p + Pow2(o)
    BY <1>1 DEF Arena
<1>4. PICK b \in FreeBlocks : b[2] >= k /\ b[1] <= x /\ x + Pow2(k) <= b[1] + Pow2(b[2])
    BY <1>2, <1>3 DEF FreeRun
<1>5. PICK c \in FreeBlocks : c[2] >= k /\ c[1] <= y /\ y + Pow2(k) <= c[1] + Pow2(c[2])
    BY <1>2, <1>3 DEF FreeRun
<1>6. \A d \in FreeBlocks :
          /\ d = <<d[1], d[2]>> /\ d[1] \in Nat /\ d[2] \in 0 .. 11 /\ Pow2(d[2]) \in Nat
          /\ Aligned(d[1], d[2])
    BY BlocksType, BlockFacts DEF IInv, NoOverlap, Blocks
<1> HIDE DEF y
<1>7. CASE b[2] >= k + 1
  <2>1. k + 1 \in 0 .. b[2] /\ x < b[1] + Pow2(b[2])
    BY <1>1, <1>4, <1>6, <1>7
  <2>2. x + Pow2(k + 1) <= b[1] + Pow2(b[2])
    BY <1>1, <1>4, <1>6, <2>1, BlockContains
  <2> QED BY <1>4, <1>7, <2>2
<1>8. CASE c[2] >= k + 1
  <2>1. k + 1 \in 0 .. c[2] /\ y < c[1] + Pow2(c[2]) /\ y = x + Pow2(k)
    BY <1>1, <1>5, <1>6, <1>8 DEF y
  <2>2. Aligned(c[1], k + 1)
    BY <1>6, <2>1, AlignedDown
  <2>3. c[1] <= x
    <3>1. CASE x < c[1]
      <4>1. x + Pow2(k + 1) <= c[1]
        BY <1>1, <1>6, <2>2, <3>1, AlignedGap
      <4> QED BY <1>1, <1>5, <1>6, <2>1, <4>1
    <3> QED BY <1>1, <1>6, <3>1
  <2>4. x < c[1] + Pow2(c[2])
    BY <1>1, <1>6, <2>1
  <2>5. x + Pow2(k + 1) <= c[1] + Pow2(c[2])
    BY <1>1, <1>6, <2>1, <2>3, <2>4, BlockContains
  <2> QED BY <1>8, <2>3, <2>5
<1>9. CASE b[2] = k /\ c[2] = k
  <2>1. b[1] = x /\ c[1] = y
    BY <1>1, <1>4, <1>5, <1>6, <1>9 DEF y
  <2>2. b = <<x, k>> /\ c = <<y, k>>
    BY <1>6, <1>9, <2>1
  <2> QED BY <1>1, <1>2, <1>4, <1>5, <1>9, <2>1, <2>2 DEF IInv, NoFreeBuddies
<1> QED
    BY <1>4, <1>5, <1>6, <1>7, <1>8, <1>9

LEMMA FreeRunAll ==
    ASSUME IInv, pc = "idle", NEW p \in Arena, NEW o \in Orders, p + Pow2(o) <= arena_end,
           \A b \in held : Disjoint(<<p, o>>, b)
    PROVE  FreeRun(o, p, o)
<1>0. o \in 0 .. 11
    BY MaxOrderAssumption DEF Orders
<1>1. 0 <= o => FreeRun(0, p, o)
    BY FreeRunBase
<1>2. 1 <= o => FreeRun(1, p, o)
    BY <1>0, <1>1, FreeRunStep
<1>3. 2 <= o => FreeRun(2, p, o)
    BY <1>0, <1>2, FreeRunStep
<1>4. 3 <= o => FreeRun(3, p, o)
    BY <1>0, <1>3, FreeRunStep
<1>5. 4 <= o => FreeRun(4, p, o)
    BY <1>0, <1>4, FreeRunStep
<1>6. 5 <= o => FreeRun(5, p, o)
    BY <1>0, <1>5, FreeRunStep
<1>7. 6 <= o => FreeRun(6, p, o)
    BY <1>0, <1>6, FreeRunStep
<1>8. 7 <= o => FreeRun(7, p, o)
    BY <1>0, <1>7, FreeRunStep
<1>9. 8 <= o => FreeRun(8, p, o)
    BY <1>0, <1>8, FreeRunStep
<1>10. 9 <= o => FreeRun(9, p, o)
    BY <1>0, <1>9, FreeRunStep
<1>11. 10 <= o => FreeRun(10, p, o)
    BY <1>0, <1>10, FreeRunStep
<1>12. 11 <= o => FreeRun(11, p, o)
    BY <1>0, <1>11, FreeRunStep
<1> QED
    BY <1>0, TwelveOrders, <1>1, <1>2, <1>3, <1>4, <1>5, <1>6, <1>7, <1>8, <1>9, <1>10, <1>11, <1>12

(* The operators that PageAllocator shares with this module.               *)
LEMMA InstanceOps ==
    /\ \A o : PA!Pow2(o) = Pow2(o)
    /\ \A p, o : PA!Aligned(p, o) <=> Aligned(p, o)
    /\ \A b, c : PA!Disjoint(b, c) <=> Disjoint(b, c)
BY DEF PA!Pow2, PA!Aligned, PA!Disjoint, Pow2, Aligned, Disjoint

LEMMA OutOfMemoryJustified ==
    ASSUME IInv, pc = "idle", NEW o \in Orders,
           \A k \in o .. MAX_ORDER : free_list[k] = << >>
    PROVE  ~PA!Available(o)
<1> SUFFICES ASSUME NEW p \in first_block .. arena_end - 1, PA!Fits(<<p, o>>) PROVE FALSE
    BY DEF PA!Available
<1>1. /\ p \in Arena /\ p + Pow2(o) <= arena_end /\ Aligned(p, o)
      /\ \A b \in held : Disjoint(<<p, o>>, b)
    BY InstanceOps DEF PA!Fits, Arena
<1>2. FreeRun(o, p, o)
    BY <1>1, FreeRunAll
<1>3. p \in Nat /\ Pow2(o) \in Nat
  <2>1. o \in 0 .. 11
    BY MaxOrderAssumption DEF Orders
  <2> QED BY <1>1, <2>1, ArenaFacts, Pow2Type
<1>4. PICK b \in FreeBlocks : b[2] >= o
    BY <1>1, <1>2, <1>3 DEF FreeRun
<1>5. b[2] \in o .. MAX_ORDER /\ b[1] \in Range(free_list[b[2]])
    BY <1>4, BlockFacts, MaxOrderAssumption DEF FreeBlocks, Orders
<1> QED
    BY <1>5 DEF Range

(* NoSpuriousOOM needs one more fact: while a free is merging, the answer  *)
(* of the last allocation is gone.                                         *)
OInv ==
    /\ IInv
    /\ NoSpuriousOOM
    /\ pc = "merge" => answer = NoAnswer

LEMMA NextOInv == OInv /\ [Next]_vars => OInv'
<1> SUFFICES ASSUME OInv, [Next]_vars PROVE OInv'
    OBVIOUS
<1>0. IInv /\ IInv' /\ NoSpuriousOOM /\ (pc = "merge" => answer = NoAnswer)
    BY NextIInv DEF OInv
<1> USE DEF NoSpuriousOOM, NoAnswer
<1>1. ASSUME NEW o \in 0 .. MAX_ORDER + 1, AllocInvalid(o) PROVE OInv'
    BY <1>0, <1>1, MaxOrderAssumption DEF AllocInvalid, locals, Orders, OInv
<1>2. ASSUME NEW o \in 0 .. MAX_ORDER + 1, AllocOutOfMemory(o) PROVE OInv'
  <2>1. o \in Orders /\ pc = "idle" /\ pc' = "idle" /\ answer' = <<o, 0>> /\ held' = held
    BY <1>2 DEF AllocOutOfMemory, locals
  <2>2. ~PA!Available(o)
    BY <1>0, <1>2, <2>1, OutOfMemoryJustified DEF AllocOutOfMemory, search
  <2>3. ~PA!Available(answer[1])'
    BY <2>1, <2>2 DEF PA!Available, PA!Fits
  <2> QED BY <1>0, <2>1, <2>3 DEF OInv
<1>3. ASSUME NEW o \in 0 .. MAX_ORDER + 1, AllocTake(o) PROVE OInv'
    BY <1>0, <1>3 DEF AllocTake, OInv
<1>4. ASSUME NEW o \in 0 .. MAX_ORDER + 1, NEW page_addr, FreeInvalid(page_addr, o) PROVE OInv'
    BY <1>0, <1>4 DEF FreeInvalid, OInv
<1>5. ASSUME NEW b \in held, FreeBegin(b[1], b[2]) PROVE OInv'
    BY <1>0, <1>5 DEF FreeBegin, OInv
<1>6. CASE SplitStep
    BY <1>0, <1>6 DEF SplitStep, OInv
<1>7. CASE AllocReturn
  <2>1. current_addr \in Arena
    BY <1>0, <1>7 DEF IInv, TypeOK, AllocReturn
  <2>2. current_addr # 0
    BY <2>1, ArenaFacts
  <2> QED BY <1>0, <1>7, <2>2 DEF AllocReturn, Return, OInv
<1>8. CASE MergeStep
    BY <1>0, <1>8 DEF MergeStep, OInv
<1>9. CASE FreeReturn
    BY <1>0, <1>9 DEF FreeReturn, Return, OInv
<1>10. CASE UNCHANGED vars
  <2>1. UNCHANGED <<pc, held, answer>>
    BY <1>10 DEF vars
  <2>2. PA!Available(answer[1])' <=> PA!Available(answer[1])
    BY <2>1 DEF PA!Available, PA!Fits
  <2> QED BY <1>0, <2>1, <2>2 DEF OInv
<1> QED
    BY <1>1, <1>2, <1>3, <1>4, <1>5, <1>6, <1>7, <1>8, <1>9, <1>10 DEF Next, Call, Step

(* "Out of memory" is never the free lists' own doing.                     *)
THEOREM OutOfMemoryIsReal == Spec => []NoSpuriousOOM
<1>1. Init => OInv
    BY InitIInv DEF Init, OInv, NoSpuriousOOM, NoAnswer
<1>2. OInv => NoSpuriousOOM
    BY DEF OInv
<1> QED
    BY <1>1, <1>2, NextOInv, PTL DEF Spec

-----------------------------------------------------------------------------
(* The buddy system implements the abstract allocator.                     *)

LEMMA StepRefines ==
    ASSUME IInv, [Next]_vars
    PROVE  [PA!Next]_<<held, answer>>
<1>1. ASSUME NEW o \in 0 .. MAX_ORDER + 1, AllocInvalid(o) PROVE PA!Next
  <2>1. PA!Refuse(o)
    BY <1>1, MaxOrderAssumption DEF AllocInvalid, PA!Refuse
  <2> QED BY <2>1 DEF PA!Next
<1>2. ASSUME NEW o \in 0 .. MAX_ORDER + 1, AllocOutOfMemory(o) PROVE PA!Next
  <2>1. ~PA!Available(o)
    BY <1>2, OutOfMemoryJustified DEF AllocOutOfMemory, search
  <2>2. PA!Refuse(o)
    BY <1>2, <2>1 DEF AllocOutOfMemory, PA!Refuse
  <2> QED BY <2>2 DEF PA!Next
<1>3. ASSUME NEW o \in 0 .. MAX_ORDER + 1, AllocTake(o) PROVE UNCHANGED <<held, answer>>
    BY <1>3 DEF AllocTake
<1>4. ASSUME NEW o \in 0 .. MAX_ORDER + 1, NEW page_addr, FreeInvalid(page_addr, o) PROVE PA!Next
    BY <1>4 DEF FreeInvalid, PA!Next, PA!Ignore, PA!NoAnswer, NoAnswer
<1>5. ASSUME NEW b \in held, FreeBegin(b[1], b[2]) PROVE PA!Next
  <2>1. b = <<b[1], b[2]>>
    BY BlocksType, BlockFacts DEF IInv
  <2>2. PA!Free(b)
    BY <1>5, <2>1 DEF FreeBegin, PA!Free, PA!NoAnswer, NoAnswer
  <2> QED BY <2>2 DEF PA!Next
<1>6. CASE SplitStep \/ MergeStep \/ FreeReturn \/ UNCHANGED vars
    BY <1>6 DEF SplitStep, MergeStep, FreeReturn, vars
<1>7. CASE AllocReturn
  <2> DEFINE b == <<current_addr, order>>
  <2>1. /\ current_order = order /\ order \in 0 .. MAX_ORDER
        /\ current_addr \in first_block .. arena_end - 1
        /\ b \in InFlight
    BY <1>7, MaxOrderAssumption DEF IInv, TypeOK, AllocReturn, Orders, Arena, InFlight
  <2>2. /\ Aligned(b[1], b[2]) /\ b[1] + Pow2(b[2]) <= arena_end
        /\ \A c \in held : Disjoint(b, c)
    BY <2>1 DEF IInv, NoOverlap, Blocks
  <2>3. first_block <= current_addr
    BY <2>1, FirstBlock, ArenaFacts
  <2>4. PA!Fits(b)
    BY <2>2, <2>3, InstanceOps DEF PA!Fits
  <2>5. PA!Grant(current_addr, order)
    BY <1>7, <2>4 DEF AllocReturn, PA!Grant
  <2> QED BY <2>1, <2>5 DEF PA!Next
<1> QED
    BY <1>1, <1>2, <1>3, <1>4, <1>5, <1>6, <1>7 DEF Next, Call, Step

(* Seen from the callers, splits and merges are invisible: an allocation   *)
(* takes one block that nobody holds, or fails because there is none.      *)
THEOREM PmmImplementsPageAllocator == Spec => ImplementsPageAllocator
<1>1. Init => PA!Init
    BY DEF Init, PA!Init, NoAnswer, PA!NoAnswer
<1>2. IInv /\ [Next]_vars => [PA!Next]_<<held, answer>>
    BY StepRefines
<1> QED
    BY <1>1, <1>2, InitIInv, NextIInv, PTL DEF Spec, ImplementsPageAllocator, PA!Spec

=============================================================================
