--------------------------- MODULE Kmalloc_proofs ---------------------------
(***************************************************************************)
(* Proofs about the kernel heap, for every place and size of the heap and  *)
(* every sequence of sizes that callers may ask for.                       *)
(***************************************************************************)
EXTENDS Kmalloc, NumberRecursion

-----------------------------------------------------------------------------
(* Sizes and alignment.                                                    *)

LEMMA Aligned ==
    ASSUME NEW a \in Int, NEW n \in Int, a % 8 = 0, n % 8 = 0
    PROVE  (a + n) % 8 = 0 /\ (a - n) % 8 = 0
    OBVIOUS

(* kmalloc rounds up, and leaves room for the header.                      *)
LEMMA ActualSize ==
    ASSUME NEW size \in Nat, size # 0
    PROVE  /\ actual_size(size) \in Nat /\ actual_size(size) % 8 = 0
           /\ actual_size(size) >= size + Header
    BY DEF actual_size, Header

-----------------------------------------------------------------------------
(* The list, as a predicate of the blocks b and the head hd.               *)

Block == [size : Int, is_free : BOOLEAN, next : Int, prev : Int, want : Int]

LEMMA WithPrev ==
    ASSUME NEW r \in Block, NEW k \in Int
    PROVE  LET x == [r EXCEPT !.prev = k] IN
           /\ x \in Block /\ x.prev = k
           /\ x.size = r.size /\ x.next = r.next /\ x.is_free = r.is_free /\ x.want = r.want
    BY DEF Block

IsList(b) ==
    /\ b \in [DOMAIN b -> Block]
    /\ DOMAIN b \subseteq Int

Inside(b) ==
    \A h \in DOMAIN b :
        /\ h >= HeapStart /\ h % 8 = 0
        /\ b[h].size >= Header /\ b[h].size % 8 = 0
        /\ h + b[h].size <= HeapEnd

(* Each block ends where the next begins, prev and next undo each other.   *)
Linked(hd, b) ==
    /\ DOMAIN b # {} => hd \in DOMAIN b
    /\ \A h \in DOMAIN b :
        /\ h + b[h].size = HeapEnd => b[h].next = NULL
        /\ h + b[h].size # HeapEnd => /\ b[h].next = h + b[h].size
                                      /\ b[h].next \in DOMAIN b
                                      /\ b[b[h].next].prev = h
        /\ h = hd => b[h].prev = NULL
        /\ h # hd => /\ b[h].prev \in DOMAIN b
                     /\ b[b[h].prev].next = h

Disjoint(b) == \A g, h \in DOMAIN b : g < h => g + b[g].size <= h

Covered(hd, b) ==
    hd # NULL => \A a \in HeapStart .. HeapEnd - 1 :
                    \E h \in DOMAIN b : h <= a /\ a < h + b[h].size

Tiles(hd, b) ==
    /\ IsList(b) /\ Inside(b) /\ Linked(hd, b) /\ Disjoint(b) /\ Covered(hd, b)

(* n bytes are enough for w, if w is a size at all.                        *)
Enough(w, n) == w \in Nat /\ (w < WORD => w > 0 /\ w + Header <= n)
Fits(b) == \A h \in DOMAIN b : IF b[h].is_free THEN b[h].want = 0
                               ELSE Enough(b[h].want, b[h].size)

(* Two free neighbours.                                                    *)
FreePair(b, g) == b[g].is_free /\ b[g].next # NULL /\ b[b[g].next].is_free

NoPair(b) == \A g \in DOMAIN b : ~FreePair(b, g)

Good(hd, b) == Tiles(hd, b) /\ Fits(b) /\ NoPair(b)

(* Changing what is free does not move anything.                           *)
LEMMA SameLinks ==
    ASSUME NEW hd, NEW b, NEW c, Tiles(hd, b), IsList(c), DOMAIN c = DOMAIN b,
           \A k \in DOMAIN b :
            c[k].size = b[k].size /\ c[k].next = b[k].next /\ c[k].prev = b[k].prev
    PROVE  Tiles(hd, c)
<1>1. Inside(c) /\ Disjoint(c) /\ Covered(hd, c)
    BY DEF Tiles, Inside, Disjoint, Covered
<1>2. Linked(hd, c)
    BY DEF Tiles, Linked
<1> QED
    BY <1>1, <1>2 DEF Tiles

(* Facts about one block that the steps below use.                         *)
LEMMA BlockFacts ==
    ASSUME NEW hd, NEW b, Tiles(hd, b), NEW h \in DOMAIN b
    PROVE  /\ h \in Int /\ b[h] \in Block /\ h >= HeapStart /\ h > 0
           /\ b[h].size \in Int /\ b[h].size >= Header /\ h + b[h].size <= HeapEnd
           /\ b[h].next # NULL => /\ b[h].next \in DOMAIN b
                                  /\ b[h].next = h + b[h].size
                                  /\ b[b[h].next].prev = h
                                  /\ b[h].next > h
           /\ b[h].prev # NULL => /\ b[h].prev \in DOMAIN b
                                  /\ b[b[h].prev].next = h
                                  /\ b[h].prev < h
                                  /\ h # hd
<1>1. h \in Int /\ b[h] \in Block /\ h >= HeapStart /\ h > 0
    BY HeapAssumption DEF Tiles, IsList, Inside
<1>2. b[h].size \in Int /\ b[h].size >= Header /\ h + b[h].size <= HeapEnd
    BY <1>1 DEF Tiles, Inside, Block
<1>3. b[h].next # NULL => /\ b[h].next \in DOMAIN b
                          /\ b[h].next = h + b[h].size
                          /\ b[b[h].next].prev = h
                          /\ b[h].next > h
    BY <1>1, <1>2 DEF Tiles, Linked, Header
<1>4. ASSUME b[h].prev # NULL
      PROVE  /\ b[h].prev \in DOMAIN b
             /\ b[b[h].prev].next = h
             /\ b[h].prev < h
             /\ h # hd
  <2>1. h # hd /\ b[h].prev \in DOMAIN b /\ b[b[h].prev].next = h
    BY <1>4 DEF Tiles, Linked
  <2> DEFINE p == b[h].prev
  <2>2. p \in Int /\ b[p].size \in Int /\ b[p].size >= Header
    BY <2>1 DEF Tiles, IsList, Inside, Block
  <2>3. h = p + b[p].size
    BY <1>1, <2>1 DEF Tiles, Linked, NULL
  <2> QED
    BY <2>1, <2>2, <2>3 DEF Header
<1> QED
    BY <1>1, <1>2, <1>3, <1>4

-----------------------------------------------------------------------------
(* kmalloc.                                                                *)

(* A block that is cut keeps its start; its end moves to a new block.      *)
IsSplit(b, c, h, n, e) ==
    /\ IsList(c)
    /\ DOMAIN c = DOMAIN b \cup {e} /\ e \notin DOMAIN b
    /\ c[e].size = b[h].size - n /\ c[e].next = b[h].next /\ c[e].prev = h
    /\ c[e].is_free /\ c[e].want = 0
    /\ \A k \in DOMAIN b :
        /\ c[k].size = IF k = h THEN n ELSE b[k].size
        /\ c[k].next = IF k = h THEN e ELSE b[k].next
        /\ c[k].prev = IF k = b[h].next THEN e ELSE b[k].prev
        /\ c[k].is_free = b[k].is_free
        /\ c[k].want = b[k].want

LEMMA SplitFacts ==
    ASSUME NEW hd, NEW b, Tiles(hd, b), NEW h \in DOMAIN b, NEW n \in Int,
           n >= Header, b[h].size - n >= Header, n % 8 = 0
    PROVE  IsSplit(b, split(b, h, n), h, n, h + n)
<1> DEFINE c == split(b, h, n)
           r == [size |-> b[h].size - n, is_free |-> TRUE,
                 next |-> b[h].next, prev |-> h, want |-> 0]
<1>1. /\ h \in Int /\ b[h] \in Block /\ b[h].size \in Int /\ b[h].next \in Int
      /\ b[h].next # h /\ IsList(b)
  <2>1. h \in Int /\ b[h] \in Block /\ IsList(b) /\ h > 0
    BY BlockFacts DEF Tiles
  <2>2. b[h].next # h
    BY <2>1, BlockFacts DEF NULL
  <2> QED
    BY <2>1, <2>2 DEF Block
<1>2. h + n \notin DOMAIN b
  <2> SUFFICES ASSUME h + n \in DOMAIN b PROVE FALSE
    OBVIOUS
  <2>1. h + b[h].size <= h + n
    BY <1>1 DEF Tiles, Disjoint, Header
  <2> QED
    BY <1>1, <2>1 DEF Header
<1>3. DOMAIN c = DOMAIN b \cup {h + n} /\ c = [k \in DOMAIN c |-> c[k]]
    BY DEF split
<1>4. c[h + n] = r
  <2>1. ASSUME NEW k \in DOMAIN b \cup {h + n}, k = h + n PROVE c[k] = r
    BY <1>1, <2>1 DEF split, Header
  <2> QED
    BY <2>1
<1>5. r \in Block
    BY <1>1 DEF Block
<1>6. ASSUME NEW k \in DOMAIN b
      PROVE  /\ k = h => c[k] = [b[h] EXCEPT !.size = n, !.next = h + n]
             /\ k = b[h].next => c[k] = [b[k] EXCEPT !.prev = h + n]
             /\ k # h /\ k # b[h].next => c[k] = b[k]
    BY <1>1, <1>2 DEF split
<1> HIDE DEF c, r
<1>7. ASSUME NEW k \in DOMAIN b
      PROVE  /\ c[k] \in Block
             /\ c[k].size = IF k = h THEN n ELSE b[k].size
             /\ c[k].next = IF k = h THEN h + n ELSE b[k].next
             /\ c[k].prev = IF k = b[h].next THEN h + n ELSE b[k].prev
             /\ c[k].is_free = b[k].is_free
             /\ c[k].want = b[k].want
  <2>1. b[k] \in Block
    BY <1>1 DEF IsList
  <2>2. CASE k = h
    <3> DEFINE x == [b[h] EXCEPT !.size = n, !.next = h + n]
    <3>1. /\ x \in Block /\ x.size = n /\ x.next = h + n
          /\ x.prev = b[h].prev /\ x.is_free = b[h].is_free /\ x.want = b[h].want
      <4>1. h + n \in Int /\ b[h] \in Block
        BY <1>1
      <4> QED
        BY <4>1 DEF Block
    <3>2. c[k] = x /\ k # b[h].next
        BY <1>1, <1>6, <2>2
    <3> HIDE DEF x
    <3> QED
        BY <2>2, <3>1, <3>2
  <2>3. CASE k = b[h].next
    <3> DEFINE x == [b[k] EXCEPT !.prev = h + n]
    <3>1. /\ x \in Block /\ x.prev = h + n
          /\ x.size = b[k].size /\ x.next = b[k].next
          /\ x.is_free = b[k].is_free /\ x.want = b[k].want
        BY <1>1, <2>1, WithPrev
    <3>2. c[k] = x /\ k # h
        BY <1>1, <1>6, <2>3
    <3> HIDE DEF x
    <3> QED
        BY <2>3, <3>1, <3>2
  <2>4. CASE k # h /\ k # b[h].next
    BY <1>6, <2>1, <2>4
  <2> QED
    BY <2>2, <2>3, <2>4
<1>8. IsList(c)
  <2>1. \A k \in DOMAIN c : c[k] \in Block
    BY <1>3, <1>4, <1>5, <1>7
  <2> QED
    BY <1>1, <1>3, <2>1 DEF IsList
<1> QED
  <2>1. /\ r.size = b[h].size - n /\ r.next = b[h].next /\ r.prev = h
        /\ r.is_free /\ r.want = 0
    BY DEF r
  <2>2. IsSplit(b, c, h, n, h + n)
    BY <1>2, <1>3, <1>4, <1>7, <1>8, <2>1 DEF IsSplit
  <2> QED
    BY <2>2 DEF c

LEMMA SplitTiles ==
    ASSUME NEW hd, NEW b, Tiles(hd, b), NEW h \in DOMAIN b, NEW n \in Int,
           n >= Header, b[h].size - n >= Header, n % 8 = 0
    PROVE  Tiles(hd, split(b, h, n))
<1> DEFINE c == split(b, h, n)
           e == h + n
<1>1. /\ IsList(c)
      /\ DOMAIN c = DOMAIN b \cup {e} /\ e \notin DOMAIN b
      /\ c[e].size = b[h].size - n /\ c[e].next = b[h].next /\ c[e].prev = h
      /\ \A k \in DOMAIN b :
            /\ c[k].size = IF k = h THEN n ELSE b[k].size
            /\ c[k].next = IF k = h THEN e ELSE b[k].next
            /\ c[k].prev = IF k = b[h].next THEN e ELSE b[k].prev
  <2>1. IsSplit(b, c, h, n, e)
    BY SplitFacts
  <2> HIDE DEF c, e
  <2> QED
    BY <2>1 DEF IsSplit
<1>2. /\ h \in Int /\ e \in Int /\ h >= HeapStart /\ b[h].size \in Int
      /\ h + b[h].size <= HeapEnd /\ e > h
    BY BlockFacts DEF Header
<1>0. \A k \in DOMAIN b : k \in Int /\ b[k].size \in Int /\ b[k].size >= Header
    BY BlockFacts
<1>3. e % 8 = 0 /\ (b[h].size - n) % 8 = 0
    BY <1>2, Aligned DEF Tiles, Inside
<1>4. /\ Inside(b) /\ Linked(hd, b) /\ Disjoint(b) /\ Covered(hd, b)
      /\ HeapStart \in Int /\ HeapEnd \in Int /\ HeapStart > 0
    BY HeapAssumption DEF Tiles, HeapEnd
<1>5. e + (b[h].size - n) = h + b[h].size
  <2>1. h \in Int /\ b[h].size \in Int
    BY <1>2
  <2> QED
    BY <2>1
<1> HIDE DEF c, e
<1>6. Inside(c)
  <2> SUFFICES ASSUME NEW k \in DOMAIN c
               PROVE  /\ k >= HeapStart /\ k % 8 = 0
                      /\ c[k].size >= Header /\ c[k].size % 8 = 0
                      /\ k + c[k].size <= HeapEnd
    BY DEF Inside
  <2>1. CASE k = e
    <3>1. e >= HeapStart /\ e % 8 = 0
      <4>1. e \in Int /\ h \in Int /\ HeapStart \in Int /\ h >= HeapStart /\ e > h
        BY <1>2, <1>4
      <4>2. e >= HeapStart
        BY <4>1
      <4> QED
        BY <1>3, <4>2
    <3>2. c[e].size = b[h].size - n
        BY <1>1
    <3> QED
        BY <1>2, <1>3, <1>5, <2>1, <3>1, <3>2
  <2>2. CASE k = h
    <3>1. k >= HeapStart /\ k % 8 = 0 /\ c[k].size = n
        BY <1>1, <1>4, <2>2 DEF Inside
    <3> QED
        BY <1>2, <1>4, <2>2, <3>1 DEF Header
  <2>3. CASE k \in DOMAIN b /\ k # h
    BY <1>1, <1>4, <2>3 DEF Inside
  <2> QED
    BY <1>1, <2>1, <2>2, <2>3
<1>7. Disjoint(c)
  <2> SUFFICES ASSUME NEW g \in DOMAIN c, NEW k \in DOMAIN c, g < k
               PROVE  g + c[g].size <= k
    BY DEF Disjoint
  <2>1. CASE g \in DOMAIN b /\ k \in DOMAIN b
    <3>1. g + b[g].size <= k /\ g \in Int /\ b[g].size \in Int /\ k \in Int
        BY <1>2, <1>0, <1>4, <2>1 DEF Disjoint
    <3>2. c[g].size <= b[g].size /\ c[g].size \in Int
        BY <1>1, <2>1, <3>1 DEF Header
    <3> QED
        BY <3>1, <3>2
  <2>2. CASE g = e /\ k \in DOMAIN b
    <3>1. h + b[h].size <= k
        BY <1>2, <1>0, <1>4, <2>2 DEF Disjoint
    <3> QED
        BY <1>1, <1>5, <2>2, <3>1
  <2>3. CASE g \in DOMAIN b /\ k = e
    <3> g \in Int /\ h \in Int /\ e \in Int /\ n \in Int
        BY <1>2, <1>0, <2>3
    <3>1. CASE g = h
        BY <1>1, <2>3, <3>1 DEF e
    <3>2. CASE g < h
      <4>1. g + b[g].size <= h /\ c[g].size = b[g].size
        BY <1>1, <1>4, <2>3, <3>2 DEF Disjoint
      <4> QED
        BY <1>2, <1>0, <2>3, <4>1
    <3>3. CASE g > h
      <4>1. h + b[h].size <= g
        BY <1>4, <2>3, <3>3 DEF Disjoint
      <4> QED
        BY <1>2, <1>0, <2>3, <4>1 DEF e, Header
    <3> QED
        BY <3>1, <3>2, <3>3
  <2>4. ~(g = e /\ k = e)
    BY <1>2
  <2> QED
    BY <1>1, <2>1, <2>2, <2>3, <2>4
<1>8. Covered(hd, c)
  <2> SUFFICES ASSUME hd # NULL, NEW a \in HeapStart .. HeapEnd - 1
               PROVE  \E k \in DOMAIN c : k <= a /\ a < k + c[k].size
    BY DEF Covered
  <2>1. PICK k \in DOMAIN b : k <= a /\ a < k + b[k].size
    BY <1>4 DEF Covered
  <2>2. CASE k # h
    BY <1>1, <2>1, <2>2
  <2>3. CASE k = h /\ a < e
    BY <1>1, <1>2, <1>0, <2>1, <2>3 DEF e
  <2>4. CASE k = h /\ a >= e
    BY <1>1, <1>2, <1>0, <1>5, <2>1, <2>4
  <2> QED
    BY <1>2, <1>0, <1>4, <2>2, <2>3, <2>4
<1>9. Linked(hd, c)
  <2>1. /\ b[h].next # h
        /\ b[h].next # NULL => b[h].next \in DOMAIN b /\ b[h].next = h + b[h].size
        /\ h + b[h].size # HeapEnd => b[h].next # NULL
    BY <1>2, <1>0, <1>4, BlockFacts DEF NULL, Linked
  <2>2. ASSUME NEW k \in DOMAIN c
        PROVE  /\ k + c[k].size = HeapEnd => c[k].next = NULL
               /\ k + c[k].size # HeapEnd => /\ c[k].next = k + c[k].size
                                             /\ c[k].next \in DOMAIN c
                                             /\ c[c[k].next].prev = k
    <3>1. CASE k = e
        BY <1>1, <1>2, <1>0, <1>4, <1>5, <2>1, <3>1 DEF Linked
    <3>2. CASE k = h
        BY <1>1, <1>2, <1>0, <1>4, <3>2 DEF e, Header
    <3>3. CASE k \in DOMAIN b /\ k # h
      <4>1. c[k].size = b[k].size /\ c[k].next = b[k].next
        BY <1>1, <3>3
      <4>2. k + b[k].size # HeapEnd =>
                /\ b[k].next = k + b[k].size /\ b[k].next \in DOMAIN b
                /\ b[b[k].next].prev = k /\ b[k].next # b[h].next
        <5>1. h # k /\ k \in DOMAIN b /\ (b[h].next # NULL => b[b[h].next].prev = h)
            BY <1>4, <2>1, <3>3 DEF Linked
        <5>2. k + b[k].size # HeapEnd =>
                /\ b[k].next = k + b[k].size /\ b[k].next \in DOMAIN b
                /\ b[b[k].next].prev = k
            BY <1>4, <3>3 DEF Linked
        <5>3. b[k].next = k + b[k].size => b[k].next # NULL
            BY <1>2, <1>0, <1>4, <3>3 DEF NULL, Header, Inside
        <5> QED
            BY <5>1, <5>2, <5>3
      <4> QED
        BY <1>1, <1>4, <3>3, <4>1, <4>2 DEF Linked
    <3> QED
        BY <1>1, <3>1, <3>2, <3>3
  <2>3. ASSUME NEW k \in DOMAIN c
        PROVE  /\ k = hd => c[k].prev = NULL
               /\ k # hd => /\ c[k].prev \in DOMAIN c
                            /\ c[c[k].prev].next = k
    <3>1. CASE k = e
      <4>1. hd # e
        BY <1>1, <1>4 DEF Linked
      <4> QED
        BY <1>1, <3>1, <4>1
    <3>2. CASE k \in DOMAIN b /\ k = b[h].next
      <4>1. k # NULL /\ k # hd /\ k # h
        BY <1>4, <2>1, <3>2, BlockFacts DEF NULL
      <4> QED
        BY <1>1, <3>2, <4>1
    <3>3. CASE k \in DOMAIN b /\ k # b[h].next
      <4>1. c[k].prev = b[k].prev
        BY <1>1, <3>3
      <4>2. k = hd => b[k].prev = NULL
        BY <1>4, <3>3 DEF Linked
      <4>3. k # hd => b[k].prev \in DOMAIN b /\ b[b[k].prev].next = k /\ b[k].prev # h
        BY <1>4, <3>3 DEF Linked
      <4>4. k # hd => c[b[k].prev].next = b[b[k].prev].next
        BY <1>1, <4>3
      <4> QED
        BY <1>1, <4>1, <4>2, <4>3, <4>4
    <3> QED
        BY <1>1, <3>1, <3>2, <3>3
  <2> QED
    BY <1>1, <1>4, <2>2, <2>3 DEF Linked
<1> QED
    BY <1>1, <1>6, <1>7, <1>8, <1>9 DEF Tiles, c

-----------------------------------------------------------------------------
(* kfree.                                                                  *)

(* A block takes its successor's bytes and its successor's successor.      *)
IsAbsorb(b, c, h, k) ==
    /\ IsList(c)
    /\ DOMAIN c = DOMAIN b \ {k}
    /\ \A g \in DOMAIN c :
        /\ c[g].size = IF g = h THEN b[h].size + b[k].size ELSE b[g].size
        /\ c[g].next = IF g = h THEN b[k].next ELSE b[g].next
        /\ c[g].prev = IF g = b[k].next THEN h ELSE b[g].prev
        /\ c[g].is_free = b[g].is_free
        /\ c[g].want = b[g].want

LEMMA AbsorbFacts ==
    ASSUME NEW hd, NEW b, Tiles(hd, b), NEW h \in DOMAIN b, NEW k \in DOMAIN b,
           b[h].next = k
    PROVE  IsAbsorb(b, absorb(b, h, k), h, k)
<1> DEFINE c == absorb(b, h, k)
<1>1. /\ h \in Int /\ b[h] \in Block /\ b[k] \in Block /\ IsList(b) /\ h # k
      /\ b[h].size + b[k].size \in Int /\ b[k].next \in Int
  <2>1. b[h] \in Block /\ b[k] \in Block /\ h \in Int /\ IsList(b) /\ k > 0 /\ k \in Int
    BY BlockFacts DEF Tiles
  <2>2. h < k
    BY <2>1, BlockFacts DEF NULL
  <2>3. b[h].size \in Int /\ b[k].size \in Int /\ b[k].next \in Int
    BY <2>1 DEF Block
  <2> QED
    BY <2>1, <2>2, <2>3
<1>2. b[k].next # h
  <2>1. h > 0 /\ h < k /\ h \in Int /\ k \in Int
    BY BlockFacts DEF NULL
  <2>2. b[k].next # NULL => b[k].next > k
    BY BlockFacts
  <2> QED
    BY <2>1, <2>2 DEF NULL
<1>3. DOMAIN c = DOMAIN b \ {k} /\ c = [g \in DOMAIN c |-> c[g]]
    BY DEF absorb
<1>4. ASSUME NEW g \in DOMAIN b \ {k}
      PROVE  /\ g = h => c[g] = [b[h] EXCEPT !.size = b[h].size + b[k].size, !.next = b[k].next]
             /\ g = b[k].next => c[g] = [b[g] EXCEPT !.prev = h]
             /\ g # h /\ g # b[k].next => c[g] = b[g]
    BY <1>2 DEF absorb
<1> HIDE DEF c
<1>5. ASSUME NEW g \in DOMAIN b \ {k}
      PROVE  /\ c[g] \in Block
             /\ c[g].size = IF g = h THEN b[h].size + b[k].size ELSE b[g].size
             /\ c[g].next = IF g = h THEN b[k].next ELSE b[g].next
             /\ c[g].prev = IF g = b[k].next THEN h ELSE b[g].prev
             /\ c[g].is_free = b[g].is_free
             /\ c[g].want = b[g].want
  <2>1. b[g] \in Block
    BY <1>1 DEF IsList
  <2>2. CASE g = h
    <3> DEFINE x == [b[h] EXCEPT !.size = b[h].size + b[k].size, !.next = b[k].next]
    <3>1. /\ x \in Block /\ x.size = b[h].size + b[k].size /\ x.next = b[k].next
          /\ x.prev = b[h].prev /\ x.is_free = b[h].is_free /\ x.want = b[h].want
      <4>1. b[h] \in Block /\ b[h].size + b[k].size \in Int /\ b[k].next \in Int
        BY <1>1
      <4> QED
        BY <4>1 DEF Block
    <3>2. c[g] = x /\ g # b[k].next
        BY <1>2, <1>4, <2>2
    <3> HIDE DEF x
    <3> QED
        BY <2>2, <3>1, <3>2
  <2>3. CASE g = b[k].next
    <3> DEFINE x == [b[g] EXCEPT !.prev = h]
    <3>1. /\ x \in Block /\ x.prev = h
          /\ x.size = b[g].size /\ x.next = b[g].next
          /\ x.is_free = b[g].is_free /\ x.want = b[g].want
        BY <1>1, <2>1, WithPrev
    <3>2. c[g] = x /\ g # h
        BY <1>2, <1>4, <2>3
    <3> HIDE DEF x
    <3> QED
        BY <2>3, <3>1, <3>2
  <2>4. CASE g # h /\ g # b[k].next
    BY <1>4, <2>1, <2>4
  <2> QED
    BY <2>2, <2>3, <2>4
<1>6. IsList(c)
    BY <1>1, <1>3, <1>5 DEF IsList
<1>7. IsAbsorb(b, c, h, k)
    BY <1>3, <1>5, <1>6 DEF IsAbsorb
<1> QED
    BY <1>7 DEF c

LEMMA AbsorbTiles ==
    ASSUME NEW hd, NEW b, Tiles(hd, b), NEW h \in DOMAIN b, NEW k \in DOMAIN b,
           b[h].next = k
    PROVE  Tiles(hd, absorb(b, h, k))
<1> DEFINE c == absorb(b, h, k)
           n == b[h].size + b[k].size
<1>1. IsAbsorb(b, c, h, k)
    BY AbsorbFacts
<1>2. /\ h \in Int /\ k \in Int /\ h < k /\ h >= HeapStart /\ k = h + b[h].size
      /\ b[h].size \in Int /\ b[k].size \in Int /\ b[h].size >= Header /\ b[k].size >= Header
      /\ k + b[k].size <= HeapEnd
      /\ k # hd
  <2>1. k > 0 /\ k \in Int
    BY BlockFacts
  <2>2. /\ h \in Int /\ h < k /\ h >= HeapStart /\ k = h + b[h].size
        /\ b[h].size \in Int /\ b[h].size >= Header /\ b[k].prev = h /\ h > 0
    BY <2>1, BlockFacts DEF NULL
  <2>3. b[k].size \in Int /\ b[k].size >= Header /\ k + b[k].size <= HeapEnd
    BY BlockFacts
  <2>4. k # hd
    BY <2>2, BlockFacts DEF NULL
  <2> QED
    BY <2>1, <2>2, <2>3, <2>4
<1>3. n % 8 = 0 /\ n \in Int /\ n >= Header /\ h + n = k + b[k].size
  <2>1. b[h].size % 8 = 0 /\ b[k].size % 8 = 0
    BY DEF Tiles, Inside
  <2>2. n % 8 = 0
    BY <1>2, <2>1, Aligned
  <2> QED
    BY <1>2, <2>2 DEF Header
<1>4. \A g \in DOMAIN b : g \in Int /\ b[g].size \in Int /\ b[g].size >= Header
    BY BlockFacts
<1>5. /\ Inside(b) /\ Linked(hd, b) /\ Disjoint(b) /\ Covered(hd, b)
      /\ HeapStart \in Int /\ HeapEnd \in Int /\ HeapStart > 0
    BY HeapAssumption DEF Tiles, HeapEnd
<1>6. /\ IsList(c) /\ DOMAIN c = DOMAIN b \ {k}
      /\ \A g \in DOMAIN c :
        /\ c[g].size = IF g = h THEN n ELSE b[g].size
        /\ c[g].next = IF g = h THEN b[k].next ELSE b[g].next
        /\ c[g].prev = IF g = b[k].next THEN h ELSE b[g].prev
  <2> HIDE DEF c
  <2> QED
    BY <1>1 DEF IsAbsorb
<1> HIDE DEF c, n
<1>7. Inside(c)
  <2> SUFFICES ASSUME NEW g \in DOMAIN c
               PROVE  /\ g >= HeapStart /\ g % 8 = 0
                      /\ c[g].size >= Header /\ c[g].size % 8 = 0
                      /\ g + c[g].size <= HeapEnd
    BY DEF Inside
  <2>1. CASE g = h
    <3>1. g >= HeapStart /\ g % 8 = 0 /\ c[g].size = n
        BY <1>5, <1>6, <2>1 DEF Inside
    <3> QED
        BY <1>2, <1>3, <2>1, <3>1
  <2>2. CASE g # h
    BY <1>5, <1>6, <2>2 DEF Inside
  <2> QED
    BY <2>1, <2>2
<1>8. Disjoint(c)
  <2> SUFFICES ASSUME NEW f \in DOMAIN c, NEW g \in DOMAIN c, f < g
               PROVE  f + c[f].size <= g
    BY DEF Disjoint
  <2>1. f \in DOMAIN b /\ g \in DOMAIN b /\ g # k /\ f + b[f].size <= g
    BY <1>5, <1>6 DEF Disjoint
  <2>2. CASE f = h
    <3>1. c[f].size = n
        BY <1>6, <2>2
    <3>2. k < g
        BY <1>2, <1>4, <2>1, <2>2
    <3>3. k + b[k].size <= g
        BY <1>5, <2>1, <3>2 DEF Disjoint
    <3> QED
        BY <1>3, <2>2, <3>1, <3>3
  <2>3. CASE f # h
    BY <1>6, <2>1, <2>3
  <2> QED
    BY <2>2, <2>3
<1>9. Covered(hd, c)
  <2> SUFFICES ASSUME hd # NULL, NEW a \in HeapStart .. HeapEnd - 1
               PROVE  \E g \in DOMAIN c : g <= a /\ a < g + c[g].size
    BY DEF Covered
  <2>1. PICK g \in DOMAIN b : g <= a /\ a < g + b[g].size
    BY <1>5 DEF Covered
  <2>2. CASE g \notin {h, k}
    BY <1>6, <2>1, <2>2
  <2>3. CASE g \in {h, k}
    <3>1. h <= a /\ a < h + n
      <4>1. CASE g = h
        BY <1>2, <1>3, <1>5, <2>1, <4>1 DEF Header
      <4>2. CASE g = k
        BY <1>2, <1>3, <1>5, <2>1, <4>2
      <4> QED
        BY <2>3, <4>1, <4>2
    <3>2. h \in DOMAIN c /\ c[h].size = n
        BY <1>2, <1>6
    <3> QED
        BY <3>1, <3>2
  <2> QED
    BY <2>2, <2>3
<1>10. Linked(hd, c)
  <2>1. /\ b[k].next # h /\ b[k].next # k
        /\ k + b[k].size = HeapEnd => b[k].next = NULL
        /\ k + b[k].size # HeapEnd => /\ b[k].next = k + b[k].size
                                      /\ b[k].next \in DOMAIN b
                                      /\ b[b[k].next].prev = k
    <3>1. b[k].next # NULL => b[k].next > k
        BY BlockFacts
    <3>2. h > 0
        BY BlockFacts
    <3> QED
        BY <1>2, <1>5, <3>1, <3>2 DEF Linked, NULL
  <2>2. ASSUME NEW g \in DOMAIN c
        PROVE  /\ g + c[g].size = HeapEnd => c[g].next = NULL
               /\ g + c[g].size # HeapEnd => /\ c[g].next = g + c[g].size
                                             /\ c[g].next \in DOMAIN c
                                             /\ c[c[g].next].prev = g
    <3>1. CASE g = h
        BY <1>3, <1>6, <2>1, <3>1
    <3>2. CASE g # h
      <4>1. g \in DOMAIN b /\ c[g].size = b[g].size /\ c[g].next = b[g].next
        BY <1>6, <3>2
      <4>2. g + b[g].size = HeapEnd => b[g].next = NULL
        BY <1>5, <4>1 DEF Linked
      <4>3. g + b[g].size # HeapEnd => /\ b[g].next = g + b[g].size
                                      /\ b[g].next \in DOMAIN b
                                      /\ b[b[g].next].prev = g
        BY <1>5, <4>1 DEF Linked
      <4>4. b[k].prev = h
        BY <1>2, BlockFacts DEF NULL, Header
      <4>5. g + b[g].size # HeapEnd => b[g].next # k
        BY <3>2, <4>3, <4>4
      <4>6. g \in Int /\ g > 0 /\ g # k
        BY <1>6, <4>1, BlockFacts
      <4>7. g + b[g].size # HeapEnd => b[g].next # b[k].next
        BY <2>1, <4>3, <4>6, <1>4, <4>1 DEF NULL, Header
      <4> QED
        BY <1>6, <4>1, <4>2, <4>3, <4>5, <4>7
    <3> QED
        BY <3>1, <3>2
  <2>3. ASSUME NEW g \in DOMAIN c
        PROVE  /\ g = hd => c[g].prev = NULL
               /\ g # hd => /\ c[g].prev \in DOMAIN c
                            /\ c[c[g].prev].next = g
    <3>1. CASE g = b[k].next
      <4>1. g # hd
        BY <1>6, <2>1, <3>1, BlockFacts DEF NULL
      <4> QED
        BY <1>2, <1>6, <3>1, <4>1
    <3>2. CASE g # b[k].next
      <4>1. c[g].prev = b[g].prev /\ g \in DOMAIN b /\ g # k
        BY <1>6, <3>2
      <4>2. g = hd => b[g].prev = NULL
        BY <1>5, <4>1 DEF Linked
      <4>3. g # hd => b[g].prev \in DOMAIN b /\ b[b[g].prev].next = g
        BY <1>5, <4>1 DEF Linked
      <4>4. g # hd => b[g].prev # k /\ b[g].prev # h
        BY <3>2, <4>1, <4>3
      <4>5. g # hd => c[b[g].prev].next = b[b[g].prev].next
        BY <1>6, <4>3, <4>4
      <4> QED
        BY <1>6, <4>1, <4>2, <4>3, <4>4, <4>5
    <3> QED
        BY <3>1, <3>2
  <2> QED
    BY <1>2, <1>5, <1>6, <2>2, <2>3 DEF Linked
<1> QED
    BY <1>6, <1>7, <1>8, <1>9, <1>10 DEF Tiles, c

-----------------------------------------------------------------------------
(* What a whole call does to the list.                                     *)

(* A change of one block's use.                                            *)
IsMark(b, c, h, v, w) ==
    /\ IsList(c) /\ DOMAIN c = DOMAIN b
    /\ \A k \in DOMAIN b :
        /\ c[k].size = b[k].size /\ c[k].next = b[k].next /\ c[k].prev = b[k].prev
        /\ c[k].is_free = IF k = h THEN v ELSE b[k].is_free
        /\ c[k].want = IF k = h THEN w ELSE b[k].want

LEMMA MarkFacts ==
    ASSUME NEW hd, NEW b, Tiles(hd, b), NEW h \in DOMAIN b, NEW v \in BOOLEAN, NEW w \in Int
    PROVE  /\ IsMark(b, [b EXCEPT ![h].is_free = v, ![h].want = w], h, v, w)
           /\ Tiles(hd, [b EXCEPT ![h].is_free = v, ![h].want = w])
<1> DEFINE c == [b EXCEPT ![h].is_free = v, ![h].want = w]
           x == [b[h] EXCEPT !.is_free = v, !.want = w]
<1>1. IsList(b) /\ b[h] \in Block
    BY DEF Tiles, IsList
<1>2. /\ x \in Block /\ x.is_free = v /\ x.want = w
      /\ x.size = b[h].size /\ x.next = b[h].next /\ x.prev = b[h].prev
    BY <1>1 DEF Block
<1>3. c = [b EXCEPT ![h] = x]
    BY <1>1 DEF IsList, Block
<1> HIDE DEF c, x
<1>4. DOMAIN c = DOMAIN b /\ c[h] = x /\ \A k \in DOMAIN b : k # h => c[k] = b[k]
    BY <1>3
<1>5. IsList(c)
    BY <1>1, <1>2, <1>3 DEF IsList
<1>6. IsMark(b, c, h, v, w)
    BY <1>2, <1>4, <1>5 DEF IsMark
<1>7. Tiles(hd, c)
    BY <1>6, SameLinks DEF IsMark
<1> QED
    BY <1>6, <1>7 DEF c

(* Blocks in use stay where they are and keep their size, and none is new. *)
Stays(b, c, h) ==
    \A k \in DOMAIN b : ~b[k].is_free /\ k # h =>
        k \in DOMAIN c /\ ~c[k].is_free /\ c[k].size = b[k].size /\ c[k].want = b[k].want
NoneNew(b, c, h) ==
    \A k \in DOMAIN c : ~c[k].is_free /\ k # h => k \in DOMAIN b /\ ~b[k].is_free
Keeps(b, c, h) == Stays(b, c, h) /\ NoneNew(b, c, h)

LEMMA GrantedGood ==
    ASSUME NEW hd, NEW b, Good(hd, b), NEW h \in DOMAIN b, NEW size \in Nat, size # 0,
           NEW want \in Nat, want < WORD => want = size,
           b[h].is_free, b[h].size >= actual_size(size)
    PROVE  LET c == granted(b, h, size, want) IN
           /\ Good(hd, c) /\ Keeps(b, c, h)
           /\ h \in DOMAIN c /\ ~c[h].is_free /\ c[h].size \in Int
<1> DEFINE n == actual_size(size)
           c == IF splits(b, h, n) THEN split(b, h, n) ELSE b
           d == [c EXCEPT ![h].is_free = FALSE, ![h].want = want]
<1>1. /\ Tiles(hd, b) /\ Fits(b) /\ NoPair(b)
      /\ n \in Int /\ n % 8 = 0 /\ n >= size + Header /\ n >= Header
      /\ b[h].size \in Int /\ h \in Int /\ h > 0 /\ size > 0
    BY ActualSize, BlockFacts DEF Good, Header
<1>2. /\ Tiles(hd, c) /\ Fits(c) /\ h \in DOMAIN c /\ c[h].size >= size + Header
      /\ \A k \in DOMAIN b :
            /\ k \in DOMAIN c
            /\ k # h => c[k].size = b[k].size
            /\ c[k].is_free = b[k].is_free
            /\ c[k].want = b[k].want
      /\ \A k \in DOMAIN c : FreePair(c, k) => k = h
      /\ \A k \in DOMAIN c : ~c[k].is_free => k \in DOMAIN b
  <2>1. CASE splits(b, h, n)
    <3> DEFINE e == h + n
    <3>1. b[h].size - n >= Header
        BY <1>1, <2>1 DEF splits, Header, KMALLOC_MIN_SIZE
    <3>2. c = split(b, h, n)
        BY <2>1
    <3>3. IsSplit(b, c, h, n, e) /\ Tiles(hd, c)
        BY <1>1, <3>1, <3>2, SplitFacts, SplitTiles
    <3>4. /\ b[h].next # NULL => b[h].next \in DOMAIN b /\ b[h].next # h
        BY <1>1, BlockFacts
    <3>5. b[h].next # NULL => ~b[b[h].next].is_free
        BY <1>1 DEF NoPair, FreePair
    <3> HIDE DEF c, e, n
    <3>6. Fits(c)
        BY <1>1, <3>3 DEF Fits, IsSplit
    <3>7. ASSUME NEW k \in DOMAIN c, k # h PROVE ~FreePair(c, k)
      <4>1. CASE k = e
        BY <3>3, <3>4, <3>5, <4>1 DEF FreePair, IsSplit
      <4>2. CASE k \in DOMAIN b
        <5>1. c[k].next = b[k].next /\ c[k].is_free = b[k].is_free
            BY <3>3, <3>7, <4>2 DEF IsSplit
        <5>2. b[k].next # NULL => b[k].next \in DOMAIN b
            BY <1>1, <4>2, BlockFacts
        <5>3. b[k].next # NULL => c[b[k].next].is_free = b[b[k].next].is_free
            BY <3>3, <5>2 DEF IsSplit
        <5> QED
            BY <1>1, <4>2, <5>1, <5>3 DEF NoPair, FreePair
      <4> QED
        BY <3>3, <4>1, <4>2 DEF IsSplit
    <3> QED
        BY <1>1, <3>3, <3>6, <3>7 DEF IsSplit
  <2>2. CASE ~splits(b, h, n)
    <3>1. c = b
        BY <2>2
    <3> HIDE DEF c, n
    <3> QED
      <4>1. b[h].size >= size + Header
        BY <1>1 DEF n, Header
      <4>2. \A k \in DOMAIN c : ~FreePair(c, k)
        BY <1>1, <3>1 DEF NoPair
      <4> QED
        BY <1>1, <3>1, <4>1, <4>2
  <2> QED
    BY <2>1, <2>2
<1>3. d = granted(b, h, size, want)
    BY DEF granted
<1>4. IsMark(c, d, h, FALSE, want) /\ Tiles(hd, d)
  <2>1. FALSE \in BOOLEAN /\ want \in Int
    OBVIOUS
  <2> HIDE DEF c
  <2> QED
    BY <1>2, <2>1, MarkFacts
<1> HIDE DEF c, d, n
<1>5. Fits(d)
  <2>1. Enough(want, c[h].size)
    BY <1>1, <1>2, BlockFacts, HeapAssumption DEF Enough, Header
  <2> SUFFICES ASSUME NEW k \in DOMAIN d
               PROVE  IF d[k].is_free THEN d[k].want = 0
                      ELSE Enough(d[k].want, d[k].size)
    BY DEF Fits
  <2>2. CASE k = h
    BY <1>4, <2>1, <2>2 DEF IsMark
  <2>3. CASE k # h
    <3>1. /\ k \in DOMAIN c /\ d[k].is_free = c[k].is_free
          /\ d[k].want = c[k].want /\ d[k].size = c[k].size
        BY <1>4, <2>3 DEF IsMark
    <3> QED
        BY <1>2, <3>1 DEF Fits
  <2> QED
    BY <2>2, <2>3
<1>6. NoPair(d)
  <2> SUFFICES ASSUME NEW k \in DOMAIN d, FreePair(d, k) PROVE FALSE
    BY DEF NoPair
  <2>1. k \in DOMAIN c /\ k # h /\ d[k].next = c[k].next /\ c[k].is_free /\ c[k].next # NULL
    BY <1>4 DEF IsMark, FreePair
  <2>2. c[k].next \in DOMAIN c
    BY <1>2, <2>1, BlockFacts
  <2>3. c[c[k].next].is_free
    BY <1>4, <2>1, <2>2 DEF IsMark, FreePair
  <2> QED
    BY <1>2, <2>1, <2>3 DEF FreePair
<1>7. NoneNew(b, d, h)
    BY <1>2, <1>4 DEF IsMark, NoneNew
<1>10. Stays(b, d, h)
  <2> SUFFICES ASSUME NEW k \in DOMAIN b, ~b[k].is_free, k # h
               PROVE  /\ k \in DOMAIN d /\ ~d[k].is_free /\ d[k].size = b[k].size
                      /\ d[k].want = b[k].want
    BY DEF Stays
  <2>1. /\ k \in DOMAIN c /\ c[k].size = b[k].size /\ c[k].want = b[k].want
        /\ c[k].is_free = b[k].is_free
    BY <1>2
  <2> QED
    BY <1>4, <2>1 DEF IsMark
<1>8. h \in DOMAIN d /\ ~d[h].is_free
    BY <1>2, <1>4 DEF IsMark
<1>9. d[h].size \in Int
    BY <1>4, <1>8, BlockFacts
<1> QED
    BY <1>3, <1>4, <1>5, <1>6, <1>7, <1>8, <1>9, <1>10 DEF Good, Keeps

(* Both merges are the same step: h swallows its successor k, both free,   *)
(* and the only free pairs are at k or end in h.                           *)
LEMMA MergeKeeps ==
    ASSUME NEW hd, NEW b, Tiles(hd, b), Fits(b), NEW h \in DOMAIN b, NEW k \in DOMAIN b,
           b[h].next = k, b[h].is_free, b[k].is_free
    PROVE  LET c == absorb(b, h, k) IN
           /\ Tiles(hd, c) /\ Fits(c)
           /\ DOMAIN c = DOMAIN b \ {k} /\ h \in DOMAIN c
           /\ \A g \in DOMAIN c :
                /\ c[g].is_free = b[g].is_free
                /\ c[g].want = b[g].want
                /\ g # h => c[g].size = b[g].size
           /\ \A g \in DOMAIN c : FreePair(c, g) =>
                IF g = h THEN FreePair(b, k) ELSE FreePair(b, g)
<1> DEFINE c == absorb(b, h, k)
<1>1. IsAbsorb(b, c, h, k) /\ Tiles(hd, c)
    BY AbsorbFacts, AbsorbTiles
<1>2. h # k /\ b[k].prev = h
  <2>1. k > 0 /\ k \in Int /\ h \in Int
    BY BlockFacts
  <2> QED
    BY <2>1, BlockFacts DEF NULL
<1> HIDE DEF c
<1>3. Fits(c)
  <2> SUFFICES ASSUME NEW g \in DOMAIN c
               PROVE  IF c[g].is_free THEN c[g].want = 0
                      ELSE Enough(c[g].want, c[g].size)
    BY DEF Fits
  <2>1. g \in DOMAIN b /\ c[g].is_free = b[g].is_free /\ c[g].want = b[g].want
        /\ (g # h => c[g].size = b[g].size)
    BY <1>1 DEF IsAbsorb
  <2> QED
    BY <2>1 DEF Fits
<1>4. ASSUME NEW g \in DOMAIN c, FreePair(c, g)
      PROVE  IF g = h THEN FreePair(b, k) ELSE FreePair(b, g)
  <2>1. c[g].is_free /\ c[g].next # NULL /\ c[c[g].next].is_free
    BY <1>4 DEF FreePair
  <2>2. c[g].next \in DOMAIN c /\ g \in DOMAIN b
    BY <1>1, <2>1, BlockFacts DEF IsAbsorb
  <2>3. c[g].next = (IF g = h THEN b[k].next ELSE b[g].next) /\ b[g].is_free
        /\ b[c[g].next].is_free
    BY <1>1, <2>1, <2>2 DEF IsAbsorb
  <2> QED
    BY <2>1, <2>3 DEF FreePair
<1> QED
    BY <1>1, <1>2, <1>3, <1>4 DEF IsAbsorb, c

LEMMA FreedGood ==
    ASSUME NEW hd, NEW b, Good(hd, b), NEW h \in DOMAIN b, ~b[h].is_free
    PROVE  LET c == freed(b, h) IN
           /\ Good(hd, c) /\ Keeps(b, c, h)
           /\ h \in DOMAIN c => c[h].is_free
<1> DEFINE b1 == [b EXCEPT ![h].is_free = TRUE, ![h].want = 0]
           b2 == merge_next(b1, h)
           b3 == merge_prev(b2, h)
           Used(c) == Stays(b, c, h) /\ NoneNew(b, c, h)
<1>1. Tiles(hd, b) /\ Fits(b) /\ NoPair(b)
    BY DEF Good
<1>2. IsMark(b, b1, h, TRUE, 0) /\ Tiles(hd, b1)
  <2>1. TRUE \in BOOLEAN /\ 0 \in Int
    OBVIOUS
  <2> QED
    BY <1>1, <2>1, MarkFacts
<1> HIDE DEF b1
<1>3. /\ Fits(b1) /\ Used(b1) /\ h \in DOMAIN b1 /\ b1[h].is_free
      /\ \A g \in DOMAIN b1 : FreePair(b1, g) => g = h \/ b1[g].next = h
  <2>1. Fits(b1) /\ h \in DOMAIN b1 /\ b1[h].is_free
    BY <1>1, <1>2 DEF Fits, IsMark
  <2>2. Used(b1)
    BY <1>2 DEF IsMark, Stays, NoneNew
  <2>3. ASSUME NEW g \in DOMAIN b1, FreePair(b1, g), g # h, b1[g].next # h
        PROVE  FALSE
    <3>1. b1[g].is_free /\ b1[g].next # NULL /\ b1[b1[g].next].is_free
        BY <2>3 DEF FreePair
    <3>2. b1[g].next \in DOMAIN b1
        BY <1>2, <3>1, BlockFacts
    <3>3. g \in DOMAIN b /\ FreePair(b, g)
        BY <1>2, <2>3, <3>1, <3>2 DEF IsMark, FreePair
    <3> QED
        BY <1>1, <3>3 DEF NoPair
  <2> QED
    BY <2>1, <2>2, <2>3
<1>4. /\ Tiles(hd, b2) /\ Fits(b2) /\ Used(b2) /\ h \in DOMAIN b2 /\ b2[h].is_free
      /\ \A g \in DOMAIN b2 : FreePair(b2, g) => b2[g].next = h
  <2> DEFINE k == b1[h].next
  <2>1. CASE ~(k # NULL /\ b1[k].is_free)
    <3>1. b2 = b1
        BY <2>1 DEF merge_next
    <3>2. ~FreePair(b1, h)
        BY <2>1 DEF FreePair
    <3> HIDE DEF b2
    <3> QED
        BY <1>2, <1>3, <3>1, <3>2
  <2>2. CASE k # NULL /\ b1[k].is_free
    <3>1. b2 = absorb(b1, h, k)
        BY <2>2 DEF merge_next
    <3>2. k \in DOMAIN b1 /\ k > h /\ h > 0 /\ h \in Int /\ k \in Int
        BY <1>2, <1>3, <2>2, BlockFacts
    <3>3. /\ Tiles(hd, b2) /\ Fits(b2)
          /\ DOMAIN b2 = DOMAIN b1 \ {k} /\ h \in DOMAIN b2
          /\ \A g \in DOMAIN b2 :
                /\ b2[g].is_free = b1[g].is_free
                /\ b2[g].want = b1[g].want
                /\ g # h => b2[g].size = b1[g].size
          /\ \A g \in DOMAIN b2 : FreePair(b2, g) =>
                IF g = h THEN FreePair(b1, k) ELSE FreePair(b1, g)
        BY <1>2, <1>3, <2>2, <3>1, <3>2, MergeKeeps
    <3>4. ~FreePair(b1, k)
      <4>1. b1[k].next # NULL => b1[k].next > k
        BY <1>2, <3>2, BlockFacts
      <4> QED
        BY <1>3, <3>2, <4>1 DEF NULL
    <3> HIDE DEF b2
    <3>5. Used(b2) /\ b2[h].is_free
        BY <1>3, <2>2, <3>3 DEF Stays, NoneNew
    <3>6. ASSUME NEW g \in DOMAIN b2, FreePair(b2, g) PROVE b2[g].next = h
      <4>1. g # h /\ FreePair(b1, g) /\ b1[g].next = h
        BY <1>3, <3>3, <3>4, <3>6
      <4>2. IsAbsorb(b1, b2, h, k)
        BY <1>2, <1>3, <3>1, <3>2, AbsorbFacts
      <4> QED
        BY <3>6, <4>1, <4>2 DEF IsAbsorb
    <3> QED
        BY <3>3, <3>5, <3>6
  <2> QED
    BY <2>1, <2>2
<1> HIDE DEF b2
<1>5. /\ Tiles(hd, b3) /\ Fits(b3) /\ Used(b3) /\ NoPair(b3)
      /\ h \in DOMAIN b3 => b3[h].is_free
  <2> DEFINE p == b2[h].prev
  <2>1. CASE ~(p # NULL /\ b2[p].is_free)
    <3>1. b3 = b2
        BY <2>1 DEF merge_prev
    <3>2. ASSUME NEW g \in DOMAIN b2, FreePair(b2, g) PROVE FALSE
      <4>1. b2[g].next = h /\ b2[g].is_free /\ g > 0 /\ g \in Int /\ h # NULL
        BY <1>4, <3>2, BlockFacts DEF FreePair
      <4>2. b2[h].prev = g
        BY <1>4, <4>1, BlockFacts
      <4> QED
        BY <2>1, <4>1, <4>2 DEF NULL
    <3> HIDE DEF b3
    <3> QED
        BY <1>4, <3>1, <3>2 DEF NoPair
  <2>2. CASE p # NULL /\ b2[p].is_free
    <3>1. b3 = absorb(b2, p, h)
        BY <2>2 DEF merge_prev
    <3>2. p \in DOMAIN b2 /\ b2[p].next = h /\ p < h /\ h \in Int /\ p > 0 /\ p \in Int
      <4>1. p \in DOMAIN b2 /\ b2[p].next = h /\ p < h /\ h \in Int
        BY <1>4, <2>2, BlockFacts
      <4> QED
        BY <1>4, <4>1, BlockFacts
    <3>3. /\ Tiles(hd, b3) /\ Fits(b3)
          /\ DOMAIN b3 = DOMAIN b2 \ {h} /\ p \in DOMAIN b3
          /\ \A g \in DOMAIN b3 :
                /\ b3[g].is_free = b2[g].is_free
                /\ b3[g].want = b2[g].want
                /\ g # p => b3[g].size = b2[g].size
          /\ \A g \in DOMAIN b3 : FreePair(b3, g) =>
                IF g = p THEN FreePair(b2, h) ELSE FreePair(b2, g)
        BY <1>4, <2>2, <3>1, <3>2, MergeKeeps
    <3> HIDE DEF b3
    <3>4. Used(b3)
        BY <1>4, <2>2, <3>3 DEF Stays, NoneNew
    <3>5. NoPair(b3)
      <4> SUFFICES ASSUME NEW g \in DOMAIN b3, FreePair(b3, g) PROVE FALSE
        BY DEF NoPair
      <4>1. CASE g = p
        <5>1. FreePair(b2, h) /\ b2[h].next = h
            BY <1>4, <3>3, <4>1
        <5>2. b2[h].next # NULL => b2[h].next > h
            BY <1>4, BlockFacts
        <5> QED
            BY <3>2, <5>1, <5>2 DEF FreePair
      <4>2. CASE g # p
        <5>1. g \in DOMAIN b2 /\ b2[g].next = h
            BY <1>4, <3>3, <4>2
        <5>2. b2[h].prev = g
            BY <1>4, <3>2, <5>1, BlockFacts DEF NULL
        <5> QED
            BY <4>2, <5>2
      <4> QED
        BY <4>1, <4>2
    <3> QED
        BY <3>3, <3>4, <3>5
  <2> QED
    BY <2>1, <2>2
<1>6. b3 = freed(b, h)
    BY DEF freed, b1, b2
<1> HIDE DEF b3
<1>7. Keeps(b, b3, h)
    BY <1>5 DEF Keeps
<1> QED
    BY <1>5, <1>6, <1>7 DEF Good

-----------------------------------------------------------------------------
(* The bytes of the blocks in use: taking a block adds its size to their   *)
(* number and freeing one subtracts it, because no byte is in two blocks.  *)

BytesOf(b) ==
    {a \in HeapStart .. HeapEnd - 1 :
        \E h \in DOMAIN b : ~b[h].is_free /\ a \in h .. h + b[h].size - 1}

LEMMA NoBytes ==
    ASSUME NEW b, \A h \in DOMAIN b : b[h].is_free
    PROVE  Cardinality(BytesOf(b)) = 0
<1>1. BytesOf(b) = {}
    BY DEF BytesOf
<1> QED
    BY <1>1, FS_EmptySet

LEMMA BytesFinite ==
    ASSUME NEW b
    PROVE  /\ IsFiniteSet(BytesOf(b))
           /\ Cardinality(BytesOf(b)) \in 0 .. HeapSize
<1>1. HeapStart \in Int /\ HeapEnd - 1 \in Int /\ HeapSize \in Nat
      /\ HeapEnd - 1 = HeapStart + HeapSize - 1 /\ HeapSize > 0
    BY HeapAssumption DEF HeapEnd, Header
<1> DEFINE H == HeapStart .. HeapEnd - 1
<1>2. IsFiniteSet(H) /\ Cardinality(H) = HeapSize
  <2>1. IsFiniteSet(HeapStart .. HeapStart + HeapSize - 1)
        /\ Cardinality(HeapStart .. HeapStart + HeapSize - 1) = HeapSize
    BY <1>1, IntervalSize
  <2> QED
    BY <1>1, <2>1
<1>3. BytesOf(b) \in SUBSET H
    BY DEF BytesOf
<1> HIDE DEF H
<1>4. IsFiniteSet(BytesOf(b)) /\ Cardinality(BytesOf(b)) <= HeapSize
    BY <1>2, <1>3, FS_Subset
<1>5. Cardinality(BytesOf(b)) \in Nat
    BY <1>4, FS_CardinalityType
<1> QED
    BY <1>1, <1>4, <1>5

LEMMA OneBlockMore ==
    ASSUME NEW hd, NEW b, NEW c, NEW h \in DOMAIN b, Tiles(hd, b), ~b[h].is_free,
           \A k \in DOMAIN b : ~b[k].is_free /\ k # h =>
                k \in DOMAIN c /\ ~c[k].is_free /\ c[k].size = b[k].size,
           \A k \in DOMAIN c : ~c[k].is_free => k \in DOMAIN b /\ ~b[k].is_free /\ k # h
    PROVE  Cardinality(BytesOf(b)) = Cardinality(BytesOf(c)) + b[h].size
<1> DEFINE B == h .. h + b[h].size - 1
           S == BytesOf(b)
           T == BytesOf(c)
<1>1. /\ h \in Int /\ b[h].size \in Int /\ b[h].size > 0 /\ h >= HeapStart
      /\ h + b[h].size <= HeapEnd /\ h + b[h].size - 1 \in Int /\ HeapEnd \in Int
      /\ HeapStart \in Int
    BY BlockFacts, HeapAssumption DEF Header, HeapEnd
<1>2. S = T \cup B
  <2>1. ASSUME NEW a \in S PROVE a \in T \cup B
    BY DEF BytesOf
  <2>2. ASSUME NEW a \in T PROVE a \in S
    BY DEF BytesOf
  <2>3. ASSUME NEW a \in B PROVE a \in S
    BY <1>1 DEF BytesOf
  <2> QED
    BY <2>1, <2>2, <2>3
<1>3. T \cap B = {}
  <2> SUFFICES ASSUME NEW a \in T, a \in B PROVE FALSE
    OBVIOUS
  <2>1. PICK k \in DOMAIN c : ~c[k].is_free /\ a \in k .. k + c[k].size - 1
    BY DEF BytesOf
  <2>2. k \in DOMAIN b /\ k # h /\ c[k].size = b[k].size
    BY <2>1
  <2>3. k \in Int /\ b[k].size \in Int
    BY <2>2, BlockFacts
  <2>4. (k < h => k + b[k].size <= h) /\ (h < k => h + b[h].size <= k)
    BY <2>2 DEF Tiles, Disjoint
  <2> QED
    BY <1>1, <2>1, <2>2, <2>3, <2>4
<1>4. IsFiniteSet(B) /\ Cardinality(B) = b[h].size
  <2>1. PICK n \in Int : n = b[h].size /\ n >= 0
    BY <1>1
  <2>2. IsFiniteSet(h .. h + n - 1) /\ Cardinality(h .. h + n - 1) = n
    BY <1>1, <2>1, IntervalSize
  <2> QED
    BY <2>1, <2>2
<1>5. IsFiniteSet(T) /\ Cardinality(T) \in Nat
    BY BytesFinite
<1> HIDE DEF B, S, T
<1>6. Cardinality(T \cup B) = Cardinality(T) + Cardinality(B) - Cardinality(T \cap B)
    BY <1>4, <1>5, FS_Union
<1>7. Cardinality(T \cap B) = 0
    BY <1>3, FS_EmptySet
<1>8. Cardinality(S) = Cardinality(T) + b[h].size
    BY <1>1, <1>2, <1>4, <1>5, <1>6, <1>7
<1> QED
    BY <1>8 DEF S, T

LEMMA BytesGranted ==
    ASSUME NEW hd, NEW b, NEW c, NEW h, Good(hd, c), Keeps(b, c, h),
           h \in DOMAIN b => b[h].is_free, h \in DOMAIN c, ~c[h].is_free
    PROVE  Cardinality(BytesOf(c)) = Cardinality(BytesOf(b)) + c[h].size
<1>1. Tiles(hd, c)
    BY DEF Good
<1>2. \A k \in DOMAIN c : ~c[k].is_free /\ k # h =>
        k \in DOMAIN b /\ ~b[k].is_free /\ b[k].size = c[k].size
    BY DEF Keeps, Stays, NoneNew
<1>3. \A k \in DOMAIN b : ~b[k].is_free => k \in DOMAIN c /\ ~c[k].is_free /\ k # h
    BY DEF Keeps, Stays
<1> QED
    BY <1>1, <1>2, <1>3, OneBlockMore

LEMMA BytesFreed ==
    ASSUME NEW hd, NEW b, NEW c, NEW h \in DOMAIN b, Good(hd, b), Keeps(b, c, h),
           ~b[h].is_free, h \in DOMAIN c => c[h].is_free
    PROVE  Cardinality(BytesOf(b)) = Cardinality(BytesOf(c)) + b[h].size
<1>1. Tiles(hd, b)
    BY DEF Good
<1>2. \A k \in DOMAIN b : ~b[k].is_free /\ k # h =>
        k \in DOMAIN c /\ ~c[k].is_free /\ c[k].size = b[k].size
    BY DEF Keeps, Stays
<1>3. \A k \in DOMAIN c : ~c[k].is_free => k \in DOMAIN b /\ ~b[k].is_free /\ k # h
    BY DEF Keeps, NoneNew
<1> QED
    BY <1>1, <1>2, <1>3, OneBlockMore

-----------------------------------------------------------------------------
(* The search finds a block whenever there is one.                         *)

LEMMA BestFit ==
    ASSUME NEW hd, NEW b, Tiles(hd, b), NEW n, fitting(b, n) # {}
    PROVE  /\ best_fit(b, n) \in DOMAIN b
           /\ b[best_fit(b, n)].is_free /\ b[best_fit(b, n)].size >= n
<1> DEFINE F == fitting(b, n)
           S == {b[g].size : g \in F}
<1>1. \A g \in F : g \in Nat /\ b[g].size \in Nat /\ g \in DOMAIN b
    BY BlockFacts DEF fitting, Header
<1> HIDE DEF F
<1>2. PICK m \in S : \A x \in S : m <= x
  <2>1. S \subseteq Nat /\ S # {}
    BY <1>1 DEF F
  <2> QED
    BY <2>1, Smallest
<1> DEFINE E == {g \in F : b[g].size = m}
<1>3. PICK h \in E : \A g \in E : h <= g
  <2>1. E \subseteq Nat /\ E # {}
    BY <1>1, <1>2
  <2> QED
    BY <2>1, Smallest
<1>4. ASSUME NEW g \in F
      PROVE  b[h].size < b[g].size \/ (b[h].size = b[g].size /\ h <= g)
  <2>1. b[h].size = m /\ m <= b[g].size /\ b[g].size \in Nat /\ m \in Nat
    BY <1>1, <1>2, <1>3
  <2>2. b[g].size = m => h <= g
    BY <1>3
  <2> QED
    BY <2>1, <2>2
<1>5. best_fit(b, n) \in F
  <2>1. h \in F
    BY <1>3
  <2>2. best_fit(b, n) = CHOOSE k \in F : \A g \in F :
            b[k].size < b[g].size \/ (b[k].size = b[g].size /\ k <= g)
    BY DEF best_fit, F
  <2> QED
    BY <1>4, <2>1, <2>2
<1> QED
    BY <1>5 DEF F, fitting

-----------------------------------------------------------------------------
(* The inductive invariant.                                                *)

IInv ==
    /\ Good(head, blocks)
    /\ head \in {HeapStart, NULL}
    /\ current_usage = Cardinality(BytesOf(blocks))
    /\ result \in {NULL} \cup HeapStart .. HeapEnd
    /\ call[1] \in {"none", "kmalloc", "kfree", "krealloc"}

LEMMA InitIInv == Init => IInv
<1> SUFFICES ASSUME Init PROVE IInv
    OBVIOUS
<1>1. /\ HeapStart \in Nat /\ HeapStart > 0 /\ HeapSize \in Nat /\ HeapSize >= Header
      /\ HeapEnd = HeapStart + HeapSize /\ HeapStart % 8 = 0 /\ HeapSize % 8 = 0
    BY HeapAssumption DEF HeapEnd
<1>2. CASE head = NULL
  <2>1. blocks = [h \in {} |-> 0]
    BY <1>2 DEF Init
  <2>2. DOMAIN blocks = {} /\ IsList(blocks)
    BY <2>1 DEF IsList
  <2>3. Tiles(head, blocks)
    BY <1>2, <2>2 DEF Tiles, Inside, Linked, Disjoint, Covered
  <2>4. Cardinality(BytesOf(blocks)) = 0
    BY <2>2, NoBytes
  <2> QED
    BY <1>2, <2>2, <2>3, <2>4 DEF Init, IInv, Good, Fits, NoPair
<1>3. CASE head = HeapStart
  <2> DEFINE r == [size |-> HeapSize, is_free |-> TRUE, next |-> NULL, prev |-> NULL, want |-> 0]
  <2>1. blocks = [h \in {HeapStart} |-> r]
    BY <1>1, <1>3 DEF Init, NULL
  <2>2. /\ r \in Block /\ r.size = HeapSize /\ r.is_free /\ r.next = NULL /\ r.prev = NULL
        /\ r.want = 0
    BY <1>1 DEF Block, NULL
  <2> HIDE DEF r
  <2>3. DOMAIN blocks = {HeapStart} /\ blocks[HeapStart] = r /\ IsList(blocks)
    BY <1>1, <2>1, <2>2 DEF IsList
  <2>4. Inside(blocks) /\ Disjoint(blocks)
    BY <1>1, <2>2, <2>3 DEF Inside, Disjoint
  <2>5. Linked(head, blocks)
    BY <1>1, <1>3, <2>2, <2>3 DEF Linked
  <2>6. Covered(head, blocks)
    BY <1>1, <2>2, <2>3 DEF Covered
  <2>7. Fits(blocks) /\ NoPair(blocks)
    BY <2>2, <2>3 DEF Fits, NoPair, FreePair
  <2>8. Cardinality(BytesOf(blocks)) = 0
    BY <2>2, <2>3, NoBytes
  <2> QED
    BY <1>3, <2>3, <2>4, <2>5, <2>6, <2>7, <2>8 DEF Init, IInv, Good, Tiles
<1> QED
    BY <1>2, <1>3 DEF Init

(* The block that kmalloc gives.                                           *)
LEMMA Granted ==
    ASSUME IInv, NEW size \in Nat, grants(blocks, size),
           NEW want \in Nat, want < WORD => want = size
    PROVE  LET h == best_fit(blocks, actual_size(size))
               c == granted(blocks, h, size, want)
           IN  /\ h \in DOMAIN blocks /\ blocks[h].is_free
               /\ Good(head, c) /\ Keeps(blocks, c, h)
               /\ h \in DOMAIN c /\ ~c[h].is_free /\ c[h].size \in Int
               /\ h + Header \in HeapStart .. HeapEnd
<1> DEFINE h == best_fit(blocks, actual_size(size))
<1>1. Tiles(head, blocks) /\ Good(head, blocks) /\ size # 0
      /\ fitting(blocks, actual_size(size)) # {}
    BY DEF IInv, Good, grants
<1>2. h \in DOMAIN blocks /\ blocks[h].is_free /\ blocks[h].size >= actual_size(size)
    BY <1>1, BestFit
<1> HIDE DEF h
<1>3. h + Header \in HeapStart .. HeapEnd
    BY <1>1, <1>2, BlockFacts, HeapAssumption DEF Header, HeapEnd
<1> QED
    BY <1>1, <1>2, <1>3, GrantedGood DEF h

-----------------------------------------------------------------------------
(* Every operation keeps the invariant, and takes no block from its owner. *)

Stayed(h) == InUse(h)' /\ blocks'[h].size = blocks[h].size

Undisturbed ==
    /\ \A h \in DOMAIN blocks : InUse(h) => Stayed(h) \/ call' = <<"kfree", h>> \/ Moved(h)
    /\ \A h \in DOMAIN blocks' : InUse(h)' /\ ~InUse(h) => result' = h + Header
    /\ call'[1] = "kmalloc" \/ Moved(call'[2]) => ~InUse(result' - Header)

LEMMA NotAtNull ==
    ASSUME IInv PROVE ~InUse(NULL - Header)
<1>1. NULL - Header \in DOMAIN blocks => NULL - Header > 0
    BY BlockFacts DEF IInv, Good
<1> QED
    BY <1>1 DEF InUse, NULL, Header

LEMMA HeaderOf ==
    ASSUME IInv, NEW h \in DOMAIN blocks PROVE (h + Header) - Header = h /\ h + Header # NULL
BY BlockFacts DEF IInv, Good, Header, NULL

LEMMA KeepKmalloc ==
    ASSUME IInv, NEW size \in Nat, NEW want \in Nat, want < WORD => want = size,
           kmalloc(size, want)
    PROVE  IInv' /\ Undisturbed
<1>0. call' = <<"kmalloc", NULL>> /\ call'[1] = "kmalloc" /\ ~Moved(call'[2])
    BY DEF kmalloc, Moved
<1>1. CASE grants(blocks, size)
  <2> DEFINE h == best_fit(blocks, actual_size(size))
             c == granted(blocks, h, size, want)
  <2>1. /\ h \in DOMAIN blocks /\ blocks[h].is_free
        /\ Good(head, c) /\ Keeps(blocks, c, h)
        /\ h \in DOMAIN c /\ ~c[h].is_free /\ c[h].size \in Int
        /\ h + Header \in HeapStart .. HeapEnd
    BY <1>1, Granted
  <2>2. /\ blocks' = c /\ head' = head /\ result' = h + Header
        /\ current_usage' = current_usage + c[h].size
    BY <1>1 DEF kmalloc
  <2> HIDE DEF h, c
  <2>3. IInv'
    <3>1. Cardinality(BytesOf(c)) = Cardinality(BytesOf(blocks)) + c[h].size
        BY <2>1, BytesGranted
    <3> QED
        BY <1>0, <2>1, <2>2, <3>1 DEF IInv
  <2>4. result' - Header = h
    BY <2>1, <2>2, HeaderOf
  <2>5. Undisturbed
    BY <2>1, <2>2, <2>4 DEF Undisturbed, Stayed, InUse, Keeps, Stays, NoneNew
  <2> QED
    BY <2>3, <2>5
<1>2. CASE ~grants(blocks, size)
  <2>1. UNCHANGED <<head, blocks, current_usage>> /\ result' = NULL
    BY <1>2 DEF kmalloc
  <2> QED
    BY <1>0, <2>1, NotAtNull DEF IInv, Undisturbed, Stayed, InUse
<1> QED
    BY <1>1, <1>2

LEMMA KeepKfree ==
    ASSUME IInv, NEW h \in DOMAIN blocks, ~blocks[h].is_free,
           blocks' = freed(blocks, h), head' = head,
           current_usage' = current_usage - blocks[h].size,
           result' \in {NULL, result}, call' = <<"kfree", h>>
    PROVE  IInv' /\ Undisturbed
<1>1. Good(head, blocks) /\ blocks[h].size \in Int
    BY BlockFacts DEF IInv, Good
<1>2. /\ Good(head, blocks') /\ Keeps(blocks, blocks', h)
      /\ h \in DOMAIN blocks' => blocks'[h].is_free
    BY <1>1, FreedGood
<1>3. IInv'
  <2>1. Cardinality(BytesOf(blocks)) = Cardinality(BytesOf(blocks')) + blocks[h].size
    BY <1>1, <1>2, BytesFreed
  <2>2. Cardinality(BytesOf(blocks')) \in Nat
    BY BytesFinite
  <2> QED
    BY <1>1, <1>2, <2>1, <2>2 DEF IInv
<1>4. Undisturbed
  <2>1. call'[1] # "kmalloc" /\ ~Moved(call'[2])
    BY DEF Moved
  <2> QED
    BY <1>2, <2>1 DEF Undisturbed, Stayed, InUse, Keeps, Stays, NoneNew
<1> QED
    BY <1>3, <1>4

LEMMA KeepKrealloc ==
    ASSUME IInv, NEW h \in DOMAIN blocks, NEW size \in Nat, Krealloc(h, size)
    PROVE  IInv' /\ Undisturbed
<1>1. /\ Good(head, blocks) /\ Tiles(head, blocks) /\ ~blocks[h].is_free /\ size # 0
      /\ head' = head /\ blocks[h].size \in Int
    BY BlockFacts DEF IInv, Good, Krealloc
<1>0. call' = <<"krealloc", h>> /\ call'[1] = "krealloc" /\ call'[2] = h
    BY DEF Krealloc
<1>2. CASE size <= blocks[h].size - Header /\ blocks' = [blocks EXCEPT ![h].want = size]
           /\ result' = h + Header /\ current_usage' = current_usage
  <2> DEFINE c == [blocks EXCEPT ![h].is_free = FALSE, ![h].want = size]
  <2>1. blocks[h] \in Block /\ IsList(blocks)
    BY <1>1 DEF Tiles, IsList
  <2>2. blocks[h].is_free = FALSE
    BY <1>1, <2>1 DEF Block
  <2>3. blocks' = c
    BY <1>2, <2>1, <2>2 DEF IsList, Block
  <2>4. FALSE \in BOOLEAN /\ size \in Int
    OBVIOUS
  <2>5. IsMark(blocks, c, h, FALSE, size) /\ Tiles(head, c)
    BY <1>1, <2>4, MarkFacts
  <2> HIDE DEF c
  <2>6. Fits(c)
    <3> SUFFICES ASSUME NEW k \in DOMAIN c
                 PROVE  IF c[k].is_free THEN c[k].want = 0
                        ELSE Enough(c[k].want, c[k].size)
        BY DEF Fits
    <3>1. CASE k = h
      <4>1. ~c[k].is_free /\ c[k].want = size /\ c[k].size = blocks[h].size
        BY <2>5, <3>1 DEF IsMark
      <4> QED
        BY <1>1, <1>2, <4>1 DEF Header, Enough
    <3>2. CASE k # h
        BY <1>1, <2>5, <3>2 DEF Good, Fits, IsMark
    <3> QED
        BY <3>1, <3>2
  <2>7. NoPair(c)
    <3> SUFFICES ASSUME NEW k \in DOMAIN c, FreePair(c, k) PROVE FALSE
        BY DEF NoPair
    <3>1. c[k].is_free /\ c[k].next # NULL /\ c[c[k].next].is_free /\ c[k].next \in DOMAIN c
        BY <2>5, BlockFacts DEF FreePair
    <3>2. k \in DOMAIN blocks /\ FreePair(blocks, k)
        BY <2>5, <3>1 DEF IsMark, FreePair
    <3> QED
        BY <1>1, <3>2 DEF Good, NoPair
  <2>8. result' \in HeapStart .. HeapEnd
    BY <1>1, <1>2, BlockFacts, HeapAssumption DEF Header, HeapEnd
  <2>9. IInv'
    <3>1. BytesOf(c) = BytesOf(blocks)
      <4>1. \A k \in DOMAIN c : c[k].is_free = blocks[k].is_free /\ c[k].size = blocks[k].size
        BY <2>2, <2>5 DEF IsMark
      <4> QED
        BY <2>5, <4>1 DEF IsMark, BytesOf
    <3> QED
        BY <1>0, <1>1, <1>2, <2>3, <2>5, <2>6, <2>7, <2>8, <3>1 DEF IInv, Good
  <2>10. ~Moved(h)
    BY <1>2 DEF Moved
  <2>11. Undisturbed
    BY <1>0, <2>2, <2>3, <2>5, <2>10 DEF Undisturbed, Stayed, InUse, IsMark
  <2> QED
    BY <2>9, <2>11
<1>3. CASE result' = NULL /\ UNCHANGED <<blocks, current_usage>>
    BY <1>0, <1>1, <1>3 DEF IInv, Undisturbed, Stayed, InUse, Moved
<1>4. CASE grants(blocks, size)
           /\ LET new   == best_fit(blocks, actual_size(size))
                  after == granted(blocks, new, size, size)
              IN  /\ blocks' = freed(after, h)
                  /\ current_usage' = current_usage + after[new].size - blocks[h].size
                  /\ result' = new + Header
  <2> DEFINE new == best_fit(blocks, actual_size(size))
             after == granted(blocks, new, size, size)
  <2>1. /\ new \in DOMAIN blocks /\ blocks[new].is_free
        /\ Good(head, after) /\ Keeps(blocks, after, new)
        /\ new \in DOMAIN after /\ ~after[new].is_free /\ after[new].size \in Int
        /\ new + Header \in HeapStart .. HeapEnd
    BY <1>4, Granted
  <2>2. /\ blocks' = freed(after, h) /\ result' = new + Header
        /\ current_usage' = current_usage + after[new].size - blocks[h].size
    BY <1>4
  <2> HIDE DEF new, after
  <2>3. h # new /\ h \in DOMAIN after /\ ~after[h].is_free
    BY <1>1, <2>1 DEF Keeps, Stays
  <2>4. /\ Good(head, blocks') /\ Keeps(after, blocks', h)
        /\ h \in DOMAIN blocks' => blocks'[h].is_free
    BY <2>1, <2>2, <2>3, FreedGood
  <2>5. IInv'
    <3>1. Cardinality(BytesOf(after)) = Cardinality(BytesOf(blocks)) + after[new].size
        BY <2>1, BytesGranted
    <3>2. Cardinality(BytesOf(after)) = Cardinality(BytesOf(blocks')) + after[h].size
        BY <2>1, <2>3, <2>4, BytesFreed
    <3>3. after[h].size = blocks[h].size
        BY <1>1, <2>1, <2>3 DEF Keeps, Stays
    <3>4. Cardinality(BytesOf(blocks')) \in Nat /\ Cardinality(BytesOf(blocks)) \in Nat
        BY BytesFinite
    <3>5. current_usage' = Cardinality(BytesOf(blocks'))
        BY <1>1, <2>1, <2>2, <3>1, <3>2, <3>3, <3>4 DEF IInv
    <3> QED
        BY <1>0, <1>1, <2>1, <2>2, <2>4, <3>5 DEF IInv
  <2>6. result' - Header = new /\ ~InUse(new) /\ result' # NULL /\ result' # h + Header
    BY <2>1, <2>2, <2>3, HeaderOf DEF InUse
  <2>7. Moved(h)
    BY <1>0, <2>6 DEF Moved
  <2>8. ASSUME NEW k \in DOMAIN blocks, InUse(k), k # h PROVE Stayed(k)
    <3>1. ~blocks[k].is_free /\ k # new
        BY <2>1, <2>8 DEF InUse
    <3>2. k \in DOMAIN after /\ ~after[k].is_free /\ after[k].size = blocks[k].size
        BY <2>1, <3>1 DEF Keeps, Stays
    <3> QED
        BY <2>4, <2>8, <3>2 DEF Keeps, Stays, Stayed, InUse
  <2>9. ASSUME NEW k \in DOMAIN blocks', InUse(k)', ~InUse(k) PROVE k = new
    <3>1. k # h /\ k \in DOMAIN after /\ ~after[k].is_free
        BY <1>1, <2>4, <2>9 DEF Keeps, NoneNew, InUse
    <3> QED
        BY <2>1, <2>9, <3>1 DEF Keeps, NoneNew, InUse
  <2>10. Undisturbed
    BY <2>2, <2>6, <2>7, <2>8, <2>9 DEF Undisturbed
  <2> QED
    BY <2>5, <2>10
<1> QED
    BY <1>2, <1>3, <1>4 DEF Krealloc

LEMMA NextIInv == IInv /\ [Next]_vars => IInv' /\ [Undisturbed]_vars
<1> SUFFICES ASSUME IInv, [Next]_vars
             PROVE  IInv' /\ [Undisturbed]_vars
    OBVIOUS
<1>1. ASSUME NEW size \in Sizes, Kmalloc(size) PROVE IInv' /\ Undisturbed
    BY <1>1, KeepKmalloc, HeapAssumption DEF Kmalloc
<1>2. ASSUME NEW size \in Sizes, NEW num \in Counts, Kcalloc(num, size)
      PROVE  IInv' /\ Undisturbed
  <2>1. num \in Nat /\ size \in Nat /\ WORD \in Nat \ {0}
    BY HeapAssumption
  <2>2. num * size \in Nat
    BY <2>1
  <2>3. PICK want \in Nat : want = num * size
    BY <2>2
  <2>4. want % WORD \in Nat /\ (want < WORD => want = want % WORD)
    BY <2>1, <2>3
  <2>5. kmalloc(want % WORD, want)
    BY <1>2, <2>3 DEF Kcalloc
  <2> QED
    BY <2>4, <2>5, KeepKmalloc
<1>3. ASSUME NEW h \in DOMAIN blocks, Kfree(h) \/ KreallocFree(h) PROVE IInv' /\ Undisturbed
    BY <1>3, KeepKfree DEF Kfree, KreallocFree
<1>4. ASSUME NEW h \in DOMAIN blocks, NEW size \in Sizes, Krealloc(h, size)
      PROVE  IInv' /\ Undisturbed
    BY <1>4, KeepKrealloc, HeapAssumption
<1>5. ASSUME NEW h \in DOMAIN blocks, DoubleFree(h) PROVE IInv' /\ Undisturbed
    BY <1>5 DEF DoubleFree, IInv, Undisturbed, Stayed, InUse, Moved
<1>6. CASE UNCHANGED vars
    BY <1>6 DEF vars, IInv
<1> QED
    BY <1>1, <1>2, <1>3, <1>4, <1>5, <1>6 DEF Next

-----------------------------------------------------------------------------

(* Every byte of the heap belongs to exactly one block of the list,        *)
(* whatever kmalloc, kfree and krealloc did.                               *)
THEOREM HeapStaysTiled == Spec => []ListTiles
<1>1. IInv => ListTiles
  <2> SUFFICES ASSUME IInv PROVE ListTiles
    OBVIOUS
  <2>1. /\ Tiles(head, blocks) /\ IsList(blocks) /\ Inside(blocks) /\ Linked(head, blocks)
        /\ Disjoint(blocks) /\ Covered(head, blocks) /\ Fits(blocks)
        /\ HeapStart \in Nat /\ HeapSize \in Nat /\ HeapEnd = HeapStart + HeapSize
    BY HeapAssumption DEF IInv, Good, Tiles, HeapEnd
  <2>2. ASSUME NEW h \in DOMAIN blocks
        PROVE  /\ h \in {a \in HeapStart .. HeapEnd - Header : a % 8 = 0}
               /\ blocks[h] \in [size : {n \in Header .. HeapSize : n % 8 = 0},
                                 is_free : BOOLEAN,
                                 next : {NULL} \cup DOMAIN blocks,
                                 prev : {NULL} \cup DOMAIN blocks,
                                 want : Nat]
    <3>1. /\ h \in Int /\ blocks[h] \in Block /\ blocks[h].size \in Int /\ blocks[h].want \in Int
          /\ h >= HeapStart /\ blocks[h].size >= Header /\ h + blocks[h].size <= HeapEnd
          /\ h % 8 = 0 /\ blocks[h].size % 8 = 0
        BY <2>1, BlockFacts DEF Inside, Block
    <3>2. h \in {a \in HeapStart .. HeapEnd - Header : a % 8 = 0}
        BY <2>1, <3>1 DEF Header
    <3>3. blocks[h].size \in {n \in Header .. HeapSize : n % 8 = 0}
        BY <2>1, <3>1 DEF Header
    <3>4. blocks[h].want \in Nat
        BY <2>1 DEF Fits, Enough
    <3>5. blocks[h].next \in {NULL} \cup DOMAIN blocks /\ blocks[h].prev \in {NULL} \cup DOMAIN blocks
        BY <2>1, BlockFacts
    <3> HIDE DEF NULL
    <3> QED
        BY <3>1, <3>2, <3>3, <3>4, <3>5 DEF Block
  <2>3. TypeOK
    <3>1. current_usage \in Int
        BY BytesFinite DEF IInv
    <3> QED
        BY <2>2, <3>1 DEF TypeOK, IInv
  <2>4. ASSUME NEW h \in DOMAIN blocks PROVE blocks[h].prev = NULL <=> h = head
    <3>1. h = head => blocks[h].prev = NULL
        BY <2>1 DEF Linked
    <3>2. h # head => blocks[h].prev \in DOMAIN blocks
        BY <2>1 DEF Linked
    <3>3. h # head => blocks[h].prev > 0
        BY <2>1, <3>2, BlockFacts
    <3> QED
        BY <3>1, <3>3 DEF NULL
  <2>5. head # NULL => \A a \in HeapStart .. HeapEnd - 1 :
                        \E h \in DOMAIN blocks : a \in h .. h + blocks[h].size - 1
    <3> SUFFICES ASSUME head # NULL, NEW a \in HeapStart .. HeapEnd - 1
                 PROVE  \E h \in DOMAIN blocks : a \in h .. h + blocks[h].size - 1
        OBVIOUS
    <3>1. PICK h \in DOMAIN blocks : h <= a /\ a < h + blocks[h].size
        BY <2>1 DEF Covered
    <3>2. h \in Int /\ blocks[h].size \in Int /\ a \in Int
        BY <2>1, BlockFacts
    <3> QED
        BY <3>1, <3>2
  <2> QED
    BY <2>1, <2>3, <2>4, <2>5 DEF ListTiles, Linked, Disjoint
<1> QED
    BY <1>1, InitIInv, NextIInv, PTL DEF Spec

(* kfree leaves no two free neighbours.                                    *)
THEOREM FreedMemoryMerges == Spec => []Coalesced
<1>1. IInv => Coalesced
    BY DEF IInv, Good, NoPair, FreePair, Coalesced
<1> QED
    BY <1>1, InitIInv, NextIInv, PTL DEF Spec

(* A block in use holds what its owner asked for, if a size_t does.        *)
THEOREM BlocksLargeEnough == Spec => []DataFits
<1>1. IInv => DataFits
    BY DEF IInv, Good, Fits, Enough, DataFits
<1> QED
    BY <1>1, InitIInv, NextIInv, PTL DEF Spec

(* current_usage counts every byte of the blocks in use, once: neither a   *)
(* split, nor a merge, nor the block that krealloc leaves is miscounted.   *)
THEOREM UsageCountsBytes == Spec => []UsageExact
<1>1. IInv => UsageExact
  <2> SUFFICES ASSUME IInv PROVE UsageExact
    OBVIOUS
  <2>1. BytesOf(blocks) = UsedBytes
    BY DEF BytesOf, UsedBytes
  <2> QED
    BY <2>1, BytesFinite DEF IInv, UsageExact
<1> QED
    BY <1>1, InitIInv, NextIInv, PTL DEF Spec

(* Whatever is called, a block in use is neither moved nor cut nor handed  *)
(* out again nor freed before its owner gives it up, not even by a         *)
(* krealloc that fails.                                                    *)
THEOREM LiveBlocksUntouched == Spec => LiveUntouched
<1>1. IInv /\ [Next]_vars => [Undisturbed]_vars
    BY NextIInv
<1>2. Undisturbed <=>
        /\ \A h \in DOMAIN blocks : InUse(h) =>
            \/ InUse(h)' /\ blocks'[h].size = blocks[h].size
            \/ call' = <<"kfree", h>> \/ Moved(h)
        /\ \A h \in DOMAIN blocks' : InUse(h)' /\ ~InUse(h) => result' = h + Header
        /\ call'[1] = "kmalloc" \/ Moved(call'[2]) => ~InUse(result' - Header)
    BY DEF Undisturbed, Stayed
<1> QED
    BY <1>1, <1>2, InitIInv, NextIInv, PTL DEF Spec, LiveUntouched

=============================================================================
