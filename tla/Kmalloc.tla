------------------------------ MODULE Kmalloc ------------------------------
(***************************************************************************)
(* The kernel heap, kernel/mm/kmalloc.c: one region of memory cut into     *)
(* blocks, each with its header in front, linked in both directions.       *)
(* Addresses and sizes are in bytes.  The heap is used by the kernel's     *)
(* start-up code and by system calls, never by an interrupt handler, so a  *)
(* call is one step.                                                       *)
(*                                                                         *)
(* A header that a merge swallowed stays in memory but nothing points to   *)
(* it: it leaves the domain of blocks.  total_allocated and total_freed    *)
(* only feed a printout and are left out.                                  *)
(***************************************************************************)
EXTENDS Integers, FiniteSets

CONSTANTS
    HeapStart, HeapSize,    \* what pmm_alloc_pages(8) gives: 1 MB
    KMALLOC_MAX_SIZE,       \* 4 MB
    Sizes,                  \* the sizes callers ask for
    Counts,                 \* the first argument of kcalloc
    WORD                    \* 2^32: the values of a size_t

Header == 16                \* sizeof(struct kmalloc_header)
KMALLOC_MIN_SIZE == 16
NULL == 0
HeapEnd == HeapStart + HeapSize

ASSUME HeapAssumption ==
    /\ HeapStart \in Nat \ {0} /\ HeapStart % 8 = 0
    /\ HeapSize \in Nat /\ HeapSize % 8 = 0 /\ HeapSize >= Header
    /\ WORD \in Nat /\ HeapStart + HeapSize < WORD
    /\ KMALLOC_MAX_SIZE \in Nat /\ KMALLOC_MAX_SIZE + Header + 8 < WORD
    /\ Sizes \subseteq 0 .. WORD - 1 /\ Counts \subseteq 0 .. WORD - 1

VARIABLES
    head,               \* heap_mgr.head
    blocks,             \* [the addresses of the headers -> the header]
    current_usage,      \* heap_mgr.current_usage
    result,             \* the pointer the last call returned
    call                \* ghost: the last call and the block it was passed

(* want is a ghost: the bytes the block's owner asked for, of kcalloc num  *)
(* times size whatever a size_t can hold.                                  *)
vars == <<head, blocks, current_usage, result, call>>

(* kmalloc_init does not test whether pmm_alloc_pages failed: then head is *)
(* NULL and the list is empty.                                             *)
Init ==
    /\ head \in {HeapStart, NULL}
    /\ blocks = IF head = NULL THEN [h \in {} |-> 0]
                ELSE [h \in {head} |-> [size |-> HeapSize, is_free |-> TRUE,
                                        next |-> NULL, prev |-> NULL, want |-> 0]]
    /\ current_usage = 0
    /\ result = NULL
    /\ call = <<"none", NULL>>

-----------------------------------------------------------------------------
(* kmalloc, on a list b of blocks.                                         *)

actual_size_mutant(size) == ((size + 7) \div 8) * 8 + 8
actual_size(size) == ((size + Header + 7) \div 8) * 8

fitting_mutant(b, n) == {h \in DOMAIN b : b[h].size >= n}
fitting(b, n) == {h \in DOMAIN b : b[h].is_free /\ b[h].size >= n}

(* The smallest, and the first in the list among equals.                   *)
best_fit(b, n) ==
    CHOOSE h \in fitting(b, n) : \A g \in fitting(b, n) :
        b[h].size < b[g].size \/ (b[h].size = b[g].size /\ h <= g)

split_mutant(b, h, n) ==
    [k \in DOMAIN b \cup {h + n} |->
        CASE k = h + n -> [size |-> b[h].size - n, is_free |-> TRUE,
                           next |-> b[h].next, prev |-> h, want |-> 0]
          [] k = h     -> [b[h] EXCEPT !.size = n, !.next = h + n]
          [] OTHER     -> b[k]]

(* Cut h after n bytes; the rest becomes a free block.                     *)
split(b, h, n) ==
    [k \in DOMAIN b \cup {h + n} |->
        CASE k = h + n -> [size |-> b[h].size - n, is_free |-> TRUE,
                           next |-> b[h].next, prev |-> h, want |-> 0]
          [] k = h     -> [b[h] EXCEPT !.size = n, !.next = h + n]
          [] k = b[h].next /\ k # h /\ k # h + n -> [b[k] EXCEPT !.prev = h + n]
          [] OTHER     -> b[k]]

splits(b, h, n) == b[h].size >= n + Header + KMALLOC_MIN_SIZE

granted(b, h, size, want) ==
    LET n == actual_size(size)
        c == IF splits(b, h, n) THEN split(b, h, n) ELSE b
    IN  [c EXCEPT ![h].is_free = FALSE, ![h].want = want]

grants(b, size) ==
    /\ size # 0
    /\ size <= KMALLOC_MAX_SIZE
    /\ fitting(b, actual_size(size)) # {}

kmalloc(size, want) ==
    /\ call' = <<"kmalloc", NULL>>
    /\ UNCHANGED head
    /\ \/ /\ grants(blocks, size)
          /\ LET h == best_fit(blocks, actual_size(size)) IN
                /\ blocks' = granted(blocks, h, size, want)
                /\ current_usage' = current_usage + blocks'[h].size
                /\ result' = h + Header
       \/ /\ ~grants(blocks, size)
          /\ result' = NULL
          /\ UNCHANGED <<blocks, current_usage>>

Kmalloc(size) == kmalloc(size, size)

-----------------------------------------------------------------------------
(* kfree, on a list b of blocks.                                           *)

absorb_mutant(b, h, k) ==
    [g \in DOMAIN b \ {k} |->
        IF g = h THEN [b[h] EXCEPT !.size = b[h].size + b[k].size, !.next = b[k].next]
        ELSE b[g]]

(* h swallows k, its successor.                                            *)
absorb(b, h, k) ==
    [g \in DOMAIN b \ {k} |->
        CASE g = h         -> [b[h] EXCEPT !.size = b[h].size + b[k].size, !.next = b[k].next]
          [] g = b[k].next -> [b[g] EXCEPT !.prev = h]
          [] OTHER         -> b[g]]

merge_next_mutant(b, h) == b
merge_next(b, h) ==
    IF b[h].next # NULL /\ b[b[h].next].is_free THEN absorb(b, h, b[h].next) ELSE b

merge_prev_mutant(b, h) == b
merge_prev(b, h) ==
    IF b[h].prev # NULL /\ b[b[h].prev].is_free THEN absorb(b, b[h].prev, h) ELSE b

freed(b, h) ==
    merge_prev(merge_next([b EXCEPT ![h].is_free = TRUE, ![h].want = 0], h), h)

Kfree(h) ==
    /\ ~blocks[h].is_free
    /\ blocks' = freed(blocks, h)
    /\ current_usage' = current_usage - blocks[h].size
    /\ call' = <<"kfree", h>>
    /\ UNCHANGED <<head, result>>

(* kfree of a block whose header says that it is free.                     *)
DoubleFree(h) ==
    /\ blocks[h].is_free
    /\ call' = <<"kfree", h>>
    /\ UNCHANGED <<head, blocks, current_usage, result>>

-----------------------------------------------------------------------------

(* The product that kmalloc gets wraps; the caller wants all of it.        *)
Kcalloc(num, size) == kmalloc((num * size) % WORD, num * size)

(* krealloc of h: a block that is large enough stays; otherwise a new one  *)
(* is allocated, the old one's bytes are copied and it is freed.           *)
Krealloc(h, size) ==
    /\ ~blocks[h].is_free
    /\ size # 0
    /\ call' = <<"krealloc", h>>
    /\ UNCHANGED head
    /\ \/ /\ size <= blocks[h].size - Header
          /\ blocks' = [blocks EXCEPT ![h].want = size]
          /\ result' = h + Header
          /\ UNCHANGED current_usage
       \/ /\ size > blocks[h].size - Header
          /\ ~grants(blocks, size)
          /\ result' = NULL
          /\ UNCHANGED <<blocks, current_usage>>
       \/ /\ size > blocks[h].size - Header
          /\ grants(blocks, size)
          /\ LET new   == best_fit(blocks, actual_size(size))
                 after == granted(blocks, new, size, size)
             IN  /\ blocks' = freed(after, h)
                 /\ current_usage' = current_usage + after[new].size - blocks[h].size
                 /\ result' = new + Header

(* krealloc to size 0 frees and returns NULL.                              *)
KreallocFree(h) ==
    /\ ~blocks[h].is_free
    /\ blocks' = freed(blocks, h)
    /\ current_usage' = current_usage - blocks[h].size
    /\ result' = NULL
    /\ call' = <<"kfree", h>>
    /\ UNCHANGED head

Next ==
    \/ \E size \in Sizes : Kmalloc(size) \/ \E num \in Counts : Kcalloc(num, size)
    \/ \E h \in DOMAIN blocks :
        \/ Kfree(h) \/ DoubleFree(h) \/ KreallocFree(h)
        \/ \E size \in Sizes : Krealloc(h, size)

Spec == Init /\ [][Next]_vars

-----------------------------------------------------------------------------

TypeOK ==
    /\ head \in {HeapStart, NULL}
    /\ DOMAIN blocks \subseteq {a \in HeapStart .. HeapEnd - Header : a % 8 = 0}
    /\ \A h \in DOMAIN blocks :
        blocks[h] \in [size : {n \in Header .. HeapSize : n % 8 = 0}, is_free : BOOLEAN,
                       next : {NULL} \cup DOMAIN blocks, prev : {NULL} \cup DOMAIN blocks,
                       want : Nat]
    /\ current_usage \in Int
    /\ result \in {NULL} \cup HeapStart .. HeapEnd
    /\ call[1] \in {"none", "kmalloc", "kfree", "krealloc"}

(* The links and the sizes agree: each block ends where the next begins,   *)
(* the last one at the end of the heap, and prev undoes next; every block  *)
(* is aligned and inside the heap.  No byte belongs to two blocks, and if  *)
(* there is a heap at all none is lost to a block that nothing points to.  *)
ListTiles ==
    /\ TypeOK
    /\ \A h \in DOMAIN blocks :
        /\ IF h + blocks[h].size = HeapEnd THEN blocks[h].next = NULL
           ELSE /\ blocks[h].next = h + blocks[h].size
                /\ blocks[h].next \in DOMAIN blocks
                /\ blocks[blocks[h].next].prev = h
        /\ blocks[h].prev = NULL <=> h = head
        /\ \A g \in DOMAIN blocks : g < h => g + blocks[g].size <= h
    /\ head # NULL => \A a \in HeapStart .. HeapEnd - 1 :
                        \E h \in DOMAIN blocks : a \in h .. h + blocks[h].size - 1

(* Merging misses nothing: two neighbours are never both free, so a        *)
(* request fails only when no run of free bytes is long enough.            *)
Coalesced ==
    \A h \in DOMAIN blocks :
        blocks[h].is_free /\ blocks[h].next # NULL => ~blocks[blocks[h].next].is_free

(* A block holds what its owner asked for, and its header; except a block  *)
(* of kcalloc whose product no size_t holds: kcalloc does not test for the *)
(* wrap and gives a block of the wrapped size.                             *)
DataFits ==
    \A h \in DOMAIN blocks : ~blocks[h].is_free /\ blocks[h].want < WORD =>
        blocks[h].want > 0 /\ blocks[h].want + Header <= blocks[h].size

(* current_usage is the bytes of the blocks in use, and so it never wraps. *)
UsedBytes ==
    {a \in HeapStart .. HeapEnd - 1 :
        \E h \in DOMAIN blocks : ~blocks[h].is_free /\ a \in h .. h + blocks[h].size - 1}
UsageExact == current_usage \in 0 .. HeapSize /\ current_usage = Cardinality(UsedBytes)

(* A block in use stays in use with its size until its owner gives it up: *)
(* to kfree, to krealloc of size 0, or to krealloc that returns another    *)
(* block.  A krealloc that fails frees nothing.  What comes into use is    *)
(* what the call returns, and no call returns as new a block in use.       *)
InUse(h) == h \in DOMAIN blocks /\ ~blocks[h].is_free
Moved(h) == call' = <<"krealloc", h>> /\ result' \notin {NULL, h + Header}
LiveUntouched ==
    [][/\ \A h \in DOMAIN blocks : InUse(h) =>
            \/ InUse(h)' /\ blocks'[h].size = blocks[h].size
            \/ call' = <<"kfree", h>> \/ Moved(h)
       /\ \A h \in DOMAIN blocks' : InUse(h)' /\ ~InUse(h) => result' = h + Header
       /\ call'[1] = "kmalloc" \/ Moved(call'[2]) => ~InUse(result' - Header)]_vars

=============================================================================
