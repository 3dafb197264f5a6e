-------------------------------- MODULE Pmm --------------------------------
(***************************************************************************)
(* The physical page allocator of kernel/mm/pmm.c: a buddy system.         *)
(*                                                                         *)
(* Addresses are page frame numbers (byte address / PAGE_SIZE).  A call    *)
(* runs to its end under buddy_sys.lock, one loop iteration per step: pc   *)
(* is "split" inside pmm_alloc_pages, "merge" inside pmm_free_pages and    *)
(* "idle" when the lock is free.  No other call starts before the return:  *)
(* there is one CPU, no preemption, and no interrupt handler allocates.    *)
(***************************************************************************)
EXTENDS PageBlocks, FiniteSets, SequencesExt

CONSTANTS
    MAX_ORDER,      \* pmm.h: 11
    memory_start,   \* first page of the interval given to pmm_init
    memory_end      \* first page after it

Orders == 0 .. MAX_ORDER

PAGE_SIZE == 4096

(* The base is a multiple of the largest block (0x01000000 is, for 8 MB    *)
(* blocks): pmm_alloc_pages takes the buddy of an absolute address,        *)
(* pmm_free_pages that of an index relative to the base.                   *)
ASSUME MaxOrderAssumption == MAX_ORDER \in 0 .. 11
ASSUME IntervalAssumption ==
    /\ memory_start \in Nat
    /\ memory_end \in Nat
    /\ memory_start < memory_end
ASSUME BaseAlignedAssumption == memory_start % Pow2(MAX_ORDER) = 0

-----------------------------------------------------------------------------
(* What pmm_init computes from the interval.                               *)

total_pages == memory_end - memory_start

(* One bit per page, in bytes, at the start of the interval.               *)
bitmap_size == (total_pages + 7) \div 8

(* The first block: the end of the bitmap, rounded up to the largest block.*)
first_block ==
    LET bitmap_end == memory_start + (bitmap_size + PAGE_SIZE - 1) \div PAGE_SIZE
    IN  ((bitmap_end + Pow2(MAX_ORDER) - 1) \div Pow2(MAX_ORDER)) * Pow2(MAX_ORDER)

nr_blocks == total_pages \div Pow2(MAX_ORDER)

(* The pages of the blocks that pmm_init hands to the buddy system.        *)
arena_end == first_block + nr_blocks * Pow2(MAX_ORDER)
Arena == first_block .. arena_end - 1

(* No address passes 4 GB.                                                 *)
ASSUME ArenaAssumption == arena_end <= 1048576

-----------------------------------------------------------------------------

VARIABLES
    free_list,      \* free_area[o].free_list: first pages of the free blocks
    nr_free,        \* free_area[o].nr_free
    bitmap,         \* the indices (from memory_start) of the bits that are set
    held,           \* ghost: the blocks <<page, order>> the callers own
    pc,             \* where the running call is
    order,          \* its argument
    current_order,  \* its local of that name
    current_addr,   \* page_addr of pmm_alloc_pages, current_addr of pmm_free_pages
    answer          \* <<order, value>> of the last pmm_alloc_pages, if no free followed

area == <<free_list, nr_free>>
locals == <<pc, order, current_order, current_addr>>
vars == <<free_list, nr_free, bitmap, held, pc, order, current_order, current_addr, answer>>

NoAnswer == <<0, -1>>

Block == Arena \X Orders

(* The bits of n pages from page p on.                                     *)
Indices(p, n) == {i - memory_start : i \in p .. p + n - 1}

find_buddy_pfn_mutant(page_idx, o) == Xor(page_idx, o + 1)
find_buddy_pfn(page_idx, o) == Xor(page_idx, o)

(* list_add pushes at the head; list_del of the i-th entry.                *)
list_add_uncounted(p, o) ==
    /\ free_list' = [free_list EXCEPT ![o] = <<p>> \o @]
    /\ UNCHANGED nr_free

list_add(p, o) ==
    /\ free_list' = [free_list EXCEPT ![o] = <<p>> \o @]
    /\ nr_free' = [nr_free EXCEPT ![o] = @ + 1]

list_del_mutant(i, o) ==
    /\ nr_free' = [nr_free EXCEPT ![o] = @ - 1]
    /\ UNCHANGED free_list

list_del(i, o) ==
    /\ free_list' = [free_list EXCEPT ![o] = RemoveAt(@, i)]
    /\ nr_free' = [nr_free EXCEPT ![o] = @ - 1]

(* The state that pmm_init leaves: the largest blocks, last one first, and *)
(* the bits of all their pages set.                                        *)
Init ==
    /\ free_list = [o \in Orders |->
           IF o = MAX_ORDER
           THEN [i \in 1 .. nr_blocks |-> first_block + (nr_blocks - i) * Pow2(MAX_ORDER)]
           ELSE << >>]
    /\ nr_free = [o \in Orders |-> IF o = MAX_ORDER THEN nr_blocks ELSE 0]
    /\ bitmap = {p - memory_start : p \in Arena}
    /\ held = {}
    /\ pc = "idle"
    /\ order = 0
    /\ current_order = 0
    /\ current_addr = 0
    /\ answer = NoAnswer

(* The running call ends: its locals are dead.                             *)
Return ==
    /\ pc' = "idle"
    /\ order' = 0
    /\ current_order' = 0
    /\ current_addr' = 0

-----------------------------------------------------------------------------
(* uint32_t pmm_alloc_pages(uint32_t order)                                *)

AllocInvalid(o) ==
    /\ pc = "idle"
    /\ o > MAX_ORDER
    /\ answer' = <<o, 0>>
    /\ UNCHANGED <<area, bitmap, held, locals>>

(* The orders the search for a block visits.                              *)
search_mutant(o) == o .. MAX_ORDER - 1
search(o) == o .. MAX_ORDER

AllocOutOfMemory(o) ==
    /\ pc = "idle"
    /\ o \in Orders
    /\ \A k \in search(o) : free_list[k] = << >>
    /\ answer' = <<o, 0>>
    /\ UNCHANGED <<area, bitmap, held, locals>>

(* Take the head of the first list, from this order up, that has a block.  *)
AllocTake(o) ==
    /\ pc = "idle"
    /\ o \in Orders
    /\ \E k \in search(o) :
          /\ free_list[k] # << >>
          /\ \A j \in o .. k - 1 : free_list[j] = << >>
          /\ current_addr' = free_list[k][1]
          /\ current_order' = k
          /\ list_del(1, k)
    /\ pc' = "split"
    /\ order' = o
    /\ UNCHANGED <<bitmap, held, answer>>

split_buddy_mutant == Xor(current_addr, current_order)
split_buddy == Xor(current_addr, current_order - 1)

SplitStep_mutant ==
    /\ pc = "split"
    /\ current_order > order
    /\ bitmap' = bitmap \cup {split_buddy - memory_start}
    /\ UNCHANGED <<area, held, locals, answer>>

(* One iteration of the split loop: the upper half goes back as a free     *)
(* block one order down, and the bit of its first page is set.             *)
SplitStep ==
    /\ pc = "split"
    /\ current_order > order
    /\ current_order' = current_order - 1
    /\ list_add(split_buddy, current_order - 1)
    /\ bitmap' = bitmap \cup {split_buddy - memory_start}
    /\ UNCHANGED <<held, pc, order, current_addr, answer>>

(* The loop is done: the bits of the pages are set, the block is handed out.*)
AllocReturn ==
    /\ pc = "split"
    /\ current_order <= order
    /\ bitmap' = bitmap \cup Indices(current_addr, Pow2(order))
    /\ held' = held \cup {<<current_addr, order>>}
    /\ answer' = <<order, current_addr>>
    /\ Return
    /\ UNCHANGED area

-----------------------------------------------------------------------------
(* void pmm_free_pages(uint32_t page_addr, uint32_t order)                 *)

FreeInvalid(page_addr, o) ==
    /\ pc = "idle"
    /\ o > MAX_ORDER \/ page_addr < memory_start
    /\ answer' = NoAnswer
    /\ UNCHANGED <<area, bitmap, held, locals>>

pages_to_free(o) == Pow2(o)

(* The callers free what they own.  The bits of the pages are cleared.     *)
FreeBegin(page_addr, o) ==
    /\ pc = "idle"
    /\ <<page_addr, o>> \in held
    /\ ~(o > MAX_ORDER \/ page_addr < memory_start)
    /\ held' = held \ {<<page_addr, o>>}
    /\ bitmap' = bitmap \ Indices(page_addr, pages_to_free(o))
    /\ pc' = "merge"
    /\ order' = o
    /\ current_order' = o
    /\ current_addr' = page_addr
    /\ answer' = NoAnswer
    /\ UNCHANGED area

buddy_addr ==
    memory_start + find_buddy_pfn(current_addr - memory_start, current_order)

(* The loop goes on while the buddy is in the free list of its order.      *)
buddy_found_mutant == FALSE
buddy_found ==
    /\ current_order < MAX_ORDER
    /\ buddy_addr \in Range(free_list[current_order])

(* The lower of the two blocks, one order up.                              *)
merged_mutant == <<current_addr, current_order + 1>>
merged ==
    <<IF current_addr > buddy_addr THEN buddy_addr ELSE current_addr, current_order + 1>>

(* One iteration of the merge loop: the buddy leaves its list.             *)
MergeStep ==
    /\ pc = "merge"
    /\ buddy_found
    /\ \E i \in DOMAIN free_list[current_order] :
          /\ free_list[current_order][i] = buddy_addr
          /\ \A j \in 1 .. i - 1 : free_list[current_order][j] # buddy_addr
          /\ list_del(i, current_order)
    /\ current_addr' = merged[1]
    /\ current_order' = merged[2]
    /\ UNCHANGED <<bitmap, held, pc, order, answer>>

(* The loop is done: the merged block joins the list of its order.         *)
FreeReturn ==
    /\ pc = "merge"
    /\ ~buddy_found
    /\ list_add(current_addr, current_order)
    /\ Return
    /\ UNCHANGED <<bitmap, held, answer>>

-----------------------------------------------------------------------------
(* The calls, with the arguments that the first tests turn away: an order  *)
(* one past the limit, an address below the base.                          *)

Call ==
    \/ \E o \in 0 .. MAX_ORDER + 1 :
          \/ AllocInvalid(o)
          \/ AllocOutOfMemory(o)
          \/ AllocTake(o)
          \/ \E page_addr \in {memory_start - 1, memory_start} : FreeInvalid(page_addr, o)
    \/ \E b \in held : FreeBegin(b[1], b[2])

Step == SplitStep \/ AllocReturn \/ MergeStep \/ FreeReturn

Next == Call \/ Step

(* A call that has begun keeps running: nothing preempts it for ever.      *)
Spec == Init /\ [][Next]_vars /\ WF_vars(Step)

-----------------------------------------------------------------------------
(* Properties.                                                             *)

(* The allocator the callers see.                                          *)
PA == INSTANCE PageAllocator
        WITH MaxOrder <- MAX_ORDER, First <- first_block, End <- arena_end

FreeBlocks == {b \in Block : b[1] \in Range(free_list[b[2]])}
InFlight == IF pc = "idle" THEN {} ELSE {<<current_addr, current_order>>}
Blocks == FreeBlocks \cup held \cup InFlight

TypeOK ==
    /\ free_list \in [Orders -> Seq(Arena)]
    /\ nr_free \in [Orders -> Nat]
    /\ bitmap \subseteq {p - memory_start : p \in Arena}
    /\ held \subseteq Block
    /\ pc \in {"idle", "split", "merge"}
    /\ order \in Orders
    /\ current_order \in IF pc = "split" THEN order .. MAX_ORDER ELSE Orders
    /\ current_addr \in IF pc = "idle" THEN {0} ELSE Arena
    /\ answer \in (0 .. MAX_ORDER + 1) \X ({-1, 0} \cup Arena)

(* No page belongs to two blocks: what pmm_alloc_pages returns overlaps    *)
(* nothing that a caller holds or that a free list offers, however the     *)
(* splits and merges went before, and every block is aligned to its size.  *)
NoOverlap ==
    /\ \A b \in Blocks : Aligned(b[1], b[2]) /\ b[1] + Pow2(b[2]) <= arena_end
    /\ \A b, c \in Blocks : b # c => Disjoint(b, c)
    /\ FreeBlocks \cap held = {}
    /\ InFlight \cap (FreeBlocks \cup held) = {}

(* No page is lost: at every loop iteration of pmm_alloc_pages and         *)
(* pmm_free_pages each page of the arena is in a free block, in a block a  *)
(* caller holds, or in the one in flight.                                  *)
NoPageLost ==
    \A p \in Arena : \E b \in Blocks : p \in b[1] .. b[1] + Pow2(b[2]) - 1

(* nr_free counts the entries of its list, and no block is twice in one.   *)
ListsCounted ==
    \A o \in Orders :
        nr_free[o] = Len(free_list[o]) /\ IsInjective(free_list[o])

(* pmm_free_pages coalesces eagerly: below the largest order, a block and  *)
(* its buddy are never both free.                                          *)
NoFreeBuddies ==
    \A b \in FreeBlocks :
        b[2] < MAX_ORDER => <<Xor(b[1], b[2]), b[2]>> \notin FreeBlocks

(* The bit of every page a caller holds is set: a free elsewhere never     *)
(* clears it.                                                              *)
HeldMarked == \A b \in held : Indices(b[1], Pow2(b[2])) \subseteq bitmap

(* pmm_alloc_pages reports "Out of memory" only when the pages that are not *)
(* held contain no aligned run of the size asked for: fragmentation is     *)
(* never the lists' own doing.                                             *)
NoSpuriousOOM ==
    pc = "idle" /\ answer[1] \in Orders /\ answer[2] = 0 => ~PA!Available(answer[1])

(* Splitting and merging, seen from the callers, is an atomic allocator.   *)
ImplementsPageAllocator == PA!Spec

(* The sum of pmm_stats' loop over the orders.                             *)
total_free_pages ==
    LET total[i \in 0 .. MAX_ORDER + 1] ==
            IF i = 0 THEN 0 ELSE total[i - 1] + nr_free[i - 1] * Pow2(i - 1)
    IN  total[MAX_ORDER + 1]
used_pages == total_pages - total_free_pages

(* used_pages, computed from the nr_free counters, is the number of pages  *)
(* that callers hold plus the pages pmm_init never handed to a list.       *)
HeldPages == {p \in Arena : \E b \in held : p \in b[1] .. b[1] + Pow2(b[2]) - 1}
StatsExact ==
    pc = "idle" =>
        used_pages = Cardinality(HeldPages) + (total_pages - Cardinality(Arena))

(* The split and merge loops end, so buddy_sys.lock is always released.    *)
CallReturns == pc # "idle" ~> pc = "idle"

(* What boot_config.h says of the interval given to pmm_init: the buddy    *)
(* system manages that interval, so no block handed out leaves it.         *)
HeldInsideInterval ==
    \A b \in held : b[1] >= memory_start /\ b[1] + Pow2(b[2]) <= memory_end

=============================================================================
