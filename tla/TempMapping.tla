---------------------------- MODULE TempMapping ----------------------------
(***************************************************************************)
(* Temporary mappings, kernel/mm/temp_mapping.c: a few fixed virtual pages *)
(* through which the kernel touches any physical page.                     *)
(*                                                                         *)
(* The manager is a value, t, so that a caller can chain several calls in  *)
(* one step; each call takes and releases temp_mgr.lock.  Virtual and      *)
(* physical addresses are page numbers, so the test for an aligned address *)
(* always passes: pmm gives pages, and the boot loader is asked (FLAGS in  *)
(* loader.asm) to align modules.                                           *)
(***************************************************************************)
EXTENDS Integers, FiniteSetsExt

CONSTANTS
    TEMP_MAPPING_COUNT,     \* 4
    Frames                  \* the physical pages a caller may map

(* A creation maps up to three pages at once; the slots share one table.   *)
ASSUME CountAssumption == TEMP_MAPPING_COUNT \in 3 .. 1024
ASSUME FramesAssumption == 0 \notin Frames /\ -1 \notin Frames

TEMP_MAPPING_ADDR == 787455             \* 0xC03FF000 / PAGE_SIZE
TempSlots == 0 .. TEMP_MAPPING_COUNT - 1
NoFrame == 0                            \* a page table entry that is not present
BootFrame == -1                         \* what the loader's tables map there

(* The page directory entries that loader.asm fills: 128 MB at 0 and at    *)
(* 0xC0000000, and the directory itself.  Then entry 769 is given a table  *)
(* of its own, of the first four pages of memory.                          *)
pde(v) == v \div 1024
KernelEntries == (768 .. 799) \cup {1023}
BootEntries == (0 .. 31) \cup KernelEntries
boot_mapped(v) == pde(v) \in BootEntries /\ (pde(v) = 769 => v % 1024 < 4)

temp_mapping_init ==
    [lock |-> FALSE, available_slots |-> TempSlots,
     ref_count |-> [i \in TempSlots |-> 0],
     pte |-> [i \in TempSlots |-> BootFrame]]

slot_addr(slot) == TEMP_MAPPING_ADDR - slot

(* Every call returns the manager and a virtual page, 0 when no slot is    *)
(* free.                                                                   *)
Result(t, va) == [mgr |-> t, va |-> va]

(* map_page.  A missing page table is allocated and then cleared through   *)
(* temp_map_page, which waits for the lock that its caller holds.          *)
map_page(t, slot, frame) ==
    IF pde(slot_addr(slot)) \in BootEntries THEN [t EXCEPT !.pte[slot] = frame]
    ELSE [t EXCEPT !.lock = TRUE]

temp_map_page_mutant(t, frame) ==
    IF t.available_slots = {} THEN Result(t, 0)
    ELSE LET slot == Min(t.available_slots) IN
         Result([map_page(t, slot, frame) EXCEPT !.ref_count[slot] = 1], slot_addr(slot))

temp_map_page(t, frame) ==
    IF t.available_slots = {} THEN Result(t, 0)
    ELSE LET slot == Min(t.available_slots)
             m    == map_page(t, slot, frame)
         IN  IF m.lock THEN Result(m, 0)
             ELSE Result([m EXCEPT !.available_slots = @ \ {slot},
                                   !.ref_count[slot] = @ + 1],
                         slot_addr(slot))

(* The slot is freed with its last reference.                              *)
temp_unmap_page(t, va) ==
    IF va \notin {slot_addr(i) : i \in TempSlots} THEN t
    ELSE LET slot == TEMP_MAPPING_ADDR - va IN
         IF t.ref_count[slot] = 0 THEN t
         ELSE IF t.ref_count[slot] > 1 THEN [t EXCEPT !.ref_count[slot] = @ - 1]
         ELSE [t EXCEPT !.ref_count[slot] = 0,
                        !.pte[slot] = NoFrame,
                        !.available_slots = @ \cup {slot}]

(* What the kernel reads through a virtual page of the region.             *)
frame_at(t, va) == t.pte[TEMP_MAPPING_ADDR - va]

TempTypeOK(t) ==
    t \in [lock : BOOLEAN, available_slots : SUBSET TempSlots,
           ref_count : [TempSlots -> 0 .. 1],
           pte : [TempSlots -> Frames \cup {NoFrame, BootFrame}]]

=============================================================================
