--------------------------- MODULE Process_proofs ---------------------------
(***************************************************************************)
(* Proofs about temporary mappings, processes and boot modules, for every  *)
(* number of pages, slots and processes, every choice of page by the       *)
(* allocator, and all lists of modules.                                    *)
(***************************************************************************)
EXTENDS Process, NumberRecursion

-----------------------------------------------------------------------------
(* Constants.                                                              *)

LEMMA Constants ==
    /\ 0 \notin Frames /\ -1 \notin Frames /\ Pages \subseteq Frames /\ Pages \subseteq Nat
    /\ TestPages \subseteq Pages /\ Missing \notin Modules
    /\ MAX_PROCESSES \in Nat /\ MAX_PROCESSES > 0
    /\ None \notin Pages /\ BootFrame \notin Pages
    BY FramesAssumption, ProcessAssumption DEF None, BootFrame

(* The smallest element of a set of numbers.                               *)
LEMMA MinOf ==
    ASSUME NEW S \in SUBSET Nat, S # {}
    PROVE  Min(S) \in S /\ \A i \in S : Min(S) <= i
    BY Smallest DEF Min

-----------------------------------------------------------------------------
(* The slots of temporary mappings.                                        *)

Addresses == {slot_addr(i) : i \in TempSlots}

(* The manager t with the slots of S in use, each by one user.             *)
Clean(t, S) ==
    /\ TempTypeOK(t) /\ t.lock = FALSE
    /\ S \subseteq TempSlots
    /\ t.available_slots = TempSlots \ S
    /\ \A i \in TempSlots : t.ref_count[i] = IF i \in S THEN 1 ELSE 0

LEMMA SlotFacts ==
    /\ TempSlots \subseteq Nat /\ 0 \in TempSlots /\ 1 \in TempSlots /\ 2 \in TempSlots
    /\ \A i \in TempSlots :
        /\ slot_addr(i) \in Nat /\ slot_addr(i) # 0 /\ slot_addr(i) \in Addresses
        /\ TEMP_MAPPING_ADDR - slot_addr(i) = i
        /\ pde(slot_addr(i)) \in BootEntries
    /\ \A i, j \in TempSlots : slot_addr(i) = slot_addr(j) => i = j
    /\ 0 \notin Addresses
<1>1. /\ TempSlots \subseteq Nat /\ 0 \in TempSlots /\ 1 \in TempSlots /\ 2 \in TempSlots
      /\ \A i \in TempSlots : i <= 1023
    BY CountAssumption DEF TempSlots
<1>2. ASSUME NEW i \in TempSlots
      PROVE  /\ slot_addr(i) \in 786432 .. 787455
             /\ TEMP_MAPPING_ADDR - slot_addr(i) = i
    BY <1>1 DEF slot_addr, TEMP_MAPPING_ADDR
<1>3. ASSUME NEW v \in 786432 .. 787455
      PROVE  pde(v) = 768
    BY DEF pde
<1>4. \A i \in TempSlots : pde(slot_addr(i)) \in BootEntries
    BY <1>2, <1>3 DEF BootEntries, KernelEntries
<1>5. \A i, j \in TempSlots : slot_addr(i) = slot_addr(j) => i = j
    BY <1>2
<1>6. \A i \in TempSlots :
        slot_addr(i) \in Nat /\ slot_addr(i) # 0 /\ slot_addr(i) \in Addresses
    BY <1>2 DEF Addresses
<1>7. 0 \notin Addresses
    BY <1>6 DEF Addresses
<1> QED
    BY <1>1, <1>2, <1>4, <1>5, <1>6, <1>7

Manager == [lock : BOOLEAN, available_slots : SUBSET TempSlots,
            ref_count : [TempSlots -> 0 .. 1],
            pte : [TempSlots -> Frames \cup {NoFrame, BootFrame}]]

(* A mapping takes a free slot and leaves the others alone.                *)
LEMMA MapFacts ==
    ASSUME NEW t, NEW S, Clean(t, S), S # TempSlots, NEW f \in Frames
    PROVE  \E s \in TempSlots \ S :
            /\ s = Min(TempSlots \ S)
            /\ temp_map_page(t, f).va = slot_addr(s)
            /\ Clean(temp_map_page(t, f).mgr, S \cup {s})
            /\ temp_map_page(t, f).mgr.pte = [t.pte EXCEPT ![s] = f]
<1> DEFINE s == Min(TempSlots \ S)
           m == map_page(t, s, f)
           r == [m EXCEPT !.available_slots = @ \ {s}, !.ref_count[s] = @ + 1]
<1>1. s \in TempSlots \ S /\ t.available_slots = TempSlots \ S /\ TempSlots \ S # {}
  <2>1. TempSlots \ S \subseteq Nat /\ TempSlots \ S # {}
    BY SlotFacts DEF Clean
  <2> QED
    BY <2>1, MinOf DEF Clean
<1> HIDE DEF s
<1>2. t \in Manager /\ t.lock = FALSE
    BY DEF Clean, TempTypeOK, Manager
<1>3. m = [t EXCEPT !.pte[s] = f]
    BY <1>1, SlotFacts DEF map_page
<1>4. /\ m \in Manager /\ m.lock = FALSE /\ m.available_slots = t.available_slots
      /\ m.ref_count = t.ref_count /\ m.pte = [t.pte EXCEPT ![s] = f]
    BY <1>1, <1>2, <1>3 DEF Manager
<1> HIDE DEF m
<1>5. t.ref_count[s] = 0
    BY <1>1 DEF Clean
<1>6. /\ r.lock = FALSE /\ r.available_slots = t.available_slots \ {s}
      /\ r.ref_count = [t.ref_count EXCEPT ![s] = 1] /\ r.pte = m.pte
      /\ r \in Manager
  <2>1. m.ref_count[s] + 1 = 1
    BY <1>4, <1>5
  <2>2. r = [m EXCEPT !.available_slots = m.available_slots \ {s},
                      !.ref_count = [m.ref_count EXCEPT ![s] = 1]]
    BY <2>1, <1>4 DEF Manager
  <2> HIDE DEF r
  <2>3. m.available_slots \ {s} \in SUBSET TempSlots
    BY <1>4 DEF Manager
  <2>4. [m.ref_count EXCEPT ![s] = 1] \in [TempSlots -> 0 .. 1]
    <3>1. m.ref_count \in [TempSlots -> 0 .. 1] /\ 1 \in 0 .. 1
      BY <1>4 DEF Manager
    <3> QED
      BY <3>1
  <2> QED
    BY <1>4, <2>2, <2>3, <2>4 DEF Manager
<1>7. temp_map_page(t, f) = Result(r, slot_addr(s))
    BY <1>1, <1>4 DEF temp_map_page, s, m
<1> HIDE DEF r
<1>8. Clean(r, S \cup {s})
  <2>1. \A i \in TempSlots : r.ref_count[i] = IF i \in S \cup {s} THEN 1 ELSE 0
    <3>1. t.ref_count \in [TempSlots -> 0 .. 1]
      BY <1>2 DEF Manager
    <3> QED
      BY <1>1, <1>6, <3>1 DEF Clean
  <2>2. r.available_slots = TempSlots \ (S \cup {s})
    BY <1>1, <1>6
  <2> QED
    BY <1>1, <1>6, <2>1, <2>2 DEF Clean, TempTypeOK, Manager
<1>9. Result(r, slot_addr(s)).va = slot_addr(s) /\ Result(r, slot_addr(s)).mgr = r
    BY DEF Result
<1>10. /\ temp_map_page(t, f).va = slot_addr(s)
       /\ Clean(temp_map_page(t, f).mgr, S \cup {s})
       /\ temp_map_page(t, f).mgr.pte = [t.pte EXCEPT ![s] = f]
    BY <1>4, <1>6, <1>7, <1>8, <1>9
<1>11. s = Min(TempSlots \ S)
    BY DEF s
<1> QED
    BY <1>1, <1>10, <1>11

LEMMA UnmapFacts ==
    ASSUME NEW t, NEW S, Clean(t, S), NEW s \in S
    PROVE  /\ Clean(temp_unmap_page(t, slot_addr(s)), S \ {s})
           /\ temp_unmap_page(t, slot_addr(s)).pte = [t.pte EXCEPT ![s] = NoFrame]
<1> DEFINE r == [t EXCEPT !.ref_count[s] = 0, !.pte[s] = NoFrame,
                          !.available_slots = @ \cup {s}]
<1>1. s \in TempSlots /\ t \in Manager /\ t.ref_count[s] = 1 /\ t.lock = FALSE
      /\ t.available_slots = TempSlots \ S
    BY DEF Clean, TempTypeOK, Manager
<1>2. temp_unmap_page(t, slot_addr(s)) = r
  <2>1. slot_addr(s) \in Addresses /\ TEMP_MAPPING_ADDR - slot_addr(s) = s
    BY <1>1, SlotFacts
  <2>2. ~(t.ref_count[s] = 0) /\ ~(t.ref_count[s] > 1)
    BY <1>1
  <2> HIDE DEF r
  <2> QED
    BY <2>1, <2>2 DEF temp_unmap_page, Addresses, r
<1>3. r = [t EXCEPT !.ref_count = [t.ref_count EXCEPT ![s] = 0],
                    !.pte = [t.pte EXCEPT ![s] = NoFrame],
                    !.available_slots = t.available_slots \cup {s}]
    BY <1>1 DEF Manager
<1> HIDE DEF r
<1>4. /\ [t.ref_count EXCEPT ![s] = 0] \in [TempSlots -> 0 .. 1]
      /\ [t.pte EXCEPT ![s] = NoFrame] \in [TempSlots -> Frames \cup {NoFrame, BootFrame}]
      /\ t.available_slots \cup {s} \in SUBSET TempSlots
    BY <1>1 DEF Manager
<1>5. /\ r \in Manager /\ r.lock = FALSE /\ r.available_slots = t.available_slots \cup {s}
      /\ r.ref_count = [t.ref_count EXCEPT ![s] = 0] /\ r.pte = [t.pte EXCEPT ![s] = NoFrame]
    BY <1>1, <1>3, <1>4 DEF Manager
<1>6. \A i \in TempSlots : r.ref_count[i] = IF i \in S \ {s} THEN 1 ELSE 0
  <2>1. t.ref_count \in [TempSlots -> 0 .. 1]
    BY <1>1 DEF Manager
  <2> QED
    BY <1>1, <1>5, <2>1 DEF Clean
<1>7. S \ {s} \subseteq TempSlots /\ r.available_slots = TempSlots \ (S \ {s})
    BY <1>1, <1>5 DEF Clean
<1> QED
    BY <1>2, <1>5, <1>6, <1>7 DEF Clean, TempTypeOK, Manager

(* Anything else is left alone.                                            *)
LEMMA UnmapNothing ==
    ASSUME NEW t, NEW S, Clean(t, S), NEW va, \A s \in S : va # slot_addr(s)
    PROVE  temp_unmap_page(t, va) = t
<1>1. CASE va \notin Addresses
    BY <1>1 DEF temp_unmap_page, Addresses
<1>2. ASSUME NEW s \in TempSlots, va = slot_addr(s)
      PROVE  temp_unmap_page(t, va) = t
  <2>1. t.ref_count[s] = 0 /\ TEMP_MAPPING_ADDR - va = s
    BY <1>2, SlotFacts DEF Clean
  <2> QED
    BY <2>1 DEF temp_unmap_page
<1> QED
    BY <1>1, <1>2 DEF Addresses

LEMMA PteType ==
    ASSUME NEW t, NEW S, Clean(t, S)
    PROVE  t.pte \in [TempSlots -> Frames \cup {NoFrame, BootFrame}]
    BY DEF Clean, TempTypeOK

(* Memory through a slot.                                                  *)
LEMMA AtSlot ==
    ASSUME NEW t, NEW s \in TempSlots
    PROVE  At(t, slot_addr(s)) = t.pte[s]
    BY SlotFacts DEF At, frame_at

(* The slots that a creation takes: the lowest ones first.                 *)
S_None == {}
S_0 == {0}
S_1 == {1}
S_01 == {0, 1}
S_012 == {0, 1, 2}

LEMMA SlotSets ==
    /\ S_0 = S_None \cup {0} /\ S_01 = S_0 \cup {1} /\ S_012 = S_01 \cup {2}
    /\ S_None = S_0 \ {0} /\ S_None = S_1 \ {1} /\ S_0 = S_01 \ {1} /\ S_1 = S_01 \ {0}
    /\ S_01 = S_012 \ {2}
    /\ 0 \in S_0 /\ 1 \in S_1 /\ 0 \in S_01 /\ 1 \in S_01 /\ 2 \in S_012
    BY DEF S_None, S_0, S_1, S_01, S_012

LEMMA LowestSlots ==
    /\ Min(TempSlots \ S_None) = 0 /\ Min(TempSlots \ S_0) = 1 /\ Min(TempSlots \ S_01) = 2
    /\ S_None # TempSlots /\ S_0 # TempSlots /\ S_01 # TempSlots
<1>1. ASSUME NEW S \in SUBSET TempSlots, NEW k \in TempSlots \ S,
             \A i \in TempSlots \ S : k <= i
      PROVE  Min(TempSlots \ S) = k
  <2>1. TempSlots \ S \subseteq Nat /\ TempSlots \ S # {}
    BY SlotFacts
  <2>2. Min(TempSlots \ S) \in TempSlots \ S /\ Min(TempSlots \ S) <= k
    BY <2>1, MinOf
  <2>3. k <= Min(TempSlots \ S) /\ k \in Nat /\ Min(TempSlots \ S) \in Nat
    BY <1>1, <2>1, <2>2
  <2> QED
    BY <2>2, <2>3
<1>2. 0 \in TempSlots /\ 1 \in TempSlots /\ 2 \in TempSlots /\ TempSlots \subseteq Nat
    BY SlotFacts
<1>3. /\ S_None \in SUBSET TempSlots /\ 0 \in TempSlots \ S_None
      /\ \A i \in TempSlots \ S_None : 0 <= i
    BY <1>2 DEF S_None
<1>4. /\ S_0 \in SUBSET TempSlots /\ 1 \in TempSlots \ S_0 /\ \A i \in TempSlots \ S_0 : 1 <= i
    BY <1>2 DEF S_0
<1>5. /\ S_01 \in SUBSET TempSlots /\ 2 \in TempSlots \ S_01
      /\ \A i \in TempSlots \ S_01 : 2 <= i
    BY <1>2 DEF S_01
<1>6. Min(TempSlots \ S_None) = 0 /\ Min(TempSlots \ S_0) = 1 /\ Min(TempSlots \ S_01) = 2
    BY <1>1, <1>3, <1>4, <1>5
<1> QED
    BY <1>3, <1>4, <1>5, <1>6

(* The page table of u is that of t but for slot s, which maps f.          *)
Points(u, t, s, f) == u.pte = [t.pte EXCEPT ![s] = f]

LEMMA MapIn ==
    ASSUME NEW t, NEW S, Clean(t, S), S # TempSlots, NEW f \in Frames
    PROVE  /\ temp_map_page(t, f).va = slot_addr(Min(TempSlots \ S))
           /\ Clean(temp_map_page(t, f).mgr, S \cup {Min(TempSlots \ S)})
           /\ Points(temp_map_page(t, f).mgr, t, Min(TempSlots \ S), f)
<1>1. PICK s \in TempSlots \ S :
        /\ s = Min(TempSlots \ S)
        /\ temp_map_page(t, f).va = slot_addr(s)
        /\ Clean(temp_map_page(t, f).mgr, S \cup {s})
        /\ temp_map_page(t, f).mgr.pte = [t.pte EXCEPT ![s] = f]
    BY MapFacts, Zenon
<1> QED
    BY <1>1 DEF Points

(* The three mappings that a creation may hold at once.                    *)
LEMMA MapFirst ==
    ASSUME NEW t, Clean(t, S_None), NEW f \in Frames
    PROVE  /\ temp_map_page(t, f).va = slot_addr(0)
           /\ Clean(temp_map_page(t, f).mgr, S_0)
           /\ temp_map_page(t, f).mgr.pte[0] = f
<1>1. S_None # TempSlots /\ Min(TempSlots \ S_None) = 0 /\ S_None \cup {0} = S_0
    BY LowestSlots, SlotSets
<1>2. /\ temp_map_page(t, f).va = slot_addr(Min(TempSlots \ S_None))
      /\ Clean(temp_map_page(t, f).mgr, S_None \cup {Min(TempSlots \ S_None)})
      /\ Points(temp_map_page(t, f).mgr, t, Min(TempSlots \ S_None), f)
    BY <1>1, MapIn, Zenon
<1>3. /\ temp_map_page(t, f).va = slot_addr(0)
      /\ Clean(temp_map_page(t, f).mgr, S_0)
      /\ temp_map_page(t, f).mgr.pte = [t.pte EXCEPT ![0] = f]
    BY <1>1, <1>2 DEF Points
<1> QED
    BY <1>3, PteType, SlotFacts

LEMMA MapSecond ==
    ASSUME NEW t, Clean(t, S_0), NEW f \in Frames
    PROVE  /\ temp_map_page(t, f).va = slot_addr(1)
           /\ Clean(temp_map_page(t, f).mgr, S_01)
           /\ temp_map_page(t, f).mgr.pte[0] = t.pte[0]
           /\ temp_map_page(t, f).mgr.pte[1] = f
<1>1. S_0 # TempSlots /\ Min(TempSlots \ S_0) = 1 /\ S_0 \cup {1} = S_01
    BY LowestSlots, SlotSets
<1>2. /\ temp_map_page(t, f).va = slot_addr(Min(TempSlots \ S_0))
      /\ Clean(temp_map_page(t, f).mgr, S_0 \cup {Min(TempSlots \ S_0)})
      /\ Points(temp_map_page(t, f).mgr, t, Min(TempSlots \ S_0), f)
    BY <1>1, MapIn, Zenon
<1>3. /\ temp_map_page(t, f).va = slot_addr(1)
      /\ Clean(temp_map_page(t, f).mgr, S_01)
      /\ temp_map_page(t, f).mgr.pte = [t.pte EXCEPT ![1] = f]
    BY <1>1, <1>2 DEF Points
<1> QED
    BY <1>3, PteType, SlotFacts

LEMMA MapThird ==
    ASSUME NEW t, Clean(t, S_01), NEW f \in Frames
    PROVE  /\ temp_map_page(t, f).va = slot_addr(2)
           /\ Clean(temp_map_page(t, f).mgr, S_012)
<1>1. S_01 # TempSlots /\ Min(TempSlots \ S_01) = 2 /\ S_01 \cup {2} = S_012
    BY LowestSlots, SlotSets
<1>2. /\ temp_map_page(t, f).va = slot_addr(Min(TempSlots \ S_01))
      /\ Clean(temp_map_page(t, f).mgr, S_01 \cup {Min(TempSlots \ S_01)})
    BY <1>1, MapIn, Zenon
<1> QED
    BY <1>1, <1>2

(* Unmapping in either order.                                              *)
LEMMA UnmapIn ==
    ASSUME NEW t, NEW S, NEW R, NEW s, s \in S, Clean(t, S), R = S \ {s}
    PROVE  /\ Clean(temp_unmap_page(t, slot_addr(s)), R)
           /\ temp_unmap_page(t, slot_addr(s)).pte = [t.pte EXCEPT ![s] = NoFrame]
    BY UnmapFacts

LEMMA UnmapOne ==
    ASSUME NEW t
    PROVE  /\ Clean(t, S_0) => Clean(temp_unmap_page(t, slot_addr(0)), S_None)
           /\ Clean(t, S_1) => Clean(temp_unmap_page(t, slot_addr(1)), S_None)
           /\ Clean(t, S_01) => Clean(temp_unmap_page(t, slot_addr(0)), S_1)
           /\ Clean(t, S_01) => Clean(temp_unmap_page(t, slot_addr(1)), S_0)
           /\ Clean(t, S_012) => Clean(temp_unmap_page(t, slot_addr(2)), S_01)
    BY UnmapIn, SlotSets

LEMMA UnmapSecond ==
    ASSUME NEW t, Clean(t, S_01)
    PROVE  temp_unmap_page(t, slot_addr(1)).pte[0] = t.pte[0]
<1>1. temp_unmap_page(t, slot_addr(1)).pte = [t.pte EXCEPT ![1] = NoFrame]
    BY UnmapIn, SlotSets
<1> QED
    BY <1>1, PteType, SlotFacts

-----------------------------------------------------------------------------
(* The inductive invariant.                                                *)

(* Where a creation is when it has the pages that job names.               *)
Creating == {"code", "stack", "code_table", "stack_table", "fill", "copy", "kernel_stack"}
WithCode == Creating \ {"code"}
WithStack == WithCode \ {"stack"}
WithCodeTable == WithStack \ {"code_table"}
WithStackTable == WithCodeTable \ {"stack_table"}
Filled == {"copy", "kernel_stack"}
Holding == {"code_table", "stack_table", "fill"}
Labels == {"modules", "files", "tests", "idle"} \cup Creating

Jobs == [module : Modules \cup {Missing}, dir : Pages \cup {None}, code : Pages \cup {None},
         stack : Pages \cup {None}, code_table : Pages \cup {None},
         stack_table : Pages \cup {None}, temp_page_dir : Nat]

(* The pages of a creation are there from the step that asks for them on,  *)
(* and no two are the same.                                                *)
JobOK ==
    /\ pc \in Labels
    /\ job \in Jobs
    /\ pc \in Creating => job.module \in Modules /\ cr3 = None /\ next_pid <= MAX_PROCESSES
    /\ job.dir # None <=> pc \in Creating
    /\ job.code # None <=> pc \in WithCode
    /\ job.stack # None <=> pc \in WithStack
    /\ job.code_table # None <=> pc \in WithCodeTable
    /\ job.stack_table # None <=> pc \in WithStackTable
    /\ job.code # None => job.code # job.dir
    /\ job.stack # None => job.stack \notin {job.dir, job.code}
    /\ job.code_table # None => job.code_table \notin {job.dir, job.code, job.stack}
    /\ job.stack_table # None =>
        job.stack_table \notin {job.dir, job.code, job.stack, job.code_table}

(* The slots in use are those of the self tests and then, while it fills   *)
(* its tables, the creation's, which is the first one.                     *)
UsedSlots ==
    IF pc \in Holding THEN S_0 ELSE {i \in TempSlots : slot_addr(i) \in DOMAIN users}

SlotsOK ==
    /\ Clean(temp_mgr, UsedSlots)
    /\ pc # "tests" => DOMAIN users = {}
    /\ DOMAIN users \subseteq Addresses
    /\ \A va \in DOMAIN users : frame_at(temp_mgr, va) = users[va]
    /\ pc \in Holding => job.temp_page_dir = slot_addr(0) /\ temp_mgr.pte[0] = job.dir
    /\ fault # "null"

(* A directory as vmm.c fills it, in the page tables E, and its pages.     *)
Built(E, d) ==
    /\ d \in Pages
    /\ DOMAIN E[d] = KernelEntries \cup {0, 1022}
    /\ \A e \in KernelEntries : E[d][e] = BootFrame
    /\ E[d][0] \in Pages /\ E[d][1022] \in Pages
    /\ DOMAIN E[E[d][0]] = {0} /\ E[E[d][0]][0] \in Pages
    /\ DOMAIN E[E[d][1022]] = {1023} /\ E[E[d][1022]][1023] \in Pages

SpacePages(E, d) == {d, E[d][0], E[d][1022], E[E[d][0]][0], E[E[d][1022]][1023]}

KernelDirectory == [e \in KernelEntries |-> BootFrame]

(* The page tables: of processes, and of the creation.                     *)
SpacesOK ==
    /\ DOMAIN entries = Frames
    /\ \A i \in Live : Built(entries, processes[i].page_directory)
    /\ pc \in Creating \ Filled => entries[job.dir] = KernelDirectory
    /\ pc \in Filled =>
        /\ Built(entries, job.dir)
        /\ SpacePages(entries, job.dir) =
            {job.dir, job.code, job.stack, job.code_table, job.stack_table}
        /\ entries[entries[job.dir][0]][0] = job.code

(* Entries of the process table are taken in the order of the pids, and    *)
(* are not given back; the processor runs in the directory of one.         *)
TableOK ==
    /\ \A i \in PcbSlots : processes[i].state = "UNUSED" <=> i >= next_pid
    /\ \A i \in PcbSlots : processes[i].state # "TERMINATED"
    /\ \A i \in Live : processes[i].kernel_stack \in Pages /\ processes[i].module \in Modules
    /\ cr3 # None => \E i \in Live : processes[i].page_directory = cr3

(* The pages of process i, and of all of them.                             *)
PagesOf(i) ==
    SpacePages(entries, processes[i].page_directory) \cup {processes[i].kernel_stack}
UsedPages == UNION {PagesOf(i) : i \in Live}

(* Each page is in one place.                                              *)
PagesOK ==
    /\ given = free \cup lost \cup InFlight \cup UsedPages
    /\ UsedPages \cap (free \cup lost \cup InFlight) = {}
    /\ \A i, j \in Live : i # j => PagesOf(i) \cap PagesOf(j) = {}
    /\ free \cap (lost \cup InFlight) = {}
    /\ lost \cap InFlight = {}

OnePage(m) == Len(ModulePages[m]) = 1

(* What the pages of modules of one page hold, and their copies.           *)
ContentOK ==
    /\ \A m \in Modules : OnePage(m) => content[ModulePages[m][1]] = <<m, 1>>
    /\ \A i \in Live : OnePage(processes[i].module) =>
        content[entries[entries[processes[i].page_directory][0]][0]] = <<processes[i].module, 1>>
    /\ pc = "kernel_stack" /\ OnePage(job.module) => content[job.code] = <<job.module, 1>>

Table == [name : Seq(STRING), image : Modules]

(* The names of modules fit, so files have the same ones.                  *)
NamesOK ==
    /\ modules \in Seq(Table)
    /\ Len(modules) <= MAX_RAMFS_FILES
    /\ \A i \in DOMAIN modules : Len(modules[i].name) < MAX_PATH
    /\ pc \notin {"modules", "files"} => files = modules

IInv ==
    /\ TypeOK
    /\ JobOK
    /\ SlotsOK
    /\ SpacesOK
    /\ TableOK
    /\ PagesOK
    /\ ContentOK
    /\ NamesOK

-----------------------------------------------------------------------------
(* What the invariant implies.                                             *)

LEMMA TargetsOne ==
    ASSUME NEW f, NEW e, DOMAIN f = {e}, f[e] \in Pages
    PROVE  Targets(f) = {f[e]}
<1>1. f[e] # BootFrame
    BY Constants
<1> QED
    BY <1>1 DEF Targets

LEMMA ReachBuilt ==
    ASSUME NEW d, Built(entries, d)
    PROVE  Reach(d) = SpacePages(entries, d)
<1> DEFINE E == entries
           c == E[d][0]
           s == E[d][1022]
<1>1. c \in Pages /\ s \in Pages /\ c # BootFrame /\ s # BootFrame
    BY Constants DEF Built
<1>2. Targets(E[d]) = {c, s}
  <2>1. Targets(E[d]) = {E[d][e] : e \in KernelEntries \cup {0, 1022}} \ {BootFrame}
    BY DEF Targets, Built
  <2>2. \A e \in KernelEntries : E[d][e] = BootFrame
    BY DEF Built
  <2> QED
    BY <1>1, <2>1, <2>2
<1>3. Targets(E[c]) = {E[c][0]} /\ Targets(E[s]) = {E[s][1023]}
    BY TargetsOne DEF Built
<1>4. Reach(d) = {d} \cup {c, s} \cup UNION {Targets(E[t]) : t \in {c, s}}
    BY <1>2 DEF Reach
<1> HIDE DEF E, c, s
<1>5. UNION {Targets(E[t]) : t \in {c, s}} = {E[c][0], E[s][1023]}
    BY <1>3
<1>6. SpacePages(entries, d) = {d, c, s, E[c][0], E[s][1023]}
    BY DEF SpacePages, E, c, s
<1> QED
    BY <1>4, <1>5, <1>6

LEMMA OwnedPages ==
    ASSUME SpacesOK
    PROVE  \A i \in Live : Owned(i) = PagesOf(i)
    BY ReachBuilt DEF SpacesOK, Owned, PagesOf

LEMMA AccountsFollow ==
    ASSUME SpacesOK, PagesOK
    PROVE  PagesAccounted /\ Isolated
<1>1. \A i \in Live : Owned(i) = PagesOf(i)
    BY OwnedPages
<1>2. UNION {Owned(i) : i \in Live} = UsedPages
    BY <1>1 DEF UsedPages
<1>3. \A i \in Live : PagesOf(i) \subseteq UsedPages
    BY DEF UsedPages
<1>4. PagesAccounted
    BY <1>2 DEF PagesOK, PagesAccounted
<1>5. \A i \in Live : Owned(i) \cap (free \cup lost \cup InFlight) = {}
    BY <1>1, <1>3 DEF PagesOK
<1>6. \A i, j \in Live : i # j => Owned(i) \cap Owned(j) = {}
    BY <1>1 DEF PagesOK
<1> QED
    BY <1>4, <1>5, <1>6 DEF PagesOK, Isolated

LEMMA SlotsFollow ==
    ASSUME JobOK, SlotsOK
    PROVE  SlotsAgree /\ SlotsReturned
<1>1. CASE pc \in Holding
  <2>1. DOMAIN users = {} /\ UsedSlots = S_0
    BY <1>1 DEF SlotsOK, UsedSlots, Holding
  <2>2. DOMAIN InUse = {slot_addr(0)} /\ InUse[slot_addr(0)] = job.dir
    BY <1>1, <2>1 DEF InUse, put, Holding, SlotsOK
  <2>3. TempSlots \ temp_mgr.available_slots = S_0 /\ S_0 \subseteq TempSlots
    BY <2>1 DEF SlotsOK, Clean
  <2>4. DOMAIN InUse = {slot_addr(i) : i \in TempSlots \ temp_mgr.available_slots}
    BY <2>2, <2>3 DEF S_0
  <2>5. frame_at(temp_mgr, slot_addr(0)) = job.dir
    BY <1>1, SlotFacts DEF SlotsOK, frame_at
  <2>6. \A i \in TempSlots : temp_mgr.ref_count[i] = 0 <=> i \in temp_mgr.available_slots
    BY DEF SlotsOK, Clean
  <2>7. SlotsAgree
    BY <2>2, <2>4, <2>5, <2>6 DEF SlotsAgree
  <2> QED
    BY <1>1, <2>7 DEF SlotsReturned, SlotsOK, Clean, Holding
<1>2. CASE pc \notin Holding
  <2>1. /\ UsedSlots = {i \in TempSlots : slot_addr(i) \in DOMAIN users}
        /\ InUse = users
    BY <1>2 DEF InUse, UsedSlots, Holding
  <2>2. TempSlots \ temp_mgr.available_slots = UsedSlots
    BY DEF SlotsOK, Clean
  <2>3. DOMAIN InUse = {slot_addr(i) : i \in TempSlots \ temp_mgr.available_slots}
    BY <2>1, <2>2 DEF SlotsOK, Addresses
  <2>6. \A i \in TempSlots : temp_mgr.ref_count[i] = 0 <=> i \in temp_mgr.available_slots
    BY DEF SlotsOK, Clean
  <2>7. SlotsAgree
    BY <2>1, <2>3, <2>6 DEF SlotsAgree, SlotsOK
  <2>8. pc = "idle" => temp_mgr.available_slots = TempSlots
    BY <2>1 DEF SlotsOK, Clean
  <2> QED
    BY <2>7, <2>8 DEF SlotsReturned, SlotsOK, Clean
<1> QED
    BY <1>1, <1>2

LEMMA ImagesFollow ==
    ASSUME SpacesOK, ContentOK
    PROVE  ImageLoaded
<1> SUFFICES ASSUME NEW i \in Live, Len(ModulePages[processes[i].module]) = 1
             PROVE  /\ mapped(processes[i].page_directory, 0)
                    /\ content[entries[entries[processes[i].page_directory][0]][0]] =
                            <<processes[i].module, 1>>
    BY DEF ImageLoaded
<1>1. pde(0) = 0 /\ 0 % 1024 = 0
    BY DEF pde
<1>2. Built(entries, processes[i].page_directory)
    BY DEF SpacesOK
<1>3. mapped(processes[i].page_directory, 0)
    BY <1>1, <1>2 DEF Built, mapped
<1> QED
    BY <1>3 DEF ContentOK, OnePage

LEMMA NamesFollow ==
    ASSUME NamesOK
    PROVE  FilesAreModules
    BY DEF NamesOK, FilesAreModules, ramfs_find_file, loader_find_module

-----------------------------------------------------------------------------
(* The start.                                                              *)

(* The frames of modules are told apart.                                   *)
LEMMA ModuleFrameFacts ==
    ASSUME NEW m \in Modules
    PROVE  /\ Len(ModulePages[m]) \in Nat /\ Len(ModulePages[m]) >= 1
           /\ DOMAIN ModulePages[m] = 1 .. Len(ModulePages[m])
           /\ 1 \in DOMAIN ModulePages[m]
           /\ ModulePages[m][1] \in Frames /\ ModulePages[m][1] \notin Pages
<1>1. ModulePages[m] \in Seq(Nat) /\ ModulePages[m] # << >>
    BY ProcessAssumption
<1>2. /\ Len(ModulePages[m]) \in Nat /\ Len(ModulePages[m]) >= 1
      /\ DOMAIN ModulePages[m] = 1 .. Len(ModulePages[m])
    BY <1>1
<1>3. 1 \in DOMAIN ModulePages[m]
    BY <1>2
<1>4. ModulePages[m][1] \in ModuleFrames
    BY <1>3 DEF ModuleFrames
<1> QED
    BY <1>2, <1>3, <1>4, ProcessAssumption

LEMMA ContentStart ==
    ASSUME Init, NEW m \in Modules, OnePage(m)
    PROVE  content[ModulePages[m][1]] = <<m, 1>>
<1> DEFINE f == ModulePages[m][1]
           P(c) == c[2] \in DOMAIN ModulePages[c[1]] /\ ModulePages[c[1]][c[2]] = f
           C == Modules \X (1 .. Cardinality(Frames))
<1>1. f \in Frames /\ f \notin Pages /\ 1 \in DOMAIN ModulePages[m]
    BY ModuleFrameFacts
<1>2. Cardinality(Frames) \in Nat /\ Cardinality(Frames) # 0
    BY <1>1, ProcessAssumption, FS_CardinalityType, FS_EmptySet
<1>3. <<m, 1>> \in C /\ P(<<m, 1>>)
    BY <1>1, <1>2
<1>4. ASSUME NEW c \in C, P(c) PROVE c = <<m, 1>>
  <2>1. c[1] \in Modules /\ c = <<c[1], c[2]>>
    OBVIOUS
  <2>2. c[1] = m /\ c[2] = 1
    BY <1>1, <1>4, <2>1, ProcessAssumption
  <2> QED
    BY <2>1, <2>2
<1>5. content[f] = CHOOSE c \in C : P(c)
    BY <1>1 DEF Init
<1> HIDE DEF P, C, f
<1>6. (CHOOSE c \in C : P(c)) = <<m, 1>>
    BY <1>3, <1>4
<1> QED
    BY <1>5, <1>6 DEF f

LEMMA InitHolds ==
    ASSUME Init
    PROVE  IInv
<1>1. Live = {} /\ InFlight = {} /\ job = NoJob /\ DOMAIN users = {} /\ pc = "modules"
    BY DEF Init, Live, InFlight, Unused, NoJob, None
<1>2. pc \in Labels /\ pc \notin Creating /\ pc \notin Holding /\ pc \notin Filled
      /\ pc \notin WithCode /\ pc \notin WithStack /\ pc \notin WithCodeTable
      /\ pc \notin WithStackTable
    BY <1>1 DEF Labels, Creating, Holding, Filled, WithCode, WithStack, WithCodeTable,
                WithStackTable
<1>3. Clean(temp_mgr, S_None) /\ UsedSlots = S_None
  <2>1. UsedSlots = S_None
    BY <1>1, <1>2 DEF UsedSlots, S_None
  <2>2. /\ temp_mgr.lock = FALSE /\ temp_mgr.available_slots = TempSlots
        /\ temp_mgr.ref_count = [i \in TempSlots |-> 0]
        /\ temp_mgr = [lock |-> FALSE, available_slots |-> TempSlots,
                       ref_count |-> [i \in TempSlots |-> 0],
                       pte |-> [i \in TempSlots |-> BootFrame]]
    BY DEF Init, temp_mapping_init
  <2>3. /\ [i \in TempSlots |-> 0] \in [TempSlots -> 0 .. 1]
        /\ [i \in TempSlots |-> BootFrame] \in [TempSlots -> Frames \cup {NoFrame, BootFrame}]
    OBVIOUS
  <2>4. TempTypeOK(temp_mgr)
    BY <2>2, <2>3 DEF TempTypeOK
  <2> QED
    BY <2>1, <2>2, <2>4 DEF Clean, S_None
<1>4. TypeOK
  <2>1. free \subseteq Pages
    BY DEF Init
  <2>2. \A f \in Frames : DOMAIN entries[f] = {}
    BY DEF Init, NoEntries
  <2>3. Unused \in [state : {"UNUSED", "READY", "RUNNING", "TERMINATED"},
                    pid : 0 .. MAX_PROCESSES, module : Modules \cup {Missing},
                    page_directory : Pages \cup {None}, kernel_stack : Pages \cup {None}]
    BY Constants DEF Unused
  <2>4. processes \in [PcbSlots -> [state : {"UNUSED", "READY", "RUNNING", "TERMINATED"},
                                   pid : 0 .. MAX_PROCESSES, module : Modules \cup {Missing},
                                   page_directory : Pages \cup {None},
                                   kernel_stack : Pages \cup {None}]]
    BY <2>3 DEF Init
  <2>5. next_pid \in 1 .. MAX_PROCESSES + 1
    BY Constants DEF Init
  <2>6. TempTypeOK(temp_mgr)
    BY <1>3 DEF Clean
  <2>7. \A f \in Frames :
            /\ DOMAIN entries[f] \subseteq 0 .. 1023
            /\ \A e \in DOMAIN entries[f] : entries[f][e] \in Pages \cup {BootFrame}
    BY <2>2
  <2>8. /\ current_process \in PcbSlots \cup {None} /\ cr3 \in Pages \cup {None}
        /\ fault \in {"none", "null", "unmapped"}
    BY DEF Init
  <2> QED
    BY <2>1, <2>4, <2>5, <2>6, <2>7, <2>8 DEF TypeOK
<1>5. JobOK
  <2>1. job \in Jobs
    BY <1>1 DEF Jobs, NoJob
  <2> QED
    BY <1>1, <1>2, <2>1 DEF JobOK, NoJob
<1>6. SlotsOK
    BY <1>1, <1>2, <1>3 DEF SlotsOK, Init
<1>7. SpacesOK
    BY <1>1, <1>2 DEF SpacesOK, Init
<1>8. TableOK
    BY <1>1 DEF TableOK, Init, Unused, PcbSlots
<1>9. PagesOK
    BY <1>1 DEF PagesOK, UsedPages, Init
<1>10. ContentOK
    BY <1>1, ContentStart DEF ContentOK
<1>11. NamesOK
    BY <1>1, Constants, LoaderAssumption DEF NamesOK, Init
<1> QED
    BY <1>4, <1>5, <1>6, <1>7, <1>8, <1>9, <1>10, <1>11 DEF IInv

-----------------------------------------------------------------------------
(* What a step leaves alone.                                               *)

ProcessRecord == [state : {"UNUSED", "READY", "RUNNING", "TERMINATED"},
                  pid : 0 .. MAX_PROCESSES, module : Modules \cup {Missing},
                  page_directory : Pages \cup {None}, kernel_stack : Pages \cup {None}]

LEMMA TypeKept ==
    ASSUME TypeOK, UNCHANGED <<entries, table>>, free' \subseteq Pages,
           Clean(temp_mgr, UsedSlots)', fault' \in {"none", "null", "unmapped"}
    PROVE  TypeOK'
<1>1. TempTypeOK(temp_mgr)'
    BY DEF Clean
<1> QED
    BY <1>1 DEF TypeOK, table

LEMMA TableKept ==
    ASSUME TableOK, UNCHANGED table
    PROVE  TableOK'
    BY DEF TableOK, table, Live

LEMMA NamesKept ==
    ASSUME NamesOK, UNCHANGED names, pc \notin {"modules", "files"}
    PROVE  NamesOK'
    BY DEF NamesOK, names

(* The slots, when no mapping changes.                                     *)
LEMMA SlotsKept ==
    ASSUME SlotsOK, UNCHANGED <<temp_mgr, users>>,
           pc \in Holding <=> pc' \in Holding, pc # "tests" \/ pc' = "tests",
           pc \in Holding => job'.dir = job.dir /\ job'.temp_page_dir = job.temp_page_dir,
           fault' # "null"
    PROVE  SlotsOK'
<1>1. UsedSlots' = UsedSlots
    BY DEF UsedSlots
<1>2. Clean(temp_mgr, UsedSlots)'
    BY <1>1 DEF SlotsOK
<1>3. \A va \in DOMAIN users' : frame_at(temp_mgr, va)' = users'[va]
    BY DEF SlotsOK, frame_at
<1> QED
    BY <1>2, <1>3 DEF SlotsOK

(* The address space of a process, when its tables are not written.        *)
LEMMA BuiltKept ==
    ASSUME NEW E, NEW F, NEW d, Built(E, d), \A p \in SpacePages(E, d) : F[p] = E[p]
    PROVE  /\ Built(F, d) /\ SpacePages(F, d) = SpacePages(E, d)
           /\ F[F[d][0]][0] = E[E[d][0]][0]
<1>1. /\ F[d] = E[d] /\ F[E[d][0]] = E[E[d][0]] /\ F[E[d][1022]] = E[E[d][1022]]
    BY DEF SpacePages
<1> QED
    BY <1>1 DEF Built, SpacePages

(* What is kept for processes.                                             *)
Kept(E, F, C, D) ==
    \A i \in Live :
        /\ Built(F, processes[i].page_directory)
        /\ SpacePages(F, processes[i].page_directory) = SpacePages(E, processes[i].page_directory)
        /\ F[F[processes[i].page_directory][0]][0] = E[E[processes[i].page_directory][0]][0]
        /\ C[E[E[processes[i].page_directory][0]][0]] = D[E[E[processes[i].page_directory][0]][0]]

LEMMA SpacesKept ==
    ASSUME SpacesOK, NEW F, NEW D,
           \A p \in UsedPages : F[p] = entries[p] /\ D[p] = content[p]
    PROVE  Kept(entries, F, content, D)
<1> SUFFICES ASSUME NEW i \in Live
             PROVE  LET d == processes[i].page_directory IN
                    /\ Built(F, d) /\ SpacePages(F, d) = SpacePages(entries, d)
                    /\ F[F[d][0]][0] = entries[entries[d][0]][0]
                    /\ content[entries[entries[d][0]][0]] = D[entries[entries[d][0]][0]]
    BY DEF Kept
<1> DEFINE d == processes[i].page_directory
<1>1. Built(entries, d)
    BY DEF SpacesOK
<1>2. SpacePages(entries, d) \subseteq UsedPages
    BY DEF UsedPages, PagesOf
<1>3. \A p \in SpacePages(entries, d) : F[p] = entries[p] /\ D[p] = content[p]
    BY <1>2
<1>4. entries[entries[d][0]][0] \in SpacePages(entries, d)
    BY DEF SpacePages
<1> HIDE DEF d
<1>5. Built(F, d) /\ SpacePages(F, d) = SpacePages(entries, d)
      /\ F[F[d][0]][0] = entries[entries[d][0]][0]
    BY <1>1, <1>3, BuiltKept
<1> QED
    BY <1>3, <1>4, <1>5 DEF d

LEMMA UsedKept ==
    ASSUME UNCHANGED processes, Kept(entries, entries', content, content')
    PROVE  /\ Live' = Live
           /\ \A i \in Live : PagesOf(i)' = PagesOf(i)
           /\ UsedPages' = UsedPages
           /\ \A i \in Live' : Built(entries, processes[i].page_directory)'
<1>1. Live' = Live
    BY DEF Live
<1>2. \A i \in Live : PagesOf(i)' = PagesOf(i)
    BY DEF Kept, PagesOf
<1>3. UsedPages' = UsedPages
    BY <1>1, <1>2 DEF UsedPages
<1>4. \A i \in Live' : Built(entries, processes[i].page_directory)'
    BY <1>1 DEF Kept
<1> QED
    BY <1>1, <1>2, <1>3, <1>4

LEMMA ContentKept ==
    ASSUME ContentOK, UNCHANGED processes, Kept(entries, entries', content, content'),
           \A m \in Modules : OnePage(m) =>
                content'[ModulePages[m][1]] = content[ModulePages[m][1]],
           pc' = "kernel_stack" /\ OnePage(job'.module) =>
                content'[job'.code] = <<job'.module, 1>>
    PROVE  ContentOK'
<1>1. Live' = Live
    BY DEF Live
<1>2. ASSUME NEW i \in Live, OnePage(processes[i].module)
      PROVE  content'[entries'[entries'[processes[i].page_directory][0]][0]] =
                <<processes[i].module, 1>>
    BY <1>2 DEF Kept, ContentOK
<1>3. \A m \in Modules : OnePage(m)' <=> OnePage(m)
    BY DEF OnePage
<1> QED
    BY <1>1, <1>2, <1>3 DEF ContentOK, OnePage

(* Pages that only change hands.                                           *)
LEMMA PagesMoved ==
    ASSUME PagesOK, UNCHANGED <<processes, given>>, Kept(entries, entries', content, content'),
           free' \cup lost' \cup InFlight' = free \cup lost \cup InFlight,
           free' \cap (lost' \cup InFlight') = {}, lost' \cap InFlight' = {}
    PROVE  PagesOK'
<1>1. /\ Live' = Live /\ UsedPages' = UsedPages
      /\ \A i \in Live : PagesOf(i)' = PagesOf(i)
    BY UsedKept
<1>2. given' = free' \cup lost' \cup InFlight' \cup UsedPages'
    BY <1>1 DEF PagesOK
<1>3. UsedPages' \cap (free' \cup lost' \cup InFlight') = {}
    BY <1>1 DEF PagesOK
<1>4. \A i, j \in Live' : i # j => PagesOf(i)' \cap PagesOf(j)' = {}
    BY <1>1 DEF PagesOK
<1> QED
    BY <1>2, <1>3, <1>4 DEF PagesOK

(* A step that changes none of this.                                       *)
LEMMA KeptAll ==
    ASSUME SpacesOK, UNCHANGED <<entries, content>>
    PROVE  Kept(entries, entries', content, content')
    BY SpacesKept

LEMMA JobKept ==
    ASSUME JobOK, UNCHANGED <<job, next_pid, cr3>>, pc \notin Creating,
           pc' \in Labels \ Creating
    PROVE  JobOK'
    BY DEF JobOK, WithCode, WithStack, WithCodeTable, WithStackTable

LEMMA QuietSpaces ==
    ASSUME SpacesOK, PagesOK, ContentOK,
           UNCHANGED <<entries, content, processes, given, free, lost, job>>,
           pc \notin Creating, pc' \notin Creating
    PROVE  SpacesOK' /\ PagesOK' /\ ContentOK'
<1>1. Kept(entries, entries', content, content')
    BY KeptAll
<1>2. InFlight' = InFlight
    BY DEF InFlight
<1>3. PagesOK'
    BY <1>1, <1>2, PagesMoved DEF PagesOK
<1>4. pc' # "kernel_stack" /\ pc' \notin Filled
    BY DEF Creating, Filled
<1>5. ContentOK'
    BY <1>1, <1>4, ContentKept
<1>6. SpacesOK'
    BY <1>1, <1>4, UsedKept DEF SpacesOK
<1> QED
    BY <1>3, <1>5, <1>6

(* A step of the kernel outside of creation that leaves the slots alone.   *)
LEMMA QuietStep ==
    ASSUME IInv, UNCHANGED <<free, entries, content, temp_mgr, table, job, given, lost, users>>,
           pc \notin Creating, pc' \in Labels \ Creating,
           pc # "tests" \/ pc' = "tests" \/ DOMAIN users = {},
           fault' \in {"none", "unmapped"}
    PROVE  TypeOK' /\ JobOK' /\ SlotsOK' /\ SpacesOK' /\ TableOK' /\ PagesOK' /\ ContentOK'
<1>1. pc \notin Holding /\ pc' \notin Holding
    BY DEF Holding, Creating
<1>2. UNCHANGED <<processes, next_pid, cr3>>
    BY DEF table
<1>3. SlotsOK'
  <2>1. UsedSlots' = UsedSlots
    BY <1>1 DEF UsedSlots
  <2>2. Clean(temp_mgr, UsedSlots)'
    BY <2>1 DEF IInv, SlotsOK
  <2>3. \A va \in DOMAIN users' : frame_at(temp_mgr, va)' = users'[va]
    BY DEF IInv, SlotsOK, frame_at
  <2> QED
    BY <1>1, <2>2, <2>3 DEF IInv, SlotsOK
<1>4. JobOK'
    BY <1>2, JobKept DEF IInv
<1>5. SpacesOK' /\ PagesOK' /\ ContentOK'
    BY <1>2, QuietSpaces DEF IInv
<1>6. TableOK'
    BY TableKept DEF IInv
<1>7. TypeOK'
    BY <1>3, TypeKept DEF IInv, TypeOK, SlotsOK
<1> QED
    BY <1>3, <1>4, <1>5, <1>6, <1>7

-----------------------------------------------------------------------------
(* Booting and the self tests.                                             *)

LEMMA MinPair ==
    ASSUME NEW a \in Nat, NEW b \in Nat
    PROVE  /\ Min({a, b}) \in Nat /\ Min({a, b}) <= a /\ Min({a, b}) <= b
           /\ a <= b => Min({a, b}) = a
<1>1. {a, b} \in SUBSET Nat /\ {a, b} # {}
    OBVIOUS
<1>2. Min({a, b}) \in {a, b} /\ \A i \in {a, b} : Min({a, b}) <= i
    BY <1>1, MinOf
<1> QED
    BY <1>2

LEMMA CopyFits ==
    ASSUME NEW s \in Seq(STRING), NEW n \in Nat, Len(s) <= n
    PROVE  strncpy(s, n) = s
<1>1. Min({Len(s), n}) = Len(s)
    BY MinPair
<1>2. SubSeq(s, 1, Len(s)) = s
    OBVIOUS
<1> QED
    BY <1>1, <1>2 DEF strncpy

LEMMA CopyShort ==
    ASSUME NEW s \in Seq(STRING), NEW n \in Nat
    PROVE  strncpy(s, n) \in Seq(STRING) /\ Len(strncpy(s, n)) <= n
<1>1. Len(s) \in Nat /\ Min({Len(s), n}) \in Nat /\ Min({Len(s), n}) <= Len(s)
      /\ Min({Len(s), n}) <= n
    BY MinPair
<1>2. ASSUME NEW k \in Nat, k <= Len(s)
      PROVE  SubSeq(s, 1, k) \in Seq(STRING) /\ Len(SubSeq(s, 1, k)) = k
    BY <1>2
<1> QED
    BY <1>1, <1>2 DEF strncpy

LEMMA SeqElement ==
    ASSUME NEW T, NEW s \in Seq(T), NEW k \in 1 .. Len(s)
    PROVE  s[k] \in T
    OBVIOUS

LEMMA ModuleNames ==
    ASSUME NEW mod \in [image : Modules, named : BOOLEAN, string : Seq(STRING)],
           NEW i \in Nat, i >= 1
    PROVE  module_name(mod, i) \in Seq(STRING) /\ Len(module_name(mod, i)) < MAX_PATH
<1>1. NAME_SIZE \in Nat /\ NAME_SIZE - 1 \in Nat /\ NAME_SIZE <= MAX_PATH /\ MAX_PATH \in Nat
    BY LoaderAssumption
<1>2. CASE mod.named = TRUE
  <2>1. /\ strncpy(mod.string, NAME_SIZE - 1) \in Seq(STRING)
        /\ Len(strncpy(mod.string, NAME_SIZE - 1)) <= NAME_SIZE - 1
    BY <1>1, CopyShort
  <2>2. module_name(mod, i) = strncpy(mod.string, NAME_SIZE - 1)
    BY <1>2 DEF module_name
  <2>3. Len(strncpy(mod.string, NAME_SIZE - 1)) \in Nat
    BY <2>1
  <2> QED
    BY <1>1, <2>1, <2>2, <2>3
<1>3. CASE mod.named = FALSE
  <2>1. Min({i, 4}) \in {i, 4} /\ Min({i, 4}) <= 4
    BY MinPair, MinOf
  <2>2. Min({i, 4}) \in 1 .. 4
    BY <2>1
  <2>3. module_name(mod, i) = Placeholders[Min({i, 4})]
    BY <1>3 DEF module_name
  <2>4. \A k \in 1 .. 4 : Placeholders[k] \in Seq(STRING) /\ Len(Placeholders[k]) < MAX_PATH
    <3>1. Placeholders \in Seq(Seq(STRING)) /\ Len(Placeholders) = 4
      BY LoaderAssumption
    <3>2. \A k \in 1 .. 4 : Placeholders[k] \in Seq(STRING)
      BY <3>1, SeqElement
    <3>3. \A k \in 1 .. 4 : Len(Placeholders[k]) < MAX_PATH
      BY LoaderAssumption
    <3> QED
      BY <3>2, <3>3
  <2> QED
    BY <2>2, <2>3, <2>4
<1> QED
    BY <1>2, <1>3

LEMMA Booting ==
    ASSUME IInv, boot_modules_from_mbi
    PROVE  IInv'
<1>1. pc = "modules" /\ pc' = "files" /\ UNCHANGED <<booting, files>>
    BY DEF boot_modules_from_mbi
<1>2. /\ pc \notin Creating /\ pc' \in Labels \ Creating
      /\ UNCHANGED <<free, entries, content, temp_mgr, table, job, given, lost, users>>
      /\ fault' \in {"none", "unmapped"}
    BY <1>1 DEF booting, memory, Labels, Creating, IInv, TypeOK, SlotsOK
<1>3. NamesOK'
  <2>1. CASE UNCHANGED modules
    BY <1>1, <2>1 DEF IInv, NamesOK
  <2>2. ASSUME NEW list \in ModuleLists, loader_init(list)
        PROVE  NamesOK'
    <3> DEFINE M == [image : Modules, named : BOOLEAN, string : Seq(STRING)]
               n == Min({Len(list), MAX_MODULES})
               entry(i) == [name |-> module_name(list[i], i), image |-> list[i].image]
    <3>1. list \in Seq(M)
      BY ProcessAssumption
    <3>2. \A m \in M : m.image \in Modules
      OBVIOUS
    <3> HIDE DEF M
    <3>3. Len(list) \in Nat /\ MAX_MODULES \in Nat /\ MAX_RAMFS_FILES \in Nat
          /\ MAX_MODULES <= MAX_RAMFS_FILES
      BY <3>1, LoaderAssumption
    <3>4. n \in Nat /\ n <= Len(list) /\ n <= MAX_MODULES
      BY <3>3, MinPair
    <3> HIDE DEF n
    <3>5. \A i \in 1 .. n : list[i] \in M /\ i \in Nat /\ i >= 1
      BY <3>1, <3>3, <3>4
    <3>6. \A i \in 1 .. n : entry(i) \in Table /\ Len(entry(i).name) < MAX_PATH
      <4> SUFFICES ASSUME NEW i \in 1 .. n
                   PROVE  entry(i) \in Table /\ Len(entry(i).name) < MAX_PATH
        OBVIOUS
      <4>1. /\ module_name(list[i], i) \in Seq(STRING)
            /\ Len(module_name(list[i], i)) < MAX_PATH
        BY <3>5, ModuleNames DEF M
      <4>2. list[i].image \in Modules
        BY <3>2, <3>5
      <4> QED
        BY <4>1, <4>2 DEF Table
    <3>7. modules' = [i \in 1 .. n |-> entry(i)]
      BY <2>2 DEF loader_init, n
    <3> HIDE DEF entry
    <3>8. modules' \in Seq(Table) /\ Len(modules') = n /\ DOMAIN modules' = 1 .. n
          /\ \A i \in 1 .. n : modules'[i] = entry(i)
      BY <3>4, <3>6, <3>7
    <3>9. Len(modules') <= MAX_RAMFS_FILES
      BY <3>3, <3>4, <3>8
    <3>10. \A i \in DOMAIN modules' : Len(modules'[i].name) < MAX_PATH
      BY <3>6, <3>8
    <3> QED
      BY <1>1, <3>8, <3>9, <3>10 DEF NamesOK
  <2> QED
    BY <2>1, <2>2 DEF boot_modules_from_mbi
<1> QED
    BY <1>1, <1>2, <1>3, QuietStep DEF IInv

LEMMA FilesInit ==
    ASSUME IInv, boot_vfs_init
    PROVE  IInv'
<1>1. pc = "files" /\ pc' = "tests" /\ UNCHANGED <<booting, modules>> /\ ramfs_init
    BY DEF boot_vfs_init
<1>2. /\ pc \notin Creating /\ pc' \in Labels \ Creating
      /\ UNCHANGED <<free, entries, content, temp_mgr, table, job, given, lost, users>>
      /\ fault' \in {"none", "unmapped"}
    BY <1>1 DEF booting, memory, Labels, Creating, IInv, TypeOK, SlotsOK
<1>3. files' = modules
  <2>1. /\ modules \in Seq(Table) /\ Len(modules) \in Nat /\ Len(modules) <= MAX_RAMFS_FILES
        /\ MAX_RAMFS_FILES \in Nat /\ MAX_PATH \in Nat /\ MAX_PATH > 0
        /\ \A i \in 1 .. Len(modules) : Len(modules[i].name) < MAX_PATH
    BY LoaderAssumption DEF IInv, NamesOK
  <2>2. Min({loader_get_module_count, MAX_RAMFS_FILES}) = Len(modules)
    BY <2>1, MinPair DEF loader_get_module_count
  <2>3. ASSUME NEW i \in 1 .. Len(modules)
        PROVE  [modules[i] EXCEPT !.name = strncpy(@, MAX_PATH - 1)] = modules[i]
    <3>1. modules[i] \in Table
      BY <2>1
    <3>2. modules[i].name \in Seq(STRING)
      BY <3>1 DEF Table
    <3>3. MAX_PATH - 1 \in Nat /\ Len(modules[i].name) <= MAX_PATH - 1
      BY <2>1, <3>2
    <3>4. strncpy(modules[i].name, MAX_PATH - 1) = modules[i].name
      BY <3>2, <3>3, CopyFits
    <3> QED
      BY <3>1, <3>4 DEF Table
  <2>4. files' = [i \in 1 .. Len(modules) |-> modules[i]]
    BY <1>1, <2>2, <2>3 DEF ramfs_init
  <2> QED
    BY <2>1, <2>4
<1>4. NamesOK'
    BY <1>1, <1>3 DEF IInv, NamesOK
<1> QED
    BY <1>1, <1>2, <1>4, QuietStep DEF IInv

LEMMA TestsEnd ==
    ASSUME IInv, TestsDone
    PROVE  IInv'
<1>1. /\ pc = "tests" /\ pc' = "idle" /\ users = << >>
      /\ UNCHANGED <<testing, temp_mgr, users>>
    BY DEF TestsDone
<1>2. /\ pc \notin Creating /\ pc' \in Labels \ Creating /\ DOMAIN users = {}
      /\ UNCHANGED <<free, entries, content, temp_mgr, table, job, given, lost, users, names>>
      /\ fault' \in {"none", "unmapped"}
    BY <1>1 DEF testing, memory, Labels, Creating, IInv, TypeOK, SlotsOK
<1>3. NamesOK'
    BY <1>1, <1>2, NamesKept DEF IInv
<1> QED
    BY <1>1, <1>2, <1>3, QuietStep DEF IInv

(* A step of the self tests, which only touch the slots.                   *)
LEMMA TestStep ==
    ASSUME IInv, pc = "tests", pc' = "tests", UNCHANGED testing, SlotsOK'
    PROVE  IInv'
<1>1. /\ pc \notin Creating /\ pc' \in Labels \ Creating
      /\ UNCHANGED <<free, entries, content, table, job, given, lost, names, fault>>
      /\ UNCHANGED <<processes, next_pid, cr3>>
    BY DEF testing, memory, table, Labels, Creating
<1>2. JobOK'
    BY <1>1, JobKept DEF IInv
<1>3. SpacesOK' /\ PagesOK' /\ ContentOK'
    BY <1>1, QuietSpaces DEF IInv
<1>4. TableOK'
    BY <1>1, TableKept DEF IInv
<1>5. TypeOK'
    BY <1>1, TypeKept DEF IInv, TypeOK, SlotsOK
<1>6. NamesOK'
    BY <1>1, NamesKept DEF IInv
<1> QED
    BY <1>2, <1>3, <1>4, <1>5, <1>6 DEF IInv

LEMMA TestMapStep ==
    ASSUME IInv, NEW frame \in TestPages, TestMap(frame)
    PROVE  IInv'
<1> DEFINE r == temp_map_page(temp_mgr, frame)
           S == {i \in TempSlots : slot_addr(i) \in DOMAIN users}
<1>1. /\ pc = "tests" /\ pc' = "tests" /\ UNCHANGED testing
      /\ temp_mgr' = r.mgr
      /\ users' = IF r.va = 0 THEN users ELSE put(users, r.va, frame)
    BY DEF TestMap
<1>2. pc \notin Holding /\ pc' \notin Holding /\ frame \in Frames /\ fault' = fault
    BY <1>1, Constants DEF Holding, testing
<1>3. Clean(temp_mgr, S) /\ UsedSlots' = {i \in TempSlots : slot_addr(i) \in DOMAIN users'}
    BY <1>2 DEF IInv, SlotsOK, UsedSlots
<1>4. /\ DOMAIN users \subseteq Addresses
      /\ \A va \in DOMAIN users : frame_at(temp_mgr, va) = users[va]
    BY DEF IInv, SlotsOK
<1>5. CASE S = TempSlots
  <2>1. temp_mgr.available_slots = {}
    BY <1>3, <1>5 DEF Clean
  <2>2. r.mgr = temp_mgr /\ r.va = 0
    BY <2>1 DEF temp_map_page, Result
  <2>3. UNCHANGED <<temp_mgr, users>>
    BY <1>1, <2>2
  <2>4. SlotsOK'
    BY <1>1, <1>2, <2>3, SlotsKept DEF IInv, SlotsOK
  <2> QED
    BY <1>1, <2>4, TestStep
<1>6. CASE S # TempSlots
  <2>1. PICK s \in TempSlots \ S :
            /\ s = Min(TempSlots \ S)
            /\ r.va = slot_addr(s)
            /\ Clean(r.mgr, S \cup {s})
            /\ r.mgr.pte = [temp_mgr.pte EXCEPT ![s] = frame]
    <3> HIDE DEF S
    <3> QED
      BY <1>2, <1>3, <1>6, MapFacts, Zenon
  <2> HIDE DEF r
  <2>2. slot_addr(s) # 0 /\ slot_addr(s) \in Addresses /\ slot_addr(s) \notin DOMAIN users
    BY SlotFacts
  <2>3. users' = put(users, slot_addr(s), frame)
    BY <1>1, <2>1, <2>2
  <2>4. /\ DOMAIN users' = DOMAIN users \cup {slot_addr(s)}
        /\ users'[slot_addr(s)] = frame
        /\ \A va \in DOMAIN users : users'[va] = users[va]
    BY <2>2, <2>3 DEF put
  <2>5. UsedSlots' = S \cup {s}
    BY <1>3, <2>4, SlotFacts
  <2>6. Clean(temp_mgr, UsedSlots)'
    BY <1>1, <2>1, <2>5
  <2>7. temp_mgr.pte \in [TempSlots -> Frames \cup {NoFrame, BootFrame}]
    BY <1>3, PteType
  <2>8. temp_mgr'.pte[s] = frame /\ \A i \in S : temp_mgr'.pte[i] = temp_mgr.pte[i]
    BY <1>1, <2>1, <2>7
  <2>9. ASSUME NEW va \in DOMAIN users'
        PROVE  frame_at(temp_mgr', va) = users'[va]
    <3>1. CASE va = slot_addr(s)
      BY <2>4, <2>8, <3>1, SlotFacts DEF frame_at
    <3>2. CASE va \in DOMAIN users
      <4>1. PICK i \in TempSlots : va = slot_addr(i)
        BY <1>4, <3>2 DEF Addresses
      <4>2. i \in S /\ TEMP_MAPPING_ADDR - va = i
        BY <3>2, <4>1, SlotFacts
      <4>3. temp_mgr.pte[i] = users[va]
        BY <1>4, <3>2, <4>2 DEF frame_at
      <4> QED
        BY <2>4, <2>8, <3>2, <4>2, <4>3 DEF frame_at
    <3> QED
      BY <2>4, <2>9, <3>1, <3>2
  <2>10. SlotsOK'
    BY <1>1, <1>2, <1>4, <2>2, <2>4, <2>6, <2>9 DEF IInv, SlotsOK
  <2> QED
    BY <1>1, <2>10, TestStep
<1> QED
    BY <1>5, <1>6

LEMMA TestUnmapStep ==
    ASSUME IInv, NEW va, TestUnmap(va)
    PROVE  IInv'
<1> DEFINE S == {i \in TempSlots : slot_addr(i) \in DOMAIN users}
<1>1. /\ pc = "tests" /\ pc' = "tests" /\ UNCHANGED testing
      /\ temp_mgr' = temp_unmap_page(temp_mgr, va)
      /\ users' = [u \in DOMAIN users \ {va} |-> users[u]]
    BY DEF TestUnmap
<1>2. pc \notin Holding /\ pc' \notin Holding /\ fault' = fault
    BY <1>1 DEF Holding, testing
<1>3. Clean(temp_mgr, S) /\ UsedSlots' = {i \in TempSlots : slot_addr(i) \in DOMAIN users'}
    BY <1>2 DEF IInv, SlotsOK, UsedSlots
<1>4. DOMAIN users \subseteq Addresses /\ \A u \in DOMAIN users : frame_at(temp_mgr, u) = users[u]
    BY DEF IInv, SlotsOK
<1>5. DOMAIN users' = DOMAIN users \ {va} /\ \A u \in DOMAIN users' : users'[u] = users[u]
    BY <1>1
<1>6. CASE va \notin DOMAIN users
  <2>1. \A s \in S : va # slot_addr(s)
    BY <1>6
  <2>2. temp_mgr' = temp_mgr
    BY <1>1, <1>3, <2>1, UnmapNothing
  <2>3. DOMAIN users' = DOMAIN users
    BY <1>5, <1>6
  <2>4. UsedSlots' = S
    BY <1>3, <2>3
  <2>5. Clean(temp_mgr, UsedSlots)'
    BY <1>3, <2>2, <2>4
  <2>6. \A u \in DOMAIN users' : frame_at(temp_mgr, u)' = users'[u]
    BY <1>4, <1>5, <2>2 DEF frame_at
  <2>7. SlotsOK'
    BY <1>1, <1>2, <1>4, <2>3, <2>5, <2>6 DEF IInv, SlotsOK
  <2> QED
    BY <1>1, <2>7, TestStep
<1>7. CASE va \in DOMAIN users
  <2>1. PICK s \in TempSlots : va = slot_addr(s)
    BY <1>4, <1>7 DEF Addresses
  <2>2. s \in S
    BY <1>7, <2>1
  <2>3. UsedSlots' = S \ {s}
    BY <1>3, <1>5, <2>1, SlotFacts
  <2> HIDE DEF S
  <2>4. /\ Clean(temp_mgr', S \ {s})
        /\ temp_mgr'.pte = [temp_mgr.pte EXCEPT ![s] = NoFrame]
    BY <1>1, <1>3, <2>1, <2>2, UnmapFacts
  <2>5. Clean(temp_mgr, UsedSlots)'
    BY <2>3, <2>4
  <2>6. temp_mgr.pte \in [TempSlots -> Frames \cup {NoFrame, BootFrame}]
    BY <1>3, PteType
  <2>7. ASSUME NEW u \in DOMAIN users'
        PROVE  frame_at(temp_mgr', u) = users'[u]
    <3>1. PICK i \in TempSlots : u = slot_addr(i)
      BY <1>4, <1>5 DEF Addresses
    <3>2. i # s /\ TEMP_MAPPING_ADDR - u = i
      BY <1>5, <2>1, <3>1, SlotFacts
    <3>3. temp_mgr'.pte[i] = temp_mgr.pte[i]
      BY <2>4, <2>6, <3>2
    <3>4. frame_at(temp_mgr, u) = users[u]
      BY <1>4, <1>5
    <3> QED
      BY <1>5, <3>2, <3>3, <3>4 DEF frame_at
  <2>8. SlotsOK'
    BY <1>1, <1>2, <1>4, <1>5, <2>5, <2>7 DEF IInv, SlotsOK
  <2> QED
    BY <1>1, <2>8, TestStep
<1> QED
    BY <1>6, <1>7

-----------------------------------------------------------------------------
(* The user program.                                                       *)

LEMMA Stutter ==
    ASSUME IInv, UNCHANGED vars
    PROVE  IInv'
<1>1. /\ UNCHANGED <<free, entries, content, temp_mgr, table, fault, pc, job, given, lost,
                     users, names>>
      /\ UNCHANGED <<processes, next_pid, cr3, modules, files>>
    BY DEF vars, table, names
<1>2. SlotsOK'
    BY <1>1, SlotsKept DEF IInv, SlotsOK
<1>3. TypeOK'
    BY <1>1, <1>2, TypeKept DEF IInv, TypeOK, SlotsOK
<1>4. JobOK'
    BY <1>1 DEF IInv, JobOK
<1>5. Kept(entries, entries', content, content')
    BY <1>1, KeptAll DEF IInv
<1>6. SpacesOK'
    BY <1>1, <1>5, UsedKept DEF IInv, SpacesOK
<1>7. TableOK'
    BY <1>1, TableKept DEF IInv
<1>8. InFlight' = InFlight
    BY <1>1 DEF InFlight
<1>9. PagesOK'
    BY <1>1, <1>5, <1>8, PagesMoved DEF IInv, PagesOK
<1>10. ContentOK'
    BY <1>1, <1>5, ContentKept DEF IInv, ContentOK
<1>11. NamesOK'
    BY <1>1 DEF IInv, NamesOK
<1> QED
    BY <1>2, <1>3, <1>4, <1>6, <1>7, <1>9, <1>10, <1>11 DEF IInv

(* The allocator's bitmap and the heap are mapped in no process.           *)
LEMMA NotMapped ==
    ASSUME IInv, cr3 # None
    PROVE  ~mapped(cr3, BitmapPage) /\ ~mapped(cr3, HeapPage)
<1>1. PICK i \in Live : processes[i].page_directory = cr3
    BY DEF IInv, TableOK
<1>2. DOMAIN entries[cr3] = KernelEntries \cup {0, 1022}
    BY <1>1 DEF IInv, SpacesOK, Built
<1>3. pde(BitmapPage) = 4 /\ pde(HeapPage) = 8
    BY DEF pde, BitmapPage, HeapPage
<1>4. 4 \notin DOMAIN entries[cr3] /\ 8 \notin DOMAIN entries[cr3]
    BY <1>2 DEF KernelEntries
<1> QED
    BY <1>3, <1>4 DEF mapped

(* A system call that changes nothing, or touches a page that is missing.  *)
LEMMA UserStep ==
    ASSUME IInv, User,
           UNCHANGED <<free, memory, temp_mgr, table, pc, job, given, lost, users, names>>,
           fault' \in {fault, "unmapped"}
    PROVE  IInv'
<1>1. pc \notin Creating /\ pc \in Labels /\ fault = "none"
    BY DEF IInv, JobOK, User
<1>2. TypeOK' /\ JobOK' /\ SlotsOK' /\ SpacesOK' /\ TableOK' /\ PagesOK' /\ ContentOK'
    BY <1>1, QuietStep DEF memory
<1>3. NamesOK'
    BY DEF IInv, NamesOK, names
<1> QED
    BY <1>2, <1>3 DEF IInv

LEMMA ExitStep ==
    ASSUME IInv, process_exit_current
    PROVE  IInv'
<1>1. User /\ UNCHANGED <<memory, temp_mgr, next_pid, cr3, pc, job, given, lost, users, names>>
    BY DEF process_exit_current
<1>2. ~mapped(cr3, BitmapPage)
    BY <1>1, NotMapped DEF User
<1>3. UNCHANGED <<free, processes, current_process>> /\ fault' \in {fault, "unmapped"}
    BY <1>2 DEF process_exit_current
<1> QED
    BY <1>1, <1>3, UserStep DEF table

LEMMA FileStep ==
    ASSUME IInv, FileCall
    PROVE  IInv'
    BY UserStep DEF FileCall

LEMMA StartStep ==
    ASSUME IInv, NEW pid, process_start(pid)
    PROVE  IInv'
<1>1. /\ pc = "idle" /\ cr3 = None /\ fault = "none" /\ pc \notin Creating /\ pc \in Labels
      /\ UNCHANGED <<free, memory, temp_mgr, fault, pc, job, given, lost, users, names>>
    BY DEF process_start, Kernel, Creating, Labels
<1>2. CASE UNCHANGED table
  <2>1. UNCHANGED vars
    BY <1>1, <1>2 DEF table, vars, memory, names
  <2> QED
    BY <2>1, Stutter
<1>3. ASSUME NEW k \in PcbSlots, processes[k].state = "READY", current_process' = k,
             processes' = [processes EXCEPT ![k].state = "RUNNING"],
             cr3' = processes[k].page_directory, UNCHANGED next_pid
      PROVE  IInv'
  <2>1. processes \in [PcbSlots -> ProcessRecord]
    BY DEF IInv, TypeOK, ProcessRecord
  <2>2. /\ processes' \in [PcbSlots -> ProcessRecord]
        /\ \A i \in PcbSlots : processes'[i].page_directory = processes[i].page_directory
                              /\ processes'[i].kernel_stack = processes[i].kernel_stack
                              /\ processes'[i].module = processes[i].module
        /\ \A i \in PcbSlots : processes'[i].state = IF i = k THEN "RUNNING" ELSE processes[i].state
    BY <1>3, <2>1 DEF ProcessRecord
  <2>3. Live' = Live /\ k \in Live /\ Live \subseteq PcbSlots
    BY <1>3, <2>2 DEF Live
  <2>4. UNCHANGED <<entries, content, free, lost, given, job, temp_mgr, users, fault, pc,
                    names, modules, files, next_pid>>
    BY <1>1, <1>3 DEF memory, names
  <2>5. InFlight' = InFlight
    BY <2>4 DEF InFlight
  <2>6. \A i \in Live : PagesOf(i)' = PagesOf(i)
    BY <2>2, <2>3, <2>4 DEF PagesOf
  <2>7. UsedPages' = UsedPages
    BY <2>3, <2>6 DEF UsedPages
  <2>8. PagesOK'
    <3>1. \A i, j \in Live' : i # j => PagesOf(i)' \cap PagesOf(j)' = {}
      BY <2>3, <2>6 DEF IInv, PagesOK
    <3> QED
      BY <2>4, <2>5, <2>7, <3>1 DEF IInv, PagesOK
  <2>9. SlotsOK'
    BY <2>4, SlotsKept DEF IInv, SlotsOK
  <2>10. cr3' \in Pages
    BY <1>3, <2>3 DEF IInv, SpacesOK, Built
  <2>11. TypeOK'
    <3>1. TempTypeOK(temp_mgr)'
      BY <2>9 DEF SlotsOK, Clean
    <3> QED
      BY <1>3, <2>2, <2>4, <2>10, <3>1 DEF IInv, TypeOK, ProcessRecord
  <2>12. JobOK'
    BY <1>1, <2>4 DEF IInv, JobOK
  <2>13. SpacesOK'
    BY <1>1, <2>2, <2>3, <2>4 DEF IInv, SpacesOK, Creating, Filled
  <2>14. TableOK'
    BY <1>3, <2>2, <2>3, <2>4 DEF IInv, TableOK
  <2>15. ContentOK'
    <3>1. \A i \in Live : OnePage(processes'[i].module) =>
            content'[entries'[entries'[processes'[i].page_directory][0]][0]] =
                <<processes'[i].module, 1>>
      BY <2>2, <2>3, <2>4 DEF IInv, ContentOK
    <3> QED
      BY <1>1, <2>3, <2>4, <3>1 DEF IInv, ContentOK, OnePage
  <2>16. NamesOK'
    BY <2>4 DEF IInv, NamesOK
  <2> QED
    BY <2>8, <2>9, <2>11, <2>12, <2>13, <2>14, <2>15, <2>16 DEF IInv
<1> QED
    BY <1>2, <1>3 DEF process_start

-----------------------------------------------------------------------------
(* Creation.                                                               *)

LEMMA Picked ==
    ASSUME IInv, free # {}
    PROVE  /\ Pick(free) \in free /\ Pick(free) \in Pages /\ Pick(free) \in Frames
           /\ Pick(free) # None
           /\ Pick(free) \notin InFlight \cup lost \cup UsedPages
           /\ Pick(free) \notin {job.dir, job.code, job.stack, job.code_table, job.stack_table}
<1>1. free \in SUBSET Pages
    BY DEF IInv, TypeOK
<1>2. Pick(free) \in free
    BY <1>1, PickAssumption
<1>3. Pick(free) \in Pages /\ Pick(free) \in Frames /\ Pick(free) # None
    BY <1>1, <1>2, Constants
<1>4. Pick(free) \notin InFlight \cup lost \cup UsedPages
    BY <1>2 DEF IInv, PagesOK
<1> QED
    BY <1>2, <1>3, <1>4 DEF InFlight

(* The creation's pages are pages of the allocator, and of no process.     *)
LEMMA InFlightApart ==
    ASSUME IInv
    PROVE  /\ InFlight \subseteq Pages
           /\ InFlight \cap UsedPages = {}
           /\ {job.dir, job.code, job.stack, job.code_table, job.stack_table}
                \subseteq InFlight \cup {None}
<1>1. InFlight \subseteq Pages
    BY DEF IInv, JobOK, Jobs, InFlight
<1>2. InFlight \cap UsedPages = {}
    BY DEF IInv, PagesOK
<1> QED
    BY <1>1, <1>2 DEF InFlight

(* Everything goes back.                                                   *)
LEMMA GaveUp ==
    ASSUME IInv, pc \in Creating, fault = "none", NEW F, F = free \cup InFlight,
           free' = F, pc' = "idle", job' = NoJob,
           UNCHANGED <<memory, table, fault, given, lost, users, names>>,
           Clean(temp_mgr', S_None)
    PROVE  IInv'
<1>1. /\ pc' \in Labels /\ pc' \notin Creating /\ pc' \notin WithCode /\ pc' \notin WithStack
      /\ pc' \notin WithCodeTable /\ pc' \notin WithStackTable /\ pc' \notin Filled
      /\ pc' \notin Holding /\ pc # "tests" /\ pc \notin {"modules", "files"}
    BY DEF Labels, Creating, WithCode, WithStack, WithCodeTable, WithStackTable, Filled, Holding
<1>2. UNCHANGED <<entries, content, processes, next_pid, cr3>>
    BY DEF memory, table
<1>3. SlotsOK'
  <2>1. DOMAIN users' = {}
    BY <1>1 DEF IInv, SlotsOK
  <2>2. UsedSlots' = S_None
    BY <1>1, <2>1 DEF UsedSlots, S_None
  <2> QED
    BY <1>1, <2>1, <2>2 DEF SlotsOK
<1>4. free' \subseteq Pages
    BY InFlightApart DEF IInv, TypeOK
<1>5. TypeOK'
    BY <1>2, <1>3, <1>4, TypeKept DEF IInv, SlotsOK
<1>6. JobOK'
  <2>1. job' \in Jobs
    BY DEF NoJob, Jobs
  <2> QED
    BY <1>1, <2>1 DEF JobOK, NoJob
<1>7. InFlight' = {}
    BY DEF InFlight, NoJob
<1>8. Kept(entries, entries', content, content')
    BY <1>2, KeptAll DEF IInv
<1>9. SpacesOK'
    BY <1>1, <1>2, <1>8, UsedKept DEF IInv, SpacesOK
<1>10. TableOK'
    BY TableKept DEF IInv
<1>11. PagesOK'
  <2>1. lost \cap (free \cup InFlight) = {}
    BY DEF IInv, PagesOK
  <2> QED
    BY <1>2, <1>7, <1>8, <2>1, PagesMoved DEF IInv
<1>12. ContentOK'
    BY <1>1, <1>2, <1>8, ContentKept DEF IInv, Creating
<1>13. NamesOK'
    BY <1>1, NamesKept DEF IInv
<1> QED
    BY <1>3, <1>5, <1>6, <1>9, <1>10, <1>11, <1>12, <1>13 DEF IInv

(* One more page.                                                          *)
LEMMA TookOne ==
    ASSUME IInv, pc \in Creating \ Filled, pc' \in Creating \ Filled, free # {}, alloc,
           job'.dir = job.dir, InFlight' = InFlight \cup {Pick(free)},
           UNCHANGED <<memory, table, given, lost, users, names>>, JobOK', SlotsOK',
           fault' = fault
    PROVE  IInv'
<1>1. UNCHANGED <<entries, content, processes, next_pid, cr3>>
    BY DEF memory, table
<1>2. pc' # "kernel_stack" /\ pc \notin {"modules", "files"} /\ pc' \notin Filled
    BY DEF Creating, Filled
<1>3. /\ Pick(free) \in free /\ Pick(free) \notin InFlight \cup lost
      /\ free' = free \ {Pick(free)}
    BY Picked DEF alloc
<1>4. TypeOK'
    BY <1>3, TypeKept, <1>1 DEF IInv, TypeOK, SlotsOK
<1>5. Kept(entries, entries', content, content')
    BY <1>1, KeptAll DEF IInv
<1>6. SpacesOK'
    BY <1>1, <1>2, <1>5, UsedKept DEF IInv, SpacesOK
<1>7. TableOK'
    BY TableKept DEF IInv
<1>8. PagesOK'
  <2>1. free \cap (lost \cup InFlight) = {} /\ lost \cap InFlight = {}
    BY DEF IInv, PagesOK
  <2>2. /\ free' \cup lost' \cup InFlight' = free \cup lost \cup InFlight
        /\ free' \cap (lost' \cup InFlight') = {} /\ lost' \cap InFlight' = {}
    BY <1>3, <2>1
  <2> QED
    BY <1>1, <1>5, <2>2, PagesMoved DEF IInv
<1>9. ContentOK'
    BY <1>1, <1>2, <1>5, ContentKept DEF IInv
<1>10. NamesOK'
    BY <1>2, NamesKept DEF IInv
<1> QED
    BY <1>4, <1>6, <1>7, <1>8, <1>9, <1>10 DEF IInv

(* The slots in the course of a creation.                                  *)
LEMMA SlotsNow ==
    ASSUME IInv
    PROVE  /\ pc \in Holding => /\ Clean(temp_mgr, S_0) /\ job.temp_page_dir = slot_addr(0)
                                /\ temp_mgr.pte[0] = job.dir
           /\ pc \notin Holding /\ pc # "tests" => Clean(temp_mgr, S_None)
           /\ pc # "tests" => DOMAIN users = {}
<1>1. pc \in Holding => UsedSlots = S_0
    BY DEF UsedSlots
<1>2. pc \notin Holding /\ pc # "tests" => UsedSlots = S_None
    BY DEF UsedSlots, S_None, IInv, SlotsOK
<1> QED
    BY <1>1, <1>2 DEF IInv, SlotsOK

(* The order of the labels.                                                *)
LEMMA LabelFacts ==
    /\ "code" \in Creating \ (Filled \cup Holding) /\ "code" \notin WithCode
    /\ "code" \notin WithStack /\ "code" \notin WithCodeTable /\ "code" \notin WithStackTable
    /\ "stack" \in Creating \ (Filled \cup Holding) /\ "stack" \in WithCode
    /\ "stack" \notin WithStack /\ "stack" \notin WithCodeTable /\ "stack" \notin WithStackTable
    /\ "code_table" \in Creating \ Filled /\ "code_table" \in Holding
    /\ "code_table" \in WithCode /\ "code_table" \in WithStack
    /\ "code_table" \notin WithCodeTable /\ "code_table" \notin WithStackTable
    /\ "stack_table" \in Creating \ Filled /\ "stack_table" \in Holding
    /\ "stack_table" \in WithCode /\ "stack_table" \in WithStack
    /\ "stack_table" \in WithCodeTable /\ "stack_table" \notin WithStackTable
    /\ "fill" \in Creating \ Filled /\ "fill" \in Holding
    /\ "fill" \in WithCode /\ "fill" \in WithStack
    /\ "fill" \in WithCodeTable /\ "fill" \in WithStackTable
    /\ "copy" \in Creating \ Holding /\ "copy" \in Filled
    /\ "copy" \in WithCode /\ "copy" \in WithStack
    /\ "copy" \in WithCodeTable /\ "copy" \in WithStackTable
    /\ "kernel_stack" \in Creating \ Holding /\ "kernel_stack" \in Filled
    /\ "kernel_stack" \in WithCode /\ "kernel_stack" \in WithStack
    /\ "kernel_stack" \in WithCodeTable /\ "kernel_stack" \in WithStackTable
    /\ Creating \subseteq Labels
    BY DEF Creating, Filled, Holding, WithCode, WithStack, WithCodeTable, WithStackTable, Labels

LEMMA CodeStep ==
    ASSUME IInv, fault = "none", AllocCode
    PROVE  IInv'
<1>1. pc = "code" /\ UNCHANGED <<memory, temp_mgr, table, fault, given, lost, users, names>>
    BY DEF AllocCode
<1>2. /\ job.dir \in Pages /\ job.dir # None /\ job.code = None /\ job.stack = None
      /\ job.code_table = None /\ job.stack_table = None /\ job \in Jobs
    BY <1>1, LabelFacts DEF IInv, JobOK, Jobs
<1>3. Clean(temp_mgr, S_None)
    BY <1>1, LabelFacts, SlotsNow
<1>4. CASE free = {} /\ GiveUp({job.dir})
  <2>1. free \cup {job.dir} = free \cup InFlight
    BY <1>2 DEF InFlight
  <2> QED
    BY <1>1, <1>3, <1>4, <2>1, LabelFacts, GaveUp DEF GiveUp
<1>5. CASE free # {} /\ alloc /\ job' = [job EXCEPT !.code = Pick(free)] /\ pc' = "stack"
  <2> DEFINE x == Pick(free)
  <2>1. x \in Pages /\ x # None /\ x # job.dir
    BY <1>5, Picked
  <2> HIDE DEF x
  <2>2. /\ job' \in Jobs /\ job'.code = x /\ job'.dir = job.dir /\ job'.stack = None
        /\ job'.code_table = None /\ job'.stack_table = None /\ job'.module = job.module
    BY <1>2, <1>5, <2>1 DEF Jobs, x
  <2>3. InFlight' = InFlight \cup {x}
    BY <1>2, <2>1, <2>2 DEF InFlight
  <2>4. JobOK'
    BY <1>1, <1>2, <1>5, <2>1, <2>2, LabelFacts DEF IInv, JobOK, table
  <2>5. SlotsOK'
    BY <1>1, <1>5, LabelFacts, SlotsKept DEF IInv, SlotsOK
  <2> QED
    BY <1>1, <1>5, <2>2, <2>3, <2>4, <2>5, LabelFacts, TookOne DEF x
<1> QED
    BY <1>4, <1>5 DEF AllocCode

LEMMA StackStep ==
    ASSUME IInv, fault = "none", AllocStack
    PROVE  IInv'
<1>1. pc = "stack" /\ UNCHANGED <<memory, table, given, lost, users, names>>
    BY DEF AllocStack
<1>2. /\ job.dir \in Pages /\ job.dir # None /\ job.code \in Pages /\ job.code # None
      /\ job.stack = None /\ job.code_table = None /\ job.stack_table = None /\ job \in Jobs
    BY <1>1, LabelFacts DEF IInv, JobOK, Jobs
<1>3. Clean(temp_mgr, S_None) /\ DOMAIN users = {}
    BY <1>1, LabelFacts, SlotsNow
<1>4. CASE free = {} /\ GiveUp({job.code, job.dir}) /\ UNCHANGED <<temp_mgr, fault>>
  <2>1. free \cup {job.code, job.dir} = free \cup InFlight
    BY <1>2 DEF InFlight
  <2> QED
    BY <1>1, <1>3, <1>4, <2>1, LabelFacts, GaveUp DEF GiveUp
<1>5. CASE /\ free # {} /\ alloc /\ pc' = "code_table"
           /\ LET r == temp_map_page(temp_mgr, job.dir) IN
                /\ temp_mgr' = r.mgr
                /\ fault' = touched({r.va})
                /\ job' = [job EXCEPT !.stack = Pick(free), !.temp_page_dir = r.va]
  <2> DEFINE x == Pick(free)
             r == temp_map_page(temp_mgr, job.dir)
             va == slot_addr(0)
  <2>1. x \in Pages /\ x # None /\ x \notin {job.dir, job.code}
    BY <1>5, Picked
  <2>2. r.va = slot_addr(0) /\ Clean(r.mgr, S_0) /\ r.mgr.pte[0] = job.dir
    BY <1>2, <1>3, Constants, MapFirst
  <2>3. temp_mgr' = r.mgr /\ fault' = touched({r.va})
        /\ job' = [job EXCEPT !.stack = x, !.temp_page_dir = va]
    BY <1>5, <2>2
  <2>4. va # 0 /\ va \in Nat
    BY SlotFacts
  <2> HIDE DEF x, r, va
  <2>5. fault' = fault
    BY <2>2, <2>3, <2>4 DEF touched, va
  <2>6. /\ job' \in Jobs /\ job'.code = job.code /\ job'.dir = job.dir /\ job'.stack = x
        /\ job'.code_table = None /\ job'.stack_table = None /\ job'.module = job.module
        /\ job'.temp_page_dir = va
    BY <1>2, <2>1, <2>3, <2>4 DEF Jobs
  <2>7. InFlight' = InFlight \cup {x}
    BY <1>2, <2>1, <2>6 DEF InFlight
  <2>8. JobOK'
    BY <1>1, <1>2, <1>5, <2>1, <2>6, LabelFacts DEF IInv, JobOK, table
  <2>9. SlotsOK'
    <3>1. UsedSlots' = S_0
      BY <1>5, LabelFacts DEF UsedSlots
    <3>2. Clean(temp_mgr, UsedSlots)'
      BY <2>2, <2>3, <3>1
    <3> QED
      BY <1>1, <1>3, <2>2, <2>3, <2>5, <2>6, <3>2 DEF IInv, SlotsOK, va
  <2> QED
    BY <1>1, <1>5, <2>5, <2>6, <2>7, <2>8, <2>9, LabelFacts, TookOne DEF x
<1> QED
    BY <1>4, <1>5 DEF AllocStack

LEMMA CodeTableStep ==
    ASSUME IInv, fault = "none", AllocCodeTable
    PROVE  IInv'
<1>1. pc = "code_table" /\ UNCHANGED <<memory, table, fault, given, lost, users, names>>
    BY DEF AllocCodeTable
<1>2. /\ job.dir \in Pages /\ job.dir # None /\ job.code \in Pages /\ job.code # None
      /\ job.stack \in Pages /\ job.stack # None
      /\ job.code_table = None /\ job.stack_table = None /\ job \in Jobs
    BY <1>1, LabelFacts DEF IInv, JobOK, Jobs
<1>3. Clean(temp_mgr, S_0) /\ job.temp_page_dir = slot_addr(0)
    BY <1>1, LabelFacts, SlotsNow
<1>4. CASE /\ free = {} /\ GiveUp({job.code, job.stack, job.dir})
           /\ temp_mgr' = temp_unmap_page(temp_mgr, job.temp_page_dir)
  <2>1. free \cup {job.code, job.stack, job.dir} = free \cup InFlight
    BY <1>2 DEF InFlight
  <2>2. Clean(temp_mgr', S_None)
    BY <1>3, <1>4, UnmapOne
  <2> QED
    BY <1>1, <1>4, <2>1, <2>2, LabelFacts, GaveUp DEF GiveUp
<1>5. CASE /\ free # {} /\ alloc /\ job' = [job EXCEPT !.code_table = Pick(free)]
           /\ pc' = "stack_table" /\ UNCHANGED temp_mgr
  <2> DEFINE x == Pick(free)
  <2>1. x \in Pages /\ x # None /\ x \notin {job.dir, job.code, job.stack}
    BY <1>5, Picked
  <2> HIDE DEF x
  <2>2. /\ job' \in Jobs /\ job'.code = job.code /\ job'.dir = job.dir /\ job'.stack = job.stack
        /\ job'.code_table = x /\ job'.stack_table = None /\ job'.module = job.module
        /\ job'.temp_page_dir = job.temp_page_dir
    BY <1>2, <1>5, <2>1 DEF Jobs, x
  <2>3. InFlight' = InFlight \cup {x}
    BY <1>2, <2>1, <2>2 DEF InFlight
  <2>4. JobOK'
    BY <1>1, <1>2, <1>5, <2>1, <2>2, LabelFacts DEF IInv, JobOK, table
  <2>5. SlotsOK'
    BY <1>1, <1>5, <2>2, LabelFacts, SlotsKept DEF IInv, SlotsOK
  <2> QED
    BY <1>1, <1>5, <2>2, <2>3, <2>4, <2>5, LabelFacts, TookOne DEF x
<1> QED
    BY <1>4, <1>5 DEF AllocCodeTable

LEMMA StackTableStep ==
    ASSUME IInv, fault = "none", AllocStackTable
    PROVE  IInv'
<1>1. pc = "stack_table" /\ UNCHANGED <<memory, table, fault, given, lost, users, names>>
    BY DEF AllocStackTable
<1>2. /\ job.dir \in Pages /\ job.dir # None /\ job.code \in Pages /\ job.code # None
      /\ job.stack \in Pages /\ job.stack # None
      /\ job.code_table \in Pages /\ job.code_table # None
      /\ job.stack_table = None /\ job \in Jobs
    BY <1>1, LabelFacts DEF IInv, JobOK, Jobs
<1>3. Clean(temp_mgr, S_0) /\ job.temp_page_dir = slot_addr(0)
    BY <1>1, LabelFacts, SlotsNow
<1>4. CASE /\ free = {} /\ GiveUp({job.code, job.stack, job.code_table, job.dir})
           /\ temp_mgr' = temp_unmap_page(temp_mgr, job.temp_page_dir)
  <2>1. free \cup {job.code, job.stack, job.code_table, job.dir} = free \cup InFlight
    BY <1>2 DEF InFlight
  <2>2. Clean(temp_mgr', S_None)
    BY <1>3, <1>4, UnmapOne
  <2> QED
    BY <1>1, <1>4, <2>1, <2>2, LabelFacts, GaveUp DEF GiveUp
<1>5. CASE /\ free # {} /\ alloc /\ job' = [job EXCEPT !.stack_table = Pick(free)]
           /\ pc' = "fill" /\ UNCHANGED temp_mgr
  <2> DEFINE x == Pick(free)
  <2>1. x \in Pages /\ x # None /\ x \notin {job.dir, job.code, job.stack, job.code_table}
    BY <1>5, Picked
  <2> HIDE DEF x
  <2>2. /\ job' \in Jobs /\ job'.code = job.code /\ job'.dir = job.dir /\ job'.stack = job.stack
        /\ job'.code_table = job.code_table /\ job'.stack_table = x
        /\ job'.module = job.module /\ job'.temp_page_dir = job.temp_page_dir
    BY <1>2, <1>5, <2>1 DEF Jobs, x
  <2>3. InFlight' = InFlight \cup {x}
    BY <1>2, <2>1, <2>2 DEF InFlight
  <2>4. JobOK'
    BY <1>1, <1>2, <1>5, <2>1, <2>2, LabelFacts DEF IInv, JobOK, table
  <2>5. SlotsOK'
    BY <1>1, <1>5, <2>2, LabelFacts, SlotsKept DEF IInv, SlotsOK
  <2> QED
    BY <1>1, <1>5, <2>2, <2>3, <2>4, <2>5, LabelFacts, TookOne DEF x
<1> QED
    BY <1>4, <1>5 DEF AllocStackTable

(* All five pages of a creation.                                           *)
LEMMA FullJob ==
    ASSUME IInv, pc \in WithStackTable
    PROVE  /\ job \in Jobs /\ job.module \in Modules
           /\ job.dir \in Pages /\ job.code \in Pages /\ job.stack \in Pages
           /\ job.code_table \in Pages /\ job.stack_table \in Pages
           /\ job.code # job.dir /\ job.stack \notin {job.dir, job.code}
           /\ job.code_table \notin {job.dir, job.code, job.stack}
           /\ job.stack_table \notin {job.dir, job.code, job.stack, job.code_table}
           /\ InFlight = {job.dir, job.code, job.stack, job.code_table, job.stack_table}
<1>1. pc \in Creating /\ pc \in WithCode /\ pc \in WithStack /\ pc \in WithCodeTable
    BY DEF WithCode, WithStack, WithCodeTable, WithStackTable
<1>2. /\ job \in Jobs /\ job.module \in Modules
      /\ job.dir # None /\ job.code # None /\ job.stack # None
      /\ job.code_table # None /\ job.stack_table # None
    BY <1>1 DEF IInv, JobOK
<1>3. InFlight = {job.dir, job.code, job.stack, job.code_table, job.stack_table}
    BY <1>2 DEF InFlight
<1>4. /\ job.dir \in Pages /\ job.code \in Pages /\ job.stack \in Pages
      /\ job.code_table \in Pages /\ job.stack_table \in Pages
    BY <1>2 DEF Jobs
<1> QED
    BY <1>2, <1>3, <1>4 DEF IInv, JobOK

LEMMA NoStackStep ==
    ASSUME IInv, fault = "none", NoKernelStack
    PROVE  IInv'
<1>1. /\ pc = "kernel_stack" /\ pc' = "idle" /\ job' = NoJob
      /\ free' = free \cup {job.dir}
      /\ lost' = lost \cup {job.code, job.stack, job.code_table, job.stack_table}
      /\ UNCHANGED <<memory, temp_mgr, table, fault, given, users, names>>
    BY DEF NoKernelStack, GiveUp
<1>2. UNCHANGED <<entries, content, processes, next_pid, cr3>>
    BY <1>1 DEF memory, table
<1>3. /\ pc' \in Labels /\ pc' \notin Creating /\ pc' \notin WithCode /\ pc' \notin WithStack
      /\ pc' \notin WithCodeTable /\ pc' \notin WithStackTable /\ pc' \notin Filled
      /\ pc' \notin Holding /\ pc \notin Holding
    BY <1>1 DEF Labels, Creating, WithCode, WithStack, WithCodeTable, WithStackTable, Filled,
                Holding
<1>4. SlotsOK'
    BY <1>1, <1>3, SlotsKept DEF IInv, SlotsOK
<1>5. InFlight = {job.dir, job.code, job.stack, job.code_table, job.stack_table}
      /\ job.dir \in Pages /\ job.dir \notin {job.code, job.stack, job.code_table, job.stack_table}
    BY <1>1, LabelFacts, FullJob
<1>6. free' \subseteq Pages
    BY <1>1, <1>5 DEF IInv, TypeOK
<1>7. TypeOK'
    BY <1>1, <1>2, <1>4, <1>6, TypeKept DEF IInv, SlotsOK
<1>8. JobOK'
  <2>1. job' \in Jobs
    BY <1>1 DEF NoJob, Jobs
  <2> QED
    BY <1>1, <1>3, <2>1 DEF JobOK, NoJob
<1>9. InFlight' = {}
    BY <1>1 DEF InFlight, NoJob
<1>10. Kept(entries, entries', content, content')
    BY <1>2, KeptAll DEF IInv
<1>11. SpacesOK'
    BY <1>2, <1>3, <1>10, UsedKept DEF IInv, SpacesOK
<1>12. TableOK'
    BY <1>1, TableKept DEF IInv
<1>13. PagesOK'
  <2>1. lost \cap (free \cup InFlight) = {} /\ free \cap InFlight = {}
    BY DEF IInv, PagesOK
  <2>2. /\ free' \cup lost' \cup InFlight' = free \cup lost \cup InFlight
        /\ free' \cap (lost' \cup InFlight') = {} /\ lost' \cap InFlight' = {}
    BY <1>1, <1>5, <1>9, <2>1
  <2> QED
    BY <1>1, <1>2, <1>10, <2>2, PagesMoved DEF IInv
<1>14. ContentOK'
    BY <1>1, <1>2, <1>10, ContentKept DEF IInv
<1>15. NamesOK'
    BY <1>1, NamesKept DEF IInv
<1> QED
    BY <1>4, <1>7, <1>8, <1>11, <1>12, <1>13, <1>14, <1>15 DEF IInv

LEMMA FoundModule ==
    ASSUME NamesOK, NEW name, loader_find_module(name) # Missing
    PROVE  loader_find_module(name) \in Modules
<1> DEFINE found == {i \in DOMAIN modules : modules[i].name = name}
<1>1. modules \in Seq(Table) /\ DOMAIN modules = 1 .. Len(modules) /\ Len(modules) \in Nat
    BY DEF NamesOK
<1>2. found # {} /\ loader_find_module(name) = modules[Min(found)].image
    BY DEF loader_find_module, first_named
<1>3. found \in SUBSET Nat
    BY <1>1
<1>4. Min(found) \in found
    BY <1>2, <1>3, MinOf
<1>5. modules[Min(found)] \in Table
    BY <1>1, <1>4
<1> QED
    BY <1>2, <1>5 DEF Table

(* A page table as it is written keeps to its type.                        *)
LEMMA EntriesType ==
    ASSUME TypeOK, UNCHANGED <<table>>, free' \subseteq Pages,
           Clean(temp_mgr, UsedSlots)', fault' \in {"none", "null", "unmapped"},
           \A f \in Frames :
                \/ entries'[f] = entries[f]
                \/ /\ DOMAIN entries'[f] \subseteq 0 .. 1023
                   /\ \A e \in DOMAIN entries'[f] : entries'[f][e] \in Pages \cup {BootFrame}
    PROVE  TypeOK'
<1>1. TempTypeOK(temp_mgr)'
    BY DEF Clean
<1>2. \A f \in Frames :
        /\ DOMAIN entries'[f] \subseteq 0 .. 1023
        /\ \A e \in DOMAIN entries'[f] : entries'[f][e] \in Pages \cup {BootFrame}
    BY DEF TypeOK
<1> QED
    BY <1>1, <1>2 DEF TypeOK, table

LEMMA UsedArePages ==
    ASSUME IInv
    PROVE  UsedPages \subseteq Pages /\ UsedPages \subseteq Frames
<1>1. ASSUME NEW i \in Live PROVE PagesOf(i) \subseteq Pages
  <2>1. Built(entries, processes[i].page_directory) /\ processes[i].kernel_stack \in Pages
    BY DEF IInv, SpacesOK, TableOK
  <2>2. SpacePages(entries, processes[i].page_directory) \subseteq Pages
    BY <2>1 DEF Built, SpacePages
  <2> QED
    BY <2>1, <2>2 DEF PagesOf
<1> QED
    BY <1>1, Constants DEF UsedPages

LEMMA DirectoryStep ==
    ASSUME IInv, NEW name, vmm_create_user_space(name)
    PROVE  IInv'
<1> DEFINE d == Pick(free)
           r == temp_map_page(temp_mgr, d)
           m == loader_find_module(name)
<1>1. /\ cr3 = None /\ fault = "none" /\ pc = "idle" /\ pc' = "code"
      /\ m # Missing /\ free_slots # {} /\ free # {} /\ free' = free \ {d}
      /\ entries' = [entries EXCEPT ![At(r.mgr, r.va)] = KernelDirectory]
      /\ temp_mgr' = temp_unmap_page(r.mgr, r.va)
      /\ fault' = touched({r.va})
      /\ job' = [NoJob EXCEPT !.module = m, !.dir = d]
      /\ UNCHANGED <<content, table, given, lost, users, names>>
    BY DEF vmm_create_user_space, Kernel, alloc, KernelDirectory
<1>2. /\ d \in free /\ d \in Pages /\ d \in Frames /\ d # None
      /\ d \notin InFlight \cup lost \cup UsedPages
    BY <1>1, Picked
<1>3. pc \notin Holding /\ pc # "tests" /\ pc \notin Creating /\ pc' # "tests"
      /\ pc' \notin Holding /\ pc' \in Creating \ Filled /\ pc' # "kernel_stack"
    BY <1>1 DEF Holding, Creating, Filled
<1>4. Clean(temp_mgr, S_None) /\ DOMAIN users = {}
    BY <1>3, SlotsNow
<1> HIDE DEF d, m
<1>5. r.va = slot_addr(0) /\ Clean(r.mgr, S_0) /\ r.mgr.pte[0] = d
    BY <1>2, <1>4, MapFirst
<1> HIDE DEF r
<1>6. entries' = [entries EXCEPT ![d] = KernelDirectory]
    BY <1>1, <1>5, AtSlot, SlotFacts
<1>7. Clean(temp_mgr', S_None)
    BY <1>1, <1>5, UnmapOne
<1>8. fault' = "none"
    BY <1>1, <1>5, SlotFacts DEF touched
<1>9. SlotsOK'
  <2>1. UsedSlots' = S_None
    BY <1>1, <1>3, <1>4 DEF UsedSlots, S_None
  <2> QED
    BY <1>1, <1>3, <1>4, <1>7, <1>8, <2>1 DEF SlotsOK
<1>10. m \in Modules
    BY <1>1, FoundModule DEF IInv, m
<1>11. /\ job' \in Jobs /\ job'.module = m /\ job'.dir = d /\ job'.code = None
       /\ job'.stack = None /\ job'.code_table = None /\ job'.stack_table = None
    BY <1>1, <1>2, <1>10 DEF NoJob, Jobs
<1>12. InFlight = {} /\ InFlight' = {d}
  <2>1. InFlight' = {d}
    BY <1>2, <1>11 DEF InFlight
  <2>2. /\ job.dir = None /\ job.code = None /\ job.stack = None /\ job.code_table = None
        /\ job.stack_table = None
    BY <1>3 DEF IInv, JobOK, WithCode, WithStack, WithCodeTable, WithStackTable
  <2> QED
    BY <2>1, <2>2 DEF InFlight
<1>13. next_pid <= MAX_PROCESSES
  <2>1. PICK i \in PcbSlots : processes[i].state = "UNUSED"
    BY <1>1 DEF free_slots
  <2>2. i >= next_pid /\ i <= MAX_PROCESSES /\ i \in Nat
    BY <2>1, Constants DEF IInv, TableOK, PcbSlots
  <2>3. next_pid \in Nat
    BY Constants DEF IInv, TypeOK
  <2> QED
    BY <2>2, <2>3, Constants
<1>14. JobOK'
    BY <1>1, <1>2, <1>10, <1>11, <1>13, LabelFacts DEF JobOK, table
<1>15. DOMAIN entries = Frames /\ DOMAIN entries' = Frames
    BY <1>6 DEF IInv, SpacesOK
<1>16. entries'[d] = KernelDirectory /\ \A p \in Frames : p # d => entries'[p] = entries[p]
    BY <1>2, <1>6, <1>15
<1>17. TypeOK'
  <2>1. /\ DOMAIN KernelDirectory \subseteq 0 .. 1023
        /\ \A e \in DOMAIN KernelDirectory : KernelDirectory[e] \in Pages \cup {BootFrame}
    BY DEF KernelDirectory, KernelEntries
  <2>2. free' \subseteq Pages
    BY <1>1 DEF IInv, TypeOK
  <2>3. \A f \in Frames :
            \/ entries'[f] = entries[f]
            \/ /\ DOMAIN entries'[f] \subseteq 0 .. 1023
               /\ \A e \in DOMAIN entries'[f] : entries'[f][e] \in Pages \cup {BootFrame}
    BY <1>16, <2>1
  <2>4. Clean(temp_mgr, UsedSlots)'
    BY <1>9 DEF SlotsOK
  <2> QED
    BY <1>1, <1>8, <2>2, <2>3, <2>4, EntriesType DEF IInv
<1>18. UsedPages \subseteq Frames
    BY UsedArePages
<1>19. Kept(entries, entries', content, content')
  <2>1. \A p \in UsedPages : entries'[p] = entries[p] /\ content'[p] = content[p]
    BY <1>1, <1>2, <1>16, <1>18
  <2> QED
    BY <2>1, SpacesKept DEF IInv
<1>20. UNCHANGED processes
    BY <1>1 DEF table
<1>21. SpacesOK'
    BY <1>3, <1>11, <1>15, <1>16, <1>19, <1>20, UsedKept DEF SpacesOK, Filled
<1>22. TableOK'
    BY <1>1, TableKept DEF IInv
<1>23. PagesOK'
  <2>1. free \cap lost = {}
    BY DEF IInv, PagesOK
  <2>2. /\ free' \cup lost' \cup InFlight' = free \cup lost \cup InFlight
        /\ free' \cap (lost' \cup InFlight') = {} /\ lost' \cap InFlight' = {}
    BY <1>1, <1>2, <1>12, <2>1
  <2> QED
    BY <1>1, <1>19, <1>20, <2>2, PagesMoved DEF IInv
<1>24. ContentOK'
    BY <1>1, <1>3, <1>19, <1>20, ContentKept DEF IInv
<1>25. NamesOK'
    BY <1>1, NamesKept DEF IInv
<1> QED
    BY <1>9, <1>14, <1>17, <1>21, <1>22, <1>23, <1>24, <1>25 DEF IInv

LEMMA FillStep ==
    ASSUME IInv, fault = "none", FillTables
    PROVE  IInv'
<1> DEFINE r1 == temp_map_page(temp_mgr, job.code_table)
           t1 == temp_unmap_page(r1.mgr, r1.va)
           r2 == temp_map_page(t1, job.stack_table)
           D == put(put(entries[job.dir], 0, job.code_table), 1022, job.stack_table)
           CT == put(NoEntries, 0, job.code)
           ST == put(NoEntries, 1023, job.stack)
<1>1. /\ pc = "fill" /\ pc' = "copy" /\ fault' = touched({r1.va, r2.va})
      /\ temp_mgr' = temp_unmap_page(temp_unmap_page(r2.mgr, r2.va), job.temp_page_dir)
      /\ entries' = [entries EXCEPT
                ![At(temp_mgr, job.temp_page_dir)] =
                    put(put(@, 0, job.code_table), 1022, job.stack_table),
                ![At(r1.mgr, r1.va)] = CT,
                ![At(r2.mgr, r2.va)] = ST]
      /\ UNCHANGED <<free, content, table, job, given, lost, users, names>>
    BY DEF FillTables
<1>2. /\ job \in Jobs /\ job.module \in Modules
      /\ job.dir \in Pages /\ job.code \in Pages /\ job.stack \in Pages
      /\ job.code_table \in Pages /\ job.stack_table \in Pages
      /\ job.code_table # job.dir /\ job.stack_table \notin {job.dir, job.code_table}
      /\ InFlight = {job.dir, job.code, job.stack, job.code_table, job.stack_table}
    BY <1>1, LabelFacts, FullJob
<1>3. Clean(temp_mgr, S_0) /\ job.temp_page_dir = slot_addr(0) /\ temp_mgr.pte[0] = job.dir
      /\ DOMAIN users = {}
    BY <1>1, LabelFacts, SlotsNow
<1>4. job.dir \in Frames /\ job.code_table \in Frames /\ job.stack_table \in Frames
    BY <1>2, Constants
<1>5. r1.va = slot_addr(1) /\ Clean(r1.mgr, S_01) /\ r1.mgr.pte[1] = job.code_table
    BY <1>3, <1>4, MapSecond
<1>6. Clean(t1, S_0)
    BY <1>5, UnmapOne
<1> HIDE DEF t1, r1
<1>7. r2.va = slot_addr(1) /\ Clean(r2.mgr, S_01) /\ r2.mgr.pte[1] = job.stack_table
    BY <1>4, <1>6, MapSecond
<1> HIDE DEF r2
<1>8. Clean(temp_mgr', S_None)
  <2>1. Clean(temp_unmap_page(r2.mgr, r2.va), S_0)
    BY <1>7, UnmapOne
  <2> QED
    BY <1>1, <1>3, <2>1, UnmapOne
<1>9. fault' = "none"
    BY <1>1, <1>5, <1>7, SlotFacts DEF touched
<1>10. DOMAIN entries = Frames /\ entries[job.dir] = KernelDirectory
    BY <1>1, LabelFacts DEF IInv, SpacesOK
<1>11. /\ At(temp_mgr, job.temp_page_dir) = job.dir /\ At(r1.mgr, r1.va) = job.code_table
       /\ At(r2.mgr, r2.va) = job.stack_table
    BY <1>3, <1>5, <1>7, AtSlot, SlotFacts
<1> HIDE DEF D, CT, ST
<1>12. /\ DOMAIN entries' = Frames
       /\ entries'[job.dir] = D /\ entries'[job.code_table] = CT
       /\ entries'[job.stack_table] = ST
       /\ \A p \in Frames : p \notin {job.dir, job.code_table, job.stack_table} =>
            entries'[p] = entries[p]
  <2>1. entries' = [entries EXCEPT
                ![job.dir] = put(put(@, 0, job.code_table), 1022, job.stack_table),
                ![job.code_table] = CT, ![job.stack_table] = ST]
    BY <1>1, <1>11
  <2> QED
    BY <1>2, <1>4, <1>10, <2>1 DEF D
<1>13. /\ DOMAIN D = KernelEntries \cup {0, 1022}
       /\ \A e \in KernelEntries : D[e] = BootFrame
       /\ D[0] = job.code_table /\ D[1022] = job.stack_table
  <2>1. /\ DOMAIN put(KernelDirectory, 0, job.code_table) = KernelEntries \cup {0}
        /\ \A e \in KernelEntries : put(KernelDirectory, 0, job.code_table)[e] = BootFrame
        /\ put(KernelDirectory, 0, job.code_table)[0] = job.code_table
    BY DEF put, KernelDirectory, KernelEntries
  <2> DEFINE Q == put(KernelDirectory, 0, job.code_table)
  <2> HIDE DEF Q
  <2>2. /\ DOMAIN Q = KernelEntries \cup {0} /\ Q[0] = job.code_table
        /\ \A e \in KernelEntries : Q[e] = BootFrame
    BY <2>1 DEF Q
  <2>3. D = put(Q, 1022, job.stack_table)
    BY <1>10 DEF D, Q
  <2>4. 0 # 1022 /\ 1022 \notin KernelEntries
    BY DEF KernelEntries
  <2> QED
    BY <2>2, <2>3, <2>4 DEF put
<1>14. DOMAIN CT = {0} /\ CT[0] = job.code /\ DOMAIN ST = {1023} /\ ST[1023] = job.stack
    BY DEF CT, ST, put, NoEntries
<1>15. /\ Built(entries', job.dir)
       /\ SpacePages(entries', job.dir) =
            {job.dir, job.code, job.stack, job.code_table, job.stack_table}
       /\ entries'[entries'[job.dir][0]][0] = job.code
    BY <1>2, <1>12, <1>13, <1>14 DEF Built, SpacePages
<1>16. pc' \notin Holding /\ pc' # "tests" /\ pc # "tests" /\ pc' \in Filled /\ pc' \in Creating
       /\ pc' # "kernel_stack" /\ pc \notin {"modules", "files"} /\ pc' \in Labels
    BY <1>1 DEF Holding, Filled, Creating, Labels
<1>17. SlotsOK'
  <2>1. UsedSlots' = S_None
    BY <1>1, <1>3, <1>16 DEF UsedSlots, S_None
  <2> QED
    BY <1>1, <1>3, <1>8, <1>9, <1>16, <2>1 DEF SlotsOK
<1>18. TypeOK'
  <2>1. /\ DOMAIN D \subseteq 0 .. 1023 /\ DOMAIN CT \subseteq 0 .. 1023
        /\ DOMAIN ST \subseteq 0 .. 1023
    BY <1>13, <1>14 DEF KernelEntries
  <2>2. /\ \A e \in DOMAIN D : D[e] \in Pages \cup {BootFrame}
        /\ \A e \in DOMAIN CT : CT[e] \in Pages \cup {BootFrame}
        /\ \A e \in DOMAIN ST : ST[e] \in Pages \cup {BootFrame}
    BY <1>2, <1>13, <1>14
  <2>3. \A f \in Frames :
            \/ entries'[f] = entries[f]
            \/ /\ DOMAIN entries'[f] \subseteq 0 .. 1023
               /\ \A e \in DOMAIN entries'[f] : entries'[f][e] \in Pages \cup {BootFrame}
    BY <1>12, <2>1, <2>2
  <2>4. Clean(temp_mgr, UsedSlots)' /\ free' \subseteq Pages
    BY <1>1, <1>17 DEF SlotsOK, IInv, TypeOK
  <2> QED
    BY <1>1, <1>9, <2>3, <2>4, EntriesType DEF IInv
<1>19. JobOK'
    BY <1>1, <1>16, LabelFacts DEF IInv, JobOK, table
<1>20. Kept(entries, entries', content, content')
  <2>1. \A p \in UsedPages : entries'[p] = entries[p] /\ content'[p] = content[p]
    BY <1>1, <1>2, <1>12, UsedArePages, InFlightApart
  <2> QED
    BY <2>1, SpacesKept DEF IInv
<1>21. UNCHANGED processes /\ InFlight' = InFlight
    BY <1>1 DEF table, InFlight
<1>22. SpacesOK'
  <2>1. \A i \in Live' : Built(entries, processes[i].page_directory)'
    BY <1>20, <1>21, UsedKept
  <2>2. job' = job
    BY <1>1
  <2> QED
    BY <1>12, <1>15, <1>16, <2>1, <2>2 DEF SpacesOK
<1>23. TableOK'
    BY <1>1, TableKept DEF IInv
<1>24. PagesOK'
    BY <1>1, <1>20, <1>21, PagesMoved DEF IInv, PagesOK
<1>25. ContentOK'
    BY <1>1, <1>16, <1>20, <1>21, ContentKept DEF IInv
<1>26. NamesOK'
    BY <1>1, <1>16, NamesKept DEF IInv
<1> QED
    BY <1>17, <1>18, <1>19, <1>22, <1>23, <1>24, <1>25, <1>26 DEF IInv

(* Where a copy from the first slot to the second one writes: the code     *)
(* page and, if there is more than a page, the slot that it reads from.    *)
LEMMA CopyEffect ==
    ASSUME IInv, NEW t, Clean(t, S_01), NEW n \in Nat, n >= 1, NEW f \in Frames,
           NEW c \in Frames, NEW s \in Frames, t.pte[1] = c, t.pte[0] = s, c # s
    PROVE  LET C == copied(t, n, slot_addr(0), slot_addr(1)) IN
           /\ f # c /\ f # s => C[f] = content[f]
           /\ n = 1 /\ f # c => C[f] = content[f]
           /\ n = 1 => C[c] = content[s]
<1>1. /\ slot_addr(0) = TEMP_MAPPING_ADDR /\ slot_addr(1) = TEMP_MAPPING_ADDR - 1
      /\ TEMP_MAPPING_ADDR \in Nat
    BY DEF slot_addr, TEMP_MAPPING_ADDR
<1>2. At(t, slot_addr(1) + 0) = c /\ At(t, slot_addr(0) + 0) = s
      /\ At(t, slot_addr(1) + 1) = s
  <2>1. slot_addr(1) + 0 = slot_addr(1) /\ slot_addr(0) + 0 = slot_addr(0)
        /\ slot_addr(1) + 1 = slot_addr(0)
    BY <1>1
  <2> QED
    BY <2>1, AtSlot, SlotFacts
<1>3. ASSUME NEW i \in 0 .. n - 1, i # 0, i # 1
      PROVE  At(t, slot_addr(1) + i) \notin Frames
  <2>1. \A k \in TempSlots : slot_addr(1) + i # slot_addr(k)
    BY <1>1, <1>3, SlotFacts DEF slot_addr
  <2>2. At(t, slot_addr(1) + i) = BootFrame
    BY <2>1 DEF At
  <2> QED
    BY <2>2, FramesAssumption DEF BootFrame
<1>4. ASSUME NEW g \in Frames, g # c, g # s \/ n = 1
      PROVE  copied(t, n, slot_addr(0), slot_addr(1))[g] = content[g]
  <2>1. ASSUME NEW i \in 0 .. n - 1, At(t, slot_addr(1) + i) = g
        PROVE  FALSE
    <3>1. i = 0 \/ i = 1
      BY <1>3, <2>1
    <3>2. i = 1 => n # 1
      OBVIOUS
    <3> QED
      BY <1>2, <1>4, <2>1, <3>1, <3>2
  <2> QED
    BY <2>1 DEF copied
<1>5. ASSUME n = 1
      PROVE  copied(t, n, slot_addr(0), slot_addr(1))[c] = content[s]
  <2>1. \A i \in 0 .. n - 1 : i = 0
    BY <1>5
  <2>2. 0 \in 0 .. n - 1 /\ At(t, slot_addr(1) + 0) = c
    BY <1>2, <1>5
  <2>3. (CHOOSE i \in 0 .. n - 1 : At(t, slot_addr(1) + i) = c) = 0
    BY <2>1, <2>2
  <2>4. At(t, slot_addr(0) + CHOOSE i \in 0 .. n - 1 : At(t, slot_addr(1) + i) = c) = s
    BY <1>2, <2>3
  <2> QED
    BY <2>2, <2>4 DEF copied
<1> QED
    BY <1>4, <1>5

LEMMA CopyStep ==
    ASSUME IInv, fault = "none", CopyImage
    PROVE  IInv'
<1> DEFINE image == ModulePages[job.module]
           src == temp_map_page(temp_mgr, image[1])
           dst == temp_map_page(src.mgr, job.code)
           n == Len(image)
<1>1. /\ pc = "copy" /\ pc' = "kernel_stack" /\ fault' = touched({src.va, dst.va})
      /\ content' = copied(dst.mgr, n, src.va, dst.va)
      /\ temp_mgr' = temp_unmap_page(temp_unmap_page(dst.mgr, src.va), dst.va)
      /\ UNCHANGED <<free, entries, table, job, given, lost, users, names>>
    BY DEF CopyImage
<1>2. /\ job \in Jobs /\ job.module \in Modules /\ job.code \in Pages /\ job.code \in Frames
      /\ job.code \in InFlight
    BY <1>1, LabelFacts, FullJob, Constants
<1>3. Clean(temp_mgr, S_None) /\ DOMAIN users = {}
    BY <1>1, LabelFacts, SlotsNow
<1>4. image[1] \in Frames /\ image[1] \notin Pages /\ n \in Nat /\ n >= 1
    BY <1>2, ModuleFrameFacts
<1>5. src.va = slot_addr(0) /\ Clean(src.mgr, S_0) /\ src.mgr.pte[0] = image[1]
    BY <1>3, <1>4, MapFirst
<1> HIDE DEF src, n, image
<1>6. /\ dst.va = slot_addr(1) /\ Clean(dst.mgr, S_01) /\ dst.mgr.pte[0] = image[1]
      /\ dst.mgr.pte[1] = job.code
    BY <1>2, <1>5, MapSecond
<1> HIDE DEF dst
<1>7. Clean(temp_mgr', S_None)
  <2>1. Clean(temp_unmap_page(dst.mgr, src.va), S_1)
    BY <1>5, <1>6, UnmapOne
  <2> QED
    BY <1>1, <1>6, <2>1, UnmapOne
<1>8. fault' = "none"
    BY <1>1, <1>5, <1>6, SlotFacts DEF touched
<1>9. content' = copied(dst.mgr, n, slot_addr(0), slot_addr(1))
    BY <1>1, <1>5, <1>6
<1>10. ASSUME NEW f \in Frames
       PROVE  /\ f # job.code /\ f # image[1] => content'[f] = content[f]
              /\ n = 1 /\ f # job.code => content'[f] = content[f]
              /\ n = 1 => content'[job.code] = content[image[1]]
    BY <1>2, <1>4, <1>6, <1>9, CopyEffect
<1>11. pc' \notin Holding /\ pc' # "tests" /\ pc # "tests" /\ pc' \in Filled /\ pc' \in Creating
       /\ pc \in Filled /\ pc \notin {"modules", "files"} /\ pc' \in Labels
    BY <1>1 DEF Holding, Filled, Creating, Labels
<1>12. SlotsOK'
  <2>1. UsedSlots' = S_None
    BY <1>1, <1>3, <1>11 DEF UsedSlots, S_None
  <2> QED
    BY <1>1, <1>3, <1>7, <1>8, <1>11, <2>1 DEF SlotsOK
<1>13. TypeOK'
    BY <1>1, <1>8, <1>12, TypeKept DEF IInv, TypeOK, SlotsOK
<1>14. JobOK'
    BY <1>1, <1>11, LabelFacts DEF IInv, JobOK, table
<1>15. Kept(entries, entries', content, content')
  <2>1. \A p \in UsedPages : entries'[p] = entries[p] /\ content'[p] = content[p]
    <3> SUFFICES ASSUME NEW p \in UsedPages PROVE content'[p] = content[p]
      BY <1>1
    <3>1. p \in Pages /\ p \in Frames /\ p # job.code
      BY <1>2, UsedArePages, InFlightApart
    <3> QED
      BY <1>4, <1>10, <3>1
  <2> QED
    BY <2>1, SpacesKept DEF IInv
<1>16. UNCHANGED processes /\ InFlight' = InFlight
    BY <1>1 DEF table, InFlight
<1>17. SpacesOK'
  <2>1. \A i \in Live' : Built(entries, processes[i].page_directory)'
    BY <1>15, <1>16, UsedKept
  <2> QED
    BY <1>1, <1>11, <2>1 DEF IInv, SpacesOK
<1>18. TableOK'
    BY <1>1, TableKept DEF IInv
<1>19. PagesOK'
    BY <1>1, <1>15, <1>16, PagesMoved DEF IInv, PagesOK
<1>20. ContentOK'
  <2>1. ASSUME NEW m \in Modules, OnePage(m)
        PROVE  content'[ModulePages[m][1]] = content[ModulePages[m][1]]
    <3>1. /\ ModulePages[m][1] \in Frames /\ ModulePages[m][1] # job.code
          /\ 1 \in DOMAIN ModulePages[m] /\ 1 \in DOMAIN ModulePages[job.module]
      BY <1>2, ModuleFrameFacts
    <3>2. ModulePages[m][1] = image[1] => m = job.module
      BY <1>2, <3>1, ProcessAssumption DEF image
    <3>3. ModulePages[m][1] = image[1] => n = 1
      BY <2>1, <3>2 DEF OnePage, n, image
    <3> QED
      BY <1>10, <3>1, <3>3
  <2>2. ASSUME OnePage(job.module)
        PROVE  content'[job.code] = <<job.module, 1>>
    <3>1. n = 1 /\ content[image[1]] = <<job.module, 1>>
      BY <1>2, <2>2 DEF OnePage, n, image, IInv, ContentOK
    <3> QED
      BY <1>2, <1>10, <3>1
  <2>3. job' = job
    BY <1>1
  <2> QED
    BY <1>1, <1>15, <1>16, <2>1, <2>2, <2>3, ContentKept DEF IInv
<1>21. NamesOK'
    BY <1>1, <1>11, NamesKept DEF IInv
<1> QED
    BY <1>12, <1>13, <1>14, <1>17, <1>18, <1>19, <1>20, <1>21 DEF IInv

(* The free entries of the process table are those from next_pid on.       *)
LEMMA NextEntry ==
    ASSUME IInv, pc \in Creating
    PROVE  Min(free_slots) = next_pid /\ next_pid \in PcbSlots /\ next_pid \in Nat
<1>1. next_pid \in Nat /\ next_pid >= 1 /\ next_pid <= MAX_PROCESSES /\ MAX_PROCESSES \in Nat
    BY Constants DEF IInv, TypeOK, JobOK
<1>2. PcbSlots \subseteq Nat /\ next_pid \in PcbSlots
    BY <1>1 DEF PcbSlots
<1>3. \A i \in PcbSlots : i \in free_slots <=> i >= next_pid
    BY DEF free_slots, IInv, TableOK
<1>4. free_slots \in SUBSET Nat /\ next_pid \in free_slots /\ free_slots \subseteq PcbSlots
  <2>1. free_slots \subseteq PcbSlots
    BY DEF free_slots
  <2>2. next_pid >= next_pid
    BY <1>1
  <2> QED
    BY <1>2, <1>3, <2>1, <2>2
<1>5. Min(free_slots) \in free_slots /\ Min(free_slots) <= next_pid
    BY <1>4, MinOf
<1>6. Min(free_slots) >= next_pid /\ Min(free_slots) \in Nat
    BY <1>3, <1>4, <1>5
<1> QED
    BY <1>1, <1>2, <1>5, <1>6

(* The mappings through which the tables are read back.                    *)
LEMMA CreatedSlots ==
    ASSUME IInv, pc = "kernel_stack", fault = "none", Created
    PROVE  Clean(temp_mgr', S_None) /\ fault' = "none"
<1> DEFINE page == entries[entries[job.dir][0]][0]
           r1 == temp_map_page(temp_mgr, job.dir)
           r2 == temp_map_page(r1.mgr, entries[job.dir][0])
           r3 == IF page = ExpectedPage THEN temp_map_page(r2.mgr, page) ELSE r2
           u == IF page = ExpectedPage THEN temp_unmap_page(r3.mgr, r3.va) ELSE r3.mgr
<1>1. /\ temp_mgr' = temp_unmap_page(temp_unmap_page(u, r2.va), r1.va)
      /\ fault' = touched({r1.va, r2.va, r3.va})
    BY DEF Created
<1>2. /\ job.dir \in Frames /\ entries[job.dir][0] \in Frames /\ page \in Frames
      /\ Clean(temp_mgr, S_None)
  <2>1. Built(entries, job.dir)
    BY LabelFacts DEF IInv, SpacesOK
  <2>2. Clean(temp_mgr, S_None)
    BY LabelFacts, SlotsNow
  <2>3. job.dir \in Pages /\ entries[job.dir][0] \in Pages /\ page \in Pages
    BY <2>1 DEF Built
  <2> QED
    BY <2>2, <2>3, Constants
<1> HIDE DEF page
<1>3. r1.va = slot_addr(0) /\ Clean(r1.mgr, S_0)
    BY <1>2, MapFirst
<1> HIDE DEF r1
<1>4. r2.va = slot_addr(1) /\ Clean(r2.mgr, S_01)
    BY <1>2, <1>3, MapSecond
<1> HIDE DEF r2
<1>5. Clean(u, S_01) /\ r3.va # 0
  <2>1. CASE page = ExpectedPage
    <3>1. r3 = temp_map_page(r2.mgr, page) /\ u = temp_unmap_page(r3.mgr, r3.va)
      BY <2>1
    <3> HIDE DEF r3, u
    <3>2. r3.va = slot_addr(2) /\ Clean(r3.mgr, S_012)
      BY <1>2, <1>4, <3>1, MapThird
    <3> QED
      BY <3>1, <3>2, UnmapOne, SlotFacts
  <2>2. CASE page # ExpectedPage
    <3>1. r3 = r2 /\ u = r2.mgr
      BY <2>2
    <3> QED
      BY <1>4, <3>1, SlotFacts
  <2> QED
    BY <2>1, <2>2
<1> HIDE DEF r3, u
<1>6. Clean(temp_mgr', S_None)
  <2>1. Clean(temp_unmap_page(u, r2.va), S_0)
    BY <1>4, <1>5, UnmapOne
  <2> QED
    BY <1>1, <1>3, <2>1, UnmapOne
<1>7. fault' = "none"
    BY <1>1, <1>3, <1>4, <1>5, SlotFacts DEF touched
<1> QED
    BY <1>6, <1>7

LEMMA CreatedStep ==
    ASSUME IInv, fault = "none", Created
    PROVE  IInv'
<1> PICK k : k = next_pid
    OBVIOUS
<1> DEFINE x == Pick(free)
           new == [state |-> "READY", pid |-> next_pid, module |-> job.module,
                   page_directory |-> job.dir, kernel_stack |-> x]
<1>1. /\ pc = "kernel_stack" /\ pc' = "idle" /\ job' = NoJob /\ free # {} /\ free' = free \ {x}
      /\ processes' = [processes EXCEPT ![Min(free_slots)] = new]
      /\ next_pid' = next_pid + 1
      /\ UNCHANGED <<memory, current_process, cr3, given, lost, users, names>>
    BY DEF Created, alloc
<1>2. /\ x \in free /\ x \in Pages /\ x # None /\ x \notin InFlight \cup lost \cup UsedPages
    BY <1>1, Picked
<1>3. Min(free_slots) = k /\ k \in PcbSlots /\ k \in Nat /\ k >= 1 /\ k <= MAX_PROCESSES
  <2>1. pc \in Creating
    BY <1>1, LabelFacts
  <2> QED
    BY <2>1, NextEntry, Constants DEF PcbSlots
<1>4. Clean(temp_mgr', S_None) /\ fault' = "none"
    BY <1>1, CreatedSlots
<1>5. /\ job.module \in Modules /\ job.dir \in Pages
      /\ InFlight = {job.dir, job.code, job.stack, job.code_table, job.stack_table}
    BY <1>1, LabelFacts, FullJob
<1>6. /\ Built(entries, job.dir) /\ SpacePages(entries, job.dir) = InFlight
      /\ entries[entries[job.dir][0]][0] = job.code
    BY <1>1, <1>5, LabelFacts DEF IInv, SpacesOK
<1>7. UNCHANGED <<entries, content>>
    BY <1>1 DEF memory
<1>8. /\ pc' \in Labels /\ pc' \notin Creating /\ pc' \notin WithCode /\ pc' \notin WithStack
      /\ pc' \notin WithCodeTable /\ pc' \notin WithStackTable /\ pc' \notin Filled
      /\ pc' \notin Holding /\ pc # "tests" /\ pc' # "kernel_stack"
    BY <1>1 DEF Labels, Creating, WithCode, WithStack, WithCodeTable, WithStackTable, Filled,
                Holding
<1>9. processes \in [PcbSlots -> ProcessRecord]
    BY DEF IInv, TypeOK, ProcessRecord
<1> HIDE DEF x
<1>10. new \in ProcessRecord
    BY <1>2, <1>3, <1>5 DEF ProcessRecord
<1>11. /\ new.state = "READY" /\ new.module = job.module /\ new.page_directory = job.dir
       /\ new.kernel_stack = x
    OBVIOUS
<1> HIDE DEF new
<1>12. /\ processes' \in [PcbSlots -> ProcessRecord] /\ processes'[k] = new
       /\ \A i \in PcbSlots : i # k => processes'[i] = processes[i]
    BY <1>1, <1>3, <1>9, <1>10
<1>13. k \notin Live
    BY <1>3 DEF IInv, TableOK, Live
<1>14. Live' = Live \cup {k} /\ Live \subseteq PcbSlots
    BY <1>3, <1>11, <1>12 DEF Live
<1>15. \A i \in Live : i # k /\ processes'[i] = processes[i]
    BY <1>12, <1>13, <1>14
<1>16. /\ \A i \in Live : PagesOf(i)' = PagesOf(i)
       /\ PagesOf(k)' = InFlight \cup {x}
    BY <1>6, <1>7, <1>11, <1>12, <1>15 DEF PagesOf
<1>17. UsedPages' = UsedPages \cup InFlight \cup {x}
    BY <1>14, <1>16 DEF UsedPages
<1>18. InFlight' = {}
    BY <1>1 DEF InFlight, NoJob
<1>19. PagesOK'
  <2>1. /\ given = free \cup lost \cup InFlight \cup UsedPages
        /\ UsedPages \cap (free \cup lost \cup InFlight) = {}
        /\ \A i, j \in Live : i # j => PagesOf(i) \cap PagesOf(j) = {}
        /\ free \cap (lost \cup InFlight) = {} /\ lost \cap InFlight = {}
    BY DEF IInv, PagesOK
  <2>2. given' = free' \cup lost' \cup InFlight' \cup UsedPages'
    BY <1>1, <1>2, <1>17, <1>18, <2>1
  <2>3. UsedPages' \cap (free' \cup lost' \cup InFlight') = {}
    BY <1>1, <1>2, <1>17, <1>18, <2>1
  <2>4. \A i \in Live : PagesOf(i)' \cap PagesOf(k)' = {}
    <3>1. \A i \in Live : PagesOf(i) \subseteq UsedPages
      BY DEF UsedPages
    <3>2. UsedPages \cap (InFlight \cup {x}) = {}
      BY <1>2, <2>1
    <3> QED
      BY <1>16, <3>1, <3>2
  <2>5. \A i, j \in Live' : i # j => PagesOf(i)' \cap PagesOf(j)' = {}
    <3> SUFFICES ASSUME NEW i \in Live', NEW j \in Live', i # j
                 PROVE  PagesOf(i)' \cap PagesOf(j)' = {}
      OBVIOUS
    <3>1. CASE i \in Live /\ j \in Live
      BY <1>16, <2>1, <3>1
    <3>2. CASE i = k /\ j \in Live
      BY <2>4, <3>2
    <3>3. CASE i \in Live /\ j = k
      BY <2>4, <3>3
    <3> QED
      BY <1>14, <3>1, <3>2, <3>3
  <2>6. free' \cap (lost' \cup InFlight') = {} /\ lost' \cap InFlight' = {}
    BY <1>1, <1>18, <2>1
  <2> QED
    BY <2>2, <2>3, <2>5, <2>6 DEF PagesOK
<1>20. SlotsOK'
  <2>1. DOMAIN users' = {}
    BY <1>1, <1>8 DEF IInv, SlotsOK
  <2>2. UsedSlots' = S_None
    BY <1>8, <2>1 DEF UsedSlots, S_None
  <2> QED
    BY <1>4, <1>8, <2>1, <2>2 DEF SlotsOK
<1>21. TypeOK'
  <2>1. TempTypeOK(temp_mgr)' /\ free' \subseteq Pages
    BY <1>1, <1>20 DEF SlotsOK, Clean, IInv, TypeOK
  <2>2. next_pid' \in 1 .. MAX_PROCESSES + 1
    BY <1>1, <1>3, Constants
  <2> QED
    BY <1>1, <1>4, <1>7, <1>12, <2>1, <2>2 DEF IInv, TypeOK, ProcessRecord
<1>22. JobOK'
  <2>1. job' \in Jobs
    BY <1>1 DEF NoJob, Jobs
  <2> QED
    BY <1>1, <1>8, <2>1 DEF JobOK, NoJob
<1>23. SpacesOK'
  <2>1. \A i \in Live' : Built(entries, processes[i].page_directory)'
    BY <1>6, <1>7, <1>11, <1>12, <1>14, <1>15 DEF IInv, SpacesOK
  <2> QED
    BY <1>7, <1>8, <2>1 DEF IInv, SpacesOK
<1>24. TableOK'
  <2>1. \A i \in PcbSlots : processes'[i].state = "UNUSED" <=> i >= next_pid'
    <3> SUFFICES ASSUME NEW i \in PcbSlots
                 PROVE  processes'[i].state = "UNUSED" <=> i >= next_pid'
      OBVIOUS
    <3>1. i \in Nat /\ next_pid' = k + 1
      BY <1>1, Constants DEF PcbSlots
    <3>2. CASE i = k
      BY <1>3, <1>11, <1>12, <3>1, <3>2
    <3>3. CASE i # k
      <4>1. processes[i].state = "UNUSED" <=> i >= k
        BY DEF IInv, TableOK
      <4>2. i >= k <=> i >= k + 1
        BY <1>3, <3>1, <3>3
      <4> QED
        BY <1>12, <3>1, <3>3, <4>1, <4>2
    <3> QED
      BY <3>2, <3>3
  <2>2. \A i \in PcbSlots : processes'[i].state # "TERMINATED"
    BY <1>11, <1>12 DEF IInv, TableOK
  <2>3. \A i \in Live' : processes'[i].kernel_stack \in Pages /\ processes'[i].module \in Modules
    BY <1>2, <1>5, <1>11, <1>12, <1>14, <1>15 DEF IInv, TableOK
  <2>4. cr3' = None
    BY <1>1, LabelFacts DEF IInv, JobOK
  <2> QED
    BY <2>1, <2>2, <2>3, <2>4 DEF TableOK
<1>25. ContentOK'
  <2>1. ASSUME NEW i \in Live', OnePage(processes'[i].module)
        PROVE  content[entries[entries[processes'[i].page_directory][0]][0]] =
                <<processes'[i].module, 1>>
    <3>1. CASE i = k
      <4>1. processes'[i].module = job.module /\ processes'[i].page_directory = job.dir
        BY <1>11, <1>12, <3>1
      <4>2. content[job.code] = <<job.module, 1>>
        BY <1>1, <2>1, <4>1 DEF IInv, ContentOK
      <4> QED
        BY <1>6, <4>1, <4>2
    <3>2. CASE i \in Live
      BY <1>15, <2>1, <3>2 DEF IInv, ContentOK
    <3> QED
      BY <1>14, <3>1, <3>2
  <2> QED
    BY <1>7, <1>8, <2>1 DEF IInv, ContentOK, OnePage
<1>26. NamesOK'
    BY <1>1, NamesKept DEF IInv
<1> QED
    BY <1>19, <1>20, <1>21, <1>22, <1>23, <1>24, <1>25, <1>26 DEF IInv

-----------------------------------------------------------------------------
(* The theorems.                                                           *)

LEMMA NextHolds ==
    ASSUME IInv, [Next]_vars
    PROVE  IInv'
<1>1. CASE boot_modules_from_mbi
    BY <1>1, Booting
<1>2. CASE boot_vfs_init
    BY <1>2, FilesInit
<1>3. CASE \E frame \in TestPages : TestMap(frame)
    BY <1>3, TestMapStep
<1>4. CASE \E va \in TEMP_MAPPING_ADDR - TEMP_MAPPING_COUNT .. TEMP_MAPPING_ADDR + 1 : TestUnmap(va)
    BY <1>4, TestUnmapStep
<1>5. CASE TestsDone
    BY <1>5, TestsEnd
<1>6. CASE Create
  <2>1. ASSUME NEW name \in Paths, CreateRefused(name) PROVE IInv'
    BY <2>1, Stutter DEF CreateRefused
  <2>2. ASSUME NEW name \in Paths, vmm_create_user_space(name) PROVE IInv'
    BY <2>2, DirectoryStep
  <2>3. ASSUME fault = "none",
               \/ AllocCode \/ AllocStack \/ AllocCodeTable \/ AllocStackTable
               \/ FillTables \/ CopyImage \/ NoKernelStack \/ Created
        PROVE  IInv'
    BY <2>3, CodeStep, StackStep, CodeTableStep, StackTableStep, FillStep, CopyStep,
       NoStackStep, CreatedStep
  <2> QED
    BY <1>6, <2>1, <2>2, <2>3 DEF Create
<1>7. CASE \E pid \in 0 .. MAX_PROCESSES : process_start(pid)
    BY <1>7, StartStep
<1>8. CASE process_exit_current
    BY <1>8, ExitStep
<1>9. CASE FileCall
    BY <1>9, FileStep
<1>10. CASE OtherCall
    BY <1>10, Stutter DEF OtherCall
<1>11. CASE UNCHANGED vars
    BY <1>11, Stutter
<1> QED
    BY <1>1, <1>2, <1>3, <1>4, <1>5, <1>6, <1>7, <1>8, <1>9, <1>10, <1>11 DEF Next

LEMMA Inductive == Spec => []IInv
<1>1. Init => IInv
    BY InitHolds
<1>2. IInv /\ [Next]_vars => IInv'
    BY NextHolds
<1> QED
    BY <1>1, <1>2, PTL DEF Spec

(* Every value that process.c, vmm.c and temp_mapping.c keep has its type: *)
(* no pid past the table, no entry of a page table that is not a page of   *)
(* the allocator or the kernel's.                                          *)
THEOREM ProcessTypeCorrect == Spec => []TypeOK
<1>1. IInv => TypeOK
    BY DEF IInv
<1> QED
    BY <1>1, Inductive, PTL

(* temp_map_page and temp_unmap_page keep the bitmap, the counts and the   *)
(* page table in agreement with their users.                               *)
THEOREM MappingsStayInPlace == Spec => []SlotsAgree
<1>1. IInv => SlotsAgree
    BY SlotsFollow DEF IInv
<1> QED
    BY <1>1, Inductive, PTL

(* process_create_from_module never runs out of slots, gives back all it   *)
(* takes on every path, and temp_map_page never waits for its own lock.    *)
THEOREM MappingsGivenBack == Spec => []SlotsReturned
<1>1. IInv => SlotsReturned
    BY SlotsFollow DEF IInv
<1> QED
    BY <1>1, Inductive, PTL

(* Whatever runs out of pages where, a page is free, in the creation, in a *)
(* process, or one of the four that process_create_from_module forgets.    *)
THEOREM PagesNeverMissing == Spec => []PagesAccounted
<1>1. IInv => PagesAccounted
    BY AccountsFollow DEF IInv
<1> QED
    BY <1>1, Inductive, PTL

(* The tables that vmm_load_user_program fills let no process reach a page *)
(* of another one, or one that the allocator may give out.                 *)
THEOREM ProcessesIsolated == Spec => []Isolated
<1>1. IInv => Isolated
    BY AccountsFollow DEF IInv
<1> QED
    BY <1>1, Inductive, PTL

(* A process of one page finds its module at virtual page 0, although a    *)
(* longer module overwrites its own first page when it is copied.          *)
THEOREM ProgramsLoaded == Spec => []ImageLoaded
<1>1. IInv => ImageLoaded
    BY ImagesFollow DEF IInv
<1> QED
    BY <1>1, Inductive, PTL

(* ramfs and the loader find the same module under a name.                 *)
THEOREM FilesMatchModules == Spec => []FilesAreModules
<1>1. IInv => FilesAreModules
    BY NamesFollow DEF IInv
<1> QED
    BY <1>1, Inductive, PTL

=============================================================================
